-------------------------- MODULE ProductCacheProofs --------------------------
(***************************************************************************)
(* Theorems about ProductCache, for every set of images, ids and pages,    *)
(* any number of requests, and any number and kind of errors.              *)
(***************************************************************************)
EXTENDS ProductCache, TLAPS

-----------------------------------------------------------------------------
(* Calls and their faults.                                                 *)

\* How a step ends never takes the fault counter out of its range.
LEMMA EndsCounts ==
  ASSUME MaxFaults \in Nat, faults \in 0..MaxFaults, NEW step, NEW result,
         Ends(step, result)
  PROVE  faults' \in 0..MaxFaults
BY DEF Ends, Fault

\* A new call never takes the call counter out of its range.
LEMMA StartsCounts ==
  ASSUME MaxCalls \in Nat, calls \in 0..MaxCalls, NEW r, NEW call, Starts(r, call)
  PROVE  calls' \in 0..MaxCalls
BY DEF Starts

\* A goroutine that goes on to a state of a set leaves all of them in it.
LEMMA BecomesStays ==
  ASSUME NEW States, request \in [Requests -> States], NEW r \in Requests,
         NEW next \in States, Becomes(r, next)
  PROVE  request' \in [Requests -> States]
BY DEF Becomes

\* A goroutine that goes on is in its new state, and no other one moves.
LEMMA BecomesOnly ==
  ASSUME NEW States, request \in [Requests -> States], NEW r \in Requests, NEW next,
         Becomes(r, next)
  PROVE  /\ request'[r] = next
         /\ \A s \in Requests : s # r => request'[s] = request[s]
BY DEF Becomes

-----------------------------------------------------------------------------
(* Type correctness.                                                       *)

\* The kinds of calls are told by their name, or by where they are.
LEMMA Kinds ==
  ASSUME TypeOK, NEW r \in Requests, request[r] # Idle
  PROVE  /\ request[r].call = "get" => request[r] \in GetRequest
         /\ request[r].call = "list" => request[r] \in ListRequest
         /\ request[r].pc \in {"l1", "scan", "l2"} => request[r] \in ChangeRequest
<1>1. request[r] \in RequestStates
  BY DEF TypeOK
<1>2. QED
  BY <1>1 DEF RequestStates, GetRequest, ListRequest, ChangeRequest

\* Steps of a GetSneakerByID call.
LEMMA GetGoes ==
  ASSUME NEW q \in GetRequest, NEW sneaker \in Sneakers
  PROVE  /\ [q EXCEPT !.pc = "reply"] \in RequestStates
         /\ [q EXCEPT !.sneaker = sneaker,
                      !.pc = IF sneaker = Absent THEN "reply" ELSE "set"]
              \in RequestStates
<1>1. [q EXCEPT !.pc = "reply"] \in GetRequest
  BY DEF GetRequest, Sneakers
<1>2. CASE sneaker = Absent
  <2>1. [q EXCEPT !.sneaker = sneaker, !.pc = "reply"] \in GetRequest
    BY DEF GetRequest
  <2>2. QED
    BY <1>1, <1>2, <2>1 DEF RequestStates
<1>3. CASE sneaker # Absent
  <2>1. [q EXCEPT !.sneaker = sneaker, !.pc = "set"] \in GetRequest
    BY <1>3 DEF GetRequest, Sneakers
  <2>2. QED
    BY <1>1, <1>3, <2>1 DEF RequestStates
<1>4. QED
  BY <1>2, <1>3

\* Steps of a GetAllSneakers call.
LEMMA ListGoes ==
  ASSUME NEW q \in ListRequest, NEW listing \in Listings, NEW pc \in {"set", "reply"}
  PROVE  /\ [q EXCEPT !.pc = "reply"] \in RequestStates
         /\ [q EXCEPT !.listing = listing, !.pc = pc] \in RequestStates
BY DEF ListRequest, RequestStates

\* Steps of a call that changes a row.
LEMMA ChangeGoes ==
  ASSUME NEW q \in ChangeRequest, NEW left \in SUBSET Pages
  PROVE  /\ [q EXCEPT !.pc = "scan"] \in RequestStates
         /\ [q EXCEPT !.pc = "l2", !.left = left] \in RequestStates
         /\ [q EXCEPT !.left = left] \in RequestStates
BY DEF ChangeRequest, RequestStates

\* How calls begin, and end.
LEMMA NewKinds ==
  /\ Idle \in RequestStates
  /\ \A i \in Ids, sneaker \in Sneakers, pc \in {"reply", "load"} :
       [call |-> "get", id |-> i, sneaker |-> sneaker, pc |-> pc] \in RequestStates
  /\ \A p \in Pages, listing \in Listings, pc \in {"reply", "load"} :
       [call |-> "list", page |-> p, listing |-> listing, pc |-> pc] \in RequestStates
  /\ \A i \in Ids, call \in {"add", "delete", "update"}, pc \in {"l1", "scan"} :
       [call |-> call, pc |-> pc, id |-> i, left |-> {}] \in RequestStates
BY DEF GetRequest, ListRequest, ChangeRequest, RequestStates

\* A listing that is not cached is a listing.
LEMMA NoListingIsListing == NoListing \in Listings
<1>1. NoListing \in [{} -> Images]
  BY DEF NoListing
<1>2. QED
  BY <1>1 DEF Listings

\* A page of the table is a listing.
LEMMA PageIsListing ==
  ASSUME rows \in [Ids -> Sneakers], NEW p \in Pages
  PROVE  PageOf(p) \in Listings
<1> DEFINE before(i) == Cardinality({j \in Ids : j < i /\ rows[j] # Absent})
           shown == {i \in Ids : /\ rows[i] # Absent
                                 /\ before(i) >= p.offset
                                 /\ before(i) < p.offset + p.limit}
<1>1. PageOf(p) = [i \in shown |-> rows[i]]
  BY DEF PageOf
<1>2. shown \in SUBSET Ids /\ \A i \in shown : rows[i] \in Images
  BY DEF Sneakers
<1> HIDE DEF shown
<1>3. [i \in shown |-> rows[i]] \in [shown -> Images]
  BY <1>2
<1>4. QED
  BY <1>1, <1>2, <1>3 DEF Listings

\* Every step keeps the types.
LEMMA TypePreserved == TypeOK /\ [Next]_vars => TypeOK'
<1> SUFFICES ASSUME TypeOK, [Next]_vars PROVE TypeOK'
  OBVIOUS
<1> USE CallAssumption, FaultAssumption
<1>t. /\ request \in [Requests -> RequestStates]
      /\ calls \in 0..MaxCalls
      /\ faults \in 0..MaxFaults
  BY DEF TypeOK
<1>c. /\ rows \in [Ids -> Sneakers]
      /\ issued \in 0..MaxId
      /\ l1 \in [Ids -> Sneakers]
      /\ l2 \in [Pages -> Listings]
      /\ exposed \in BOOLEAN
  BY DEF TypeOK
<1>e. \A wrong : Exposes(wrong) /\ wrong \in BOOLEAN => exposed' \in BOOLEAN
  BY <1>c DEF Exposes
<1>q. Quiet \in BOOLEAN
  BY DEF Quiet
<1>0. CASE UNCHANGED vars
  BY <1>0 DEF TypeOK, vars, table, redis
<1>1. ASSUME NEW i \in Ids, SneakerExpires(i)
      PROVE  TypeOK'
  BY <1>1, <1>t, <1>c DEF TypeOK, SneakerExpires, table, Sneakers
<1>2. ASSUME NEW p \in Pages, PageExpires(p)
      PROVE  TypeOK'
  <2>1. l2' \in [Pages -> Listings]
    BY <1>2, <1>c, NoListingIsListing DEF PageExpires
  <2>2. QED
    BY <2>1, <1>2, <1>t, <1>c DEF TypeOK, PageExpires, table
<1>3. ASSUME NEW r \in Requests, NEW i \in Ids, GetSneakerByID(r, i)
      PROVE  TypeOK'
  <2>1. PICK result \in {"ok", "error"}, pc \in {"reply", "load"} :
          /\ Ends("get", result)
          /\ Becomes(r, [call |-> "get", id |-> i, sneaker |-> l1[i], pc |-> pc])
    BY <1>3 DEF GetSneakerByID
  <2>2. request' \in [Requests -> RequestStates]
    BY <2>1, <1>t, <1>c, NewKinds, BecomesStays
  <2>3. faults' \in 0..MaxFaults /\ calls' \in 0..MaxCalls
    BY <2>1, <1>3, <1>t, EndsCounts, StartsCounts DEF GetSneakerByID
  <2>4. exposed' \in BOOLEAN
    BY <1>3, <1>e, <1>q DEF GetSneakerByID, Meets
  <2>5. QED
    BY <2>2, <2>3, <2>4, <1>3, <1>c DEF TypeOK, GetSneakerByID, table, redis
<1>4. ASSUME NEW r \in Requests, NEW p \in Pages, GetAllSneakers(r, p)
      PROVE  TypeOK'
  <2>1. PICK result \in {"ok", "error"}, pc \in {"reply", "load"} :
          /\ Ends("get", result)
          /\ Becomes(r, [call |-> "list", page |-> p, listing |-> l2[p], pc |-> pc])
    BY <1>4 DEF GetAllSneakers
  <2>2. request' \in [Requests -> RequestStates]
    BY <2>1, <1>t, <1>c, NewKinds, BecomesStays
  <2>3. faults' \in 0..MaxFaults /\ calls' \in 0..MaxCalls
    BY <2>1, <1>4, <1>t, EndsCounts, StartsCounts DEF GetAllSneakers
  <2>4. exposed' \in BOOLEAN
    BY <1>4, <1>e, <1>q DEF GetAllSneakers, Meets
  <2>5. QED
    BY <2>2, <2>3, <2>4, <1>4, <1>c DEF TypeOK, GetAllSneakers, table, redis
<1>5. ASSUME NEW r \in Requests, NEW call \in {"add", "delete", "update"},
             NEW i \in Ids, NEW sneaker \in Sneakers, NEW pc \in {"l1", "scan"},
             ChangeRow(r, call, i, sneaker, pc), Starts(r, call),
             issued' \in 0..MaxId
      PROVE  TypeOK'
  <2>1. PICK result \in Results :
          /\ Ends("row", result)
          /\ rows' = IF result = "error" THEN rows ELSE [rows EXCEPT ![i] = sneaker]
          /\ \/ Return(r)
             \/ Becomes(r, [call |-> call, pc |-> pc, id |-> i, left |-> {}])
          /\ Exposes(~Quiet \/ result = "lost")
    BY <1>5 DEF ChangeRow
  <2>2. request' \in [Requests -> RequestStates]
    BY <2>1, <1>t, NewKinds, BecomesStays DEF Return
  <2>3. faults' \in 0..MaxFaults /\ calls' \in 0..MaxCalls
    BY <2>1, <1>5, <1>t, EndsCounts, StartsCounts
  <2>4. rows' \in [Ids -> Sneakers]
    BY <2>1, <1>c
  <2>5. exposed' \in BOOLEAN
    BY <2>1, <1>e
  <2>6. QED
    BY <2>2, <2>3, <2>4, <2>5, <1>5, <1>c DEF TypeOK, ChangeRow, redis
<1>6. ASSUME NEW r \in Requests, AddSneaker(r)
      PROVE  TypeOK'
  <2>1. issued + 1 \in Ids /\ issued' \in 0..MaxId
    BY <1>6, <1>c, PageAssumption DEF AddSneaker, Ids
  <2>2. Blank \in Sneakers
    BY ImageAssumption DEF Sneakers
  <2>3. ChangeRow(r, "add", issued + 1, Blank, "scan") /\ Starts(r, "add")
    BY <1>6 DEF AddSneaker
  <2>4. QED
    BY <2>1, <2>2, <2>3, <1>5
<1>7. ASSUME NEW r \in Requests, NEW i \in Ids, DeleteSneaker(r, i)
      PROVE  TypeOK'
  BY <1>5, <1>7, <1>c DEF DeleteSneaker, Sneakers
<1>8. ASSUME NEW r \in Requests, NEW i \in Ids, NEW image \in Images,
             UpdateProductImage(r, i, image)
      PROVE  TypeOK'
  BY <1>5, <1>8, <1>c DEF UpdateProductImage, Sneakers
<1>9. ASSUME NEW r \in Requests, LoadSneaker(r)
      PROVE  TypeOK'
  <2>1. request[r] \in GetRequest /\ request[r].id \in Ids
    <3>1. request[r] \in GetRequest
      BY <1>9, Kinds DEF LoadSneaker, At
    <3>2. QED
      BY <3>1 DEF GetRequest
  <2> DEFINE sneaker == rows[request[r].id]
  <2>2. sneaker \in Sneakers
    BY <2>1, <1>c
  <2>3. PICK result \in {"ok", "error"} :
          /\ Ends("load", result)
          /\ \/ Return(r)
             \/ Becomes(r, [request[r] EXCEPT !.sneaker = sneaker,
                              !.pc = IF sneaker = Absent THEN "reply" ELSE "set"])
    BY <1>9 DEF LoadSneaker
  <2>4. request' \in [Requests -> RequestStates]
    <3> HIDE DEF sneaker
    <3>1. QED
      BY <2>1, <2>2, <2>3, <1>t, GetGoes, NewKinds, BecomesStays DEF Return
  <2>5. faults' \in 0..MaxFaults
    BY <2>3, <1>t, EndsCounts
  <2>6. QED
    BY <2>4, <2>5, <1>9, <1>t, <1>c DEF TypeOK, LoadSneaker, table, redis
<1>10. ASSUME NEW r \in Requests, SetSneaker(r)
       PROVE  TypeOK'
  <2>1. /\ request[r] \in GetRequest
        /\ request[r].id \in Ids
        /\ request[r].sneaker \in Sneakers
    <3>1. request[r] \in GetRequest
      BY <1>10, Kinds DEF SetSneaker, At
    <3>2. QED
      BY <3>1 DEF GetRequest, Sneakers
  <2>2. request' \in [Requests -> RequestStates]
    BY <2>1, <1>10, <1>t, <1>c, GetGoes, BecomesStays DEF SetSneaker, Goes
  <2>3. PICK result \in Results :
          /\ Ends("set", result)
          /\ l1' = IF result = "error" THEN l1
                   ELSE [l1 EXCEPT ![request[r].id] = request[r].sneaker]
    BY <1>10 DEF SetSneaker
  <2>4. l1' \in [Ids -> Sneakers] /\ faults' \in 0..MaxFaults
    BY <2>1, <2>3, <1>t, <1>c, EndsCounts
  <2>5. QED
    BY <2>2, <2>4, <1>10, <1>t, <1>c DEF TypeOK, SetSneaker, table
<1>11. ASSUME NEW r \in Requests, LoadPage(r)
       PROVE  TypeOK'
  <2>1. request[r] \in ListRequest /\ request[r].page \in Pages
    <3>1. request[r] \in ListRequest
      BY <1>11, Kinds DEF LoadPage, At
    <3>2. QED
      BY <3>1 DEF ListRequest
  <2> DEFINE listing == PageOf(request[r].page)
  <2>2. listing \in Listings
    BY <2>1, <1>c, PageIsListing
  <2> HIDE DEF listing
  <2>3. PICK result \in {"ok", "error"}, pc \in {"set", "reply"} :
          /\ Ends("load", result)
          /\ \/ Return(r)
             \/ Becomes(r, [request[r] EXCEPT !.listing = listing, !.pc = pc])
    BY <1>11 DEF LoadPage, listing
  <2>4. request' \in [Requests -> RequestStates]
    BY <2>1, <2>2, <2>3, <1>t, ListGoes, NewKinds, BecomesStays DEF Return
  <2>5. faults' \in 0..MaxFaults
    BY <2>3, <1>t, EndsCounts
  <2>6. QED
    BY <2>4, <2>5, <1>11, <1>t, <1>c DEF TypeOK, LoadPage, table, redis
<1>12. ASSUME NEW r \in Requests, SetPage(r)
       PROVE  TypeOK'
  <2>1. /\ request[r] \in ListRequest
        /\ request[r].page \in Pages
        /\ request[r].listing \in Listings
    <3>1. request[r] \in ListRequest
      BY <1>12, Kinds DEF SetPage, At
    <3>2. QED
      BY <3>1 DEF ListRequest
  <2>2. request' \in [Requests -> RequestStates]
    BY <2>1, <1>12, <1>t, ListGoes, BecomesStays DEF SetPage, Goes
  <2>3. PICK result \in Results :
          /\ Ends("set", result)
          /\ l2' = IF result = "error" THEN l2
                   ELSE [l2 EXCEPT ![request[r].page] = request[r].listing]
    BY <1>12 DEF SetPage
  <2>4. l2' \in [Pages -> Listings] /\ faults' \in 0..MaxFaults
    BY <2>1, <2>3, <1>t, <1>c, EndsCounts
  <2>5. QED
    BY <2>2, <2>4, <1>12, <1>t, <1>c DEF TypeOK, SetPage, table
<1>13. ASSUME NEW r \in Requests, Answer(r) \/ FinishScan(r)
       PROVE  TypeOK'
  <2>1. request' \in [Requests -> RequestStates]
    BY <1>13, <1>t, NewKinds, BecomesStays DEF Answer, FinishScan, Return
  <2>2. QED
    BY <2>1, <1>13, <1>t, <1>c DEF TypeOK, Answer, FinishScan, table, redis
<1>14. ASSUME NEW r \in Requests, DropSneaker(r)
       PROVE  TypeOK'
  <2>1. request[r] \in ChangeRequest
    BY <1>14, Kinds DEF DropSneaker, Idle
  <2>2. request' \in [Requests -> RequestStates]
    <3>1. {} \in SUBSET Pages
      OBVIOUS
    <3>2. QED
      BY <2>1, <3>1, <1>14, <1>t, ChangeGoes, BecomesStays DEF DropSneaker, Goes
  <2>3. PICK result \in Results :
          /\ Ends("del", result)
          /\ l1' = IF result = "error" THEN l1
                   ELSE [l1 EXCEPT ![request[r].id] = Absent]
          /\ Exposes(result = "error")
    BY <1>14 DEF DropSneaker
  <2>4. l1' \in [Ids -> Sneakers] /\ faults' \in 0..MaxFaults /\ exposed' \in BOOLEAN
    BY <2>3, <1>t, <1>c, <1>e, EndsCounts DEF Sneakers
  <2>5. QED
    BY <2>2, <2>4, <1>14, <1>t, <1>c DEF TypeOK, DropSneaker, table
<1>15. ASSUME NEW r \in Requests, ScanPages(r)
       PROVE  TypeOK'
  <2>1. request[r] \in ChangeRequest
    BY <1>15, Kinds DEF ScanPages, Idle
  <2>2. CachedPages \in SUBSET Pages
    BY DEF CachedPages
  <2>3. request' \in [Requests -> RequestStates]
    BY <2>1, <2>2, <1>15, <1>t, ChangeGoes, BecomesStays DEF ScanPages
  <2>4. QED
    BY <2>3, <1>15, <1>t, <1>c DEF TypeOK, ScanPages, table, redis
<1>16. ASSUME NEW r \in Requests, DropPage(r)
       PROVE  TypeOK'
  <2>1. request[r] \in ChangeRequest
    BY <1>16, Kinds DEF DropPage, Idle
  <2>2. PICK result \in Results, p \in request[r].left \union CachedPages :
          /\ Ends("del", result)
          /\ l2' = IF result = "error" THEN l2 ELSE [l2 EXCEPT ![p] = NoListing]
          /\ \/ Return(r)
             \/ Becomes(r, [request[r] EXCEPT !.left = request[r].left \ {p}])
          /\ Exposes(result # "ok")
    BY <1>16 DEF DropPage
  <2>3. request[r].left \ {p} \in SUBSET Pages
    BY <2>1 DEF ChangeRequest
  <2>4. request' \in [Requests -> RequestStates]
    BY <2>1, <2>2, <2>3, <1>t, ChangeGoes, NewKinds, BecomesStays DEF Return
  <2>5. l2' \in [Pages -> Listings] /\ faults' \in 0..MaxFaults /\ exposed' \in BOOLEAN
    BY <2>2, <1>t, <1>c, <1>e, EndsCounts, NoListingIsListing
  <2>6. QED
    BY <2>4, <2>5, <1>16, <1>t, <1>c DEF TypeOK, DropPage, table
<1>17. QED
  BY <1>0, <1>1, <1>2, <1>3, <1>4, <1>6, <1>7, <1>8, <1>9, <1>10, <1>11, <1>12,
     <1>13, <1>14, <1>15, <1>16
  DEF Next, Call, Step, Expires

\* The variables keep their types, for any number of requests, calls and errors.
THEOREM TypeCorrect == Spec => []TypeOK
<1>1. Init => TypeOK
  <2>1. Idle \in RequestStates /\ NoListing \in Listings
    BY NewKinds, NoListingIsListing
  <2>2. 0 \in 0..MaxCalls /\ 0 \in 0..MaxFaults /\ 0 \in 0..MaxId
    BY CallAssumption, FaultAssumption, PageAssumption
  <2>3. QED
    BY <2>1, <2>2 DEF Init, TypeOK, Sneakers
<1>2. QED
  BY <1>1, TypePreserved, PTL DEF Spec

-----------------------------------------------------------------------------
(* While nothing has exposed the cache, it is wrong only about what the    *)
(* one call in progress is going to drop.                                  *)

Alone == \A r, s \in Requests : r # s => request[r] = Idle \/ request[s] = Idle

\* Ids that have not been given have no row.
FreshIds == \A i \in Ids : i > issued => rows[i] = Absent

L1Drops(r, i) == request[r].pc = "l1" /\ request[r].id = i
L2Drops(r, p) ==
  \/ request[r].pc \in {"l1", "scan"}
  \/ request[r].pc = "l2" /\ p \in request[r].left

L1Current ==
  \A i \in Ids : l1[i] \in {Absent, rows[i]} \/ \E r \in Requests : L1Drops(r, i)
L2Current ==
  \A p \in Pages : l2[p] \in {NoListing, PageOf(p)} \/ \E r \in Requests : L2Drops(r, p)

\* What a call has read is what the table holds.
ReadIsCurrent(r) ==
  /\ At(r, "get", "set") \/ At(r, "get", "reply") =>
       request[r].sneaker = rows[request[r].id]
  /\ At(r, "list", "set") \/ At(r, "list", "reply") =>
       request[r].listing = PageOf(request[r].page)

\* The inductive invariant.
Coherence ==
  /\ FreshIds
  /\ ~exposed => /\ Alone
                 /\ L1Current
                 /\ L2Current
                 /\ \A r \in Requests : ReadIsCurrent(r)

\* Pages are made of rows alone.
LEMMA PageOfRows == ASSUME rows' = rows, NEW p PROVE PageOf(p)' = PageOf(p)
BY DEF PageOf

\* When no call is in progress, nothing is wrong and nothing is read.
LEMMA CalmIsCurrent ==
  ASSUME Coherence, ~exposed, Quiet
  PROVE  /\ \A i \in Ids : l1[i] \in {Absent, rows[i]}
         /\ \A p \in Pages : l2[p] \in {NoListing, PageOf(p)}
BY DEF Coherence, Quiet, Idle, L1Current, L2Current, L1Drops, L2Drops

\* The other calls of a call in progress are none.
LEMMA OthersIdle ==
  ASSUME Coherence, ~exposed, NEW r \in Requests, request[r] # Idle,
         NEW s \in Requests, s # r
  PROVE  request[s] = Idle
BY DEF Coherence, Alone

\* A step of the one call there is keeps Coherence if what it leaves wrong is still to
\* be dropped, and what it has read is in the table.
LEMMA OneStep ==
  ASSUME TypeOK, NEW r \in Requests, NEW next, Becomes(r, next), FreshIds',
         \A s \in Requests : s # r => request[s] = Idle,
         ReadIsCurrent(r)',
         \A i \in Ids : l1'[i] \in {Absent, rows'[i]} \/ L1Drops(r, i)',
         \A p \in Pages : l2'[p] \in {NoListing, PageOf(p)'} \/ L2Drops(r, p)'
  PROVE  Coherence'
<1>1. \A s \in Requests : s # r => request'[s] = Idle
  BY BecomesOnly DEF TypeOK
<1>2. Alone'
  BY <1>1 DEF Alone
<1>3. \A s \in Requests : ReadIsCurrent(s)'
  BY <1>1 DEF ReadIsCurrent, At
<1>4. QED
  BY <1>2, <1>3 DEF Coherence, L1Current, L2Current

\* A new call of a service that is not busy keeps Coherence.
LEMMA NewCall ==
  ASSUME TypeOK, Coherence, NEW r \in Requests, Call(r)
  PROVE  Coherence'
<1>t. request \in [Requests -> RequestStates] /\ rows \in [Ids -> Sneakers]
      /\ issued \in 0..MaxId
  BY DEF TypeOK
<1>f. FreshIds
  BY DEF Coherence
<1>1. ASSUME NEW i \in Ids, GetSneakerByID(r, i)
      PROVE  Coherence'
  <2>1. PICK result \in {"ok", "error"} :
          Becomes(r, [call |-> "get", id |-> i, sneaker |-> l1[i],
                      pc |-> IF result = "ok" /\ l1[i] # Absent THEN "reply" ELSE "load"])
    BY <1>1 DEF GetSneakerByID
  <2>2. FreshIds' /\ UNCHANGED <<rows, l1, l2>> /\ exposed' = (exposed \/ ~Quiet)
    BY <1>1, <1>f DEF GetSneakerByID, FreshIds, table, redis, Meets, Exposes
  <2>3. CASE exposed'
    BY <2>2, <2>3 DEF Coherence
  <2>4. CASE ~exposed'
    <3>1. /\ \A j \in Ids : l1[j] \in {Absent, rows[j]}
          /\ \A p \in Pages : l2[p] \in {NoListing, PageOf(p)}
      BY <2>2, <2>4, CalmIsCurrent
    <3>2. \A s \in Requests : request[s] = Idle
      BY <2>2, <2>4 DEF Quiet
    <3>3. request'[r] = [call |-> "get", id |-> i, sneaker |-> l1[i],
            pc |-> IF result = "ok" /\ l1[i] # Absent THEN "reply" ELSE "load"]
      BY <2>1, <1>t, BecomesOnly
    <3>4. ReadIsCurrent(r)'
      BY <2>2, <3>1, <3>3 DEF ReadIsCurrent, At
    <3>5. QED
      BY <2>1, <2>2, <3>1, <3>2, <3>4, OneStep, PageOfRows
  <2>5. QED
    BY <2>3, <2>4
<1>2. ASSUME NEW p \in Pages, GetAllSneakers(r, p)
      PROVE  Coherence'
  <2>1. PICK result \in {"ok", "error"} :
          Becomes(r, [call |-> "list", page |-> p, listing |-> l2[p],
                      pc |-> IF result = "ok" /\ l2[p] # NoListing THEN "reply"
                             ELSE "load"])
    BY <1>2 DEF GetAllSneakers
  <2>2. FreshIds' /\ UNCHANGED <<rows, l1, l2>> /\ exposed' = (exposed \/ ~Quiet)
    BY <1>2, <1>f DEF GetAllSneakers, FreshIds, table, redis, Meets, Exposes
  <2>3. CASE exposed'
    BY <2>2, <2>3 DEF Coherence
  <2>4. CASE ~exposed'
    <3>1. /\ \A j \in Ids : l1[j] \in {Absent, rows[j]}
          /\ \A q \in Pages : l2[q] \in {NoListing, PageOf(q)}
      BY <2>2, <2>4, CalmIsCurrent
    <3>2. \A s \in Requests : request[s] = Idle
      BY <2>2, <2>4 DEF Quiet
    <3>3. request'[r] = [call |-> "list", page |-> p, listing |-> l2[p],
            pc |-> IF result = "ok" /\ l2[p] # NoListing THEN "reply" ELSE "load"]
      BY <2>1, <1>t, BecomesOnly
    <3>4. PageOf(p)' = PageOf(p)
      BY <2>2, PageOfRows
    <3>5. ReadIsCurrent(r)'
      <4>1. ~At(r, "get", "set")' /\ ~At(r, "get", "reply")'
        BY <3>3 DEF At
      <4>2. At(r, "list", "set")' \/ At(r, "list", "reply")' => l2[p] # NoListing
        BY <3>3 DEF At
      <4>3. At(r, "list", "set")' \/ At(r, "list", "reply")' =>
              request'[r].listing = PageOf(p)'
        BY <3>1, <3>3, <3>4, <4>2
      <4>4. request'[r].page = p
        BY <3>3
      <4>5. PageOf(request[r].page)' = PageOf(p)'
        BY <4>4 DEF PageOf
      <4>6. QED
        BY <4>1, <4>3, <4>5 DEF ReadIsCurrent
    <3>6. QED
      BY <2>1, <2>2, <3>1, <3>2, <3>5, OneStep, PageOfRows
  <2>5. QED
    BY <2>3, <2>4
\* A change of row i, which the call then goes on to drop.
<1>3. ASSUME NEW call, NEW i \in Ids, NEW sneaker, NEW pc \in {"l1", "scan"},
             ChangeRow(r, call, i, sneaker, pc), FreshIds',
             pc = "l1" \/ (Quiet /\ ~exposed => l1[i] = Absent)
      PROVE  Coherence'
  <2>1. PICK result \in Results :
          /\ rows' = IF result = "error" THEN rows ELSE [rows EXCEPT ![i] = sneaker]
          /\ IF result # "ok" THEN Return(r)
             ELSE Becomes(r, [call |-> call, pc |-> pc, id |-> i, left |-> {}])
          /\ exposed' = (exposed \/ ~Quiet \/ result = "lost")
    BY <1>3 DEF ChangeRow, Exposes
  <2>2. UNCHANGED <<l1, l2>>
    BY <1>3 DEF ChangeRow, redis
  <2>3. CASE exposed'
    BY <1>3, <2>3 DEF Coherence
  <2>4. CASE ~exposed'
    <3>1. /\ \A j \in Ids : l1[j] \in {Absent, rows[j]}
          /\ \A q \in Pages : l2[q] \in {NoListing, PageOf(q)}
      BY <2>1, <2>4, CalmIsCurrent
    <3>2. \A s \in Requests : request[s] = Idle
      BY <2>1, <2>4 DEF Quiet
    <3>3. CASE result = "error"
      <4>1. rows' = rows /\ Becomes(r, Idle) /\ request'[r] = Idle
        BY <2>1, <3>3, <1>t, BecomesOnly DEF Return
      <4>2. ReadIsCurrent(r)'
        BY <4>1 DEF ReadIsCurrent, At
      <4>3. QED
        BY <1>3, <2>2, <3>1, <3>2, <4>1, <4>2, OneStep, PageOfRows
    <3>4. CASE result = "ok"
      <4> DEFINE next == [call |-> call, pc |-> pc, id |-> i, left |-> {}]
      <4>1. Becomes(r, next) /\ request'[r] = next
        BY <2>1, <3>4, <1>t, BecomesOnly
      <4>2. ReadIsCurrent(r)'
        BY <4>1 DEF ReadIsCurrent, At
      <4>3. \A q \in Pages : L2Drops(r, q)'
        BY <4>1 DEF L2Drops
      <4>4. \A j \in Ids : l1'[j] \in {Absent, rows'[j]} \/ L1Drops(r, j)'
        <5>1. ASSUME NEW j \in Ids, j # i PROVE l1'[j] \in {Absent, rows'[j]}
          BY <2>1, <2>2, <3>1, <3>4, <5>1, <1>t
        <5>2. l1'[i] = Absent \/ L1Drops(r, i)'
          <6>1. Quiet /\ ~exposed
            BY <2>1, <2>4
          <6>2. pc = "l1" \/ l1[i] = Absent
            BY <1>3, <6>1
          <6>3. L1Drops(r, i)' <=> pc = "l1"
            BY <4>1 DEF L1Drops
          <6>4. QED
            BY <2>2, <6>2, <6>3
        <5>3. QED
          BY <5>1, <5>2
      <4> HIDE DEF next
      <4>5. QED
        BY <1>3, <3>2, <4>1, <4>2, <4>3, <4>4, OneStep
    <3>5. QED
      BY <2>1, <2>4, <3>3, <3>4 DEF Results
  <2>5. QED
    BY <2>3, <2>4
<1>4. CASE AddSneaker(r)
  <2>1. issued + 1 \in Ids /\ issued' = issued + 1
    BY <1>4, <1>t, PageAssumption DEF AddSneaker, Ids
  <2>2. ChangeRow(r, "add", issued + 1, Blank, "scan")
    BY <1>4 DEF AddSneaker
  <2>3. rows[issued + 1] = Absent
    BY <2>1, <1>f, <1>t DEF FreshIds
  <2>4. FreshIds'
    BY <2>1, <2>2, <1>f, <1>t DEF FreshIds, ChangeRow, Ids
  <2>5. Quiet /\ ~exposed => l1[issued + 1] = Absent
    BY <2>1, <2>3, CalmIsCurrent
  <2>6. QED
    BY <2>1, <2>2, <2>4, <2>5, <1>3
<1>5. ASSUME NEW i \in Ids, DeleteSneaker(r, i)
      PROVE  Coherence'
  <2>1. FreshIds'
    BY <1>5, <1>f, <1>t DEF FreshIds, DeleteSneaker, ChangeRow
  <2>2. QED
    BY <2>1, <1>3, <1>5 DEF DeleteSneaker
<1>6. ASSUME NEW i \in Ids, NEW image \in Images, UpdateProductImage(r, i, image)
      PROVE  Coherence'
  <2>1. FreshIds'
    BY <1>6, <1>f, <1>t DEF FreshIds, UpdateProductImage, ChangeRow
  <2>2. QED
    BY <2>1, <1>3, <1>6 DEF UpdateProductImage
<1>7. QED
  BY <1>1, <1>2, <1>4, <1>5, <1>6 DEF Call

\* A step of a call in progress keeps Coherence.
LEMMA OldCall ==
  ASSUME TypeOK, Coherence, NEW r \in Requests, Step(r)
  PROVE  Coherence'
<1>t. request \in [Requests -> RequestStates] /\ rows \in [Ids -> Sneakers]
      /\ l1 \in [Ids -> Sneakers] /\ l2 \in [Pages -> Listings]
  BY DEF TypeOK
<1>1. request[r] # Idle
  <2>1. request[r] # Idle \/ request[r].pc \in {"reply", "l1", "scan", "l2"}
    BY DEF Step, LoadSneaker, SetSneaker, LoadPage, SetPage, Answer, DropSneaker,
           ScanPages, DropPage, FinishScan, At
  <2>2. QED
    BY <2>1 DEF Idle
<1>2. rows' = rows /\ issued' = issued /\ (exposed => exposed')
  <2>1. UNCHANGED table
    BY DEF Step, LoadSneaker, SetSneaker, LoadPage, SetPage, Answer, DropSneaker,
           ScanPages, DropPage, FinishScan
  <2>2. UNCHANGED exposed \/ \E wrong : Exposes(wrong)
    BY DEF Step, LoadSneaker, SetSneaker, LoadPage, SetPage, Answer, DropSneaker,
           ScanPages, DropPage, FinishScan
  <2>3. exposed => exposed'
    BY <2>2, Zenon DEF Exposes
  <2>4. QED
    BY <2>1, <2>3 DEF table
<1>3. FreshIds'
  BY <1>2 DEF Coherence, FreshIds
<1>4. CASE exposed'
  BY <1>3, <1>4 DEF Coherence
<1>5. CASE ~exposed'
  <2>1. ~exposed
    BY <1>2, <1>5
  <2>2. \A s \in Requests : s # r => request[s] = Idle
    BY <1>1, <2>1, OthersIdle
  <2>3. /\ \A i \in Ids : l1[i] \in {Absent, rows[i]} \/ L1Drops(r, i)
        /\ \A p \in Pages : l2[p] \in {NoListing, PageOf(p)} \/ L2Drops(r, p)
        /\ ReadIsCurrent(r)
    BY <2>1, <2>2 DEF Coherence, L1Current, L2Current, L1Drops, L2Drops, Idle
  <2>4. \A p : PageOf(p)' = PageOf(p)
    BY <1>2, PageOfRows
  \* A step of a call that drops nothing and leaves the caches alone.
  <2>5. ASSUME NEW next, Becomes(r, next), UNCHANGED redis,
               request[r].pc \notin {"l1", "scan", "l2"}, ReadIsCurrent(r)'
        PROVE  Coherence'
    <3>1. /\ \A i \in Ids : l1'[i] \in {Absent, rows'[i]}
          /\ \A p \in Pages : l2'[p] \in {NoListing, PageOf(p)'}
      BY <1>2, <2>3, <2>4, <2>5 DEF L1Drops, L2Drops, redis
    <3>2. QED
      BY <1>3, <2>2, <2>5, <3>1, OneStep
  \* A call that is over, or has nothing read.
  <2>6. ASSUME NEW next, Becomes(r, next), next = Idle \/ next.pc \notin {"set", "reply"}
        PROVE  ReadIsCurrent(r)'
    <3>1. request'[r] = next
      BY <2>6, <1>t, BecomesOnly
    <3>2. QED
      BY <2>6, <3>1 DEF ReadIsCurrent, At, Idle
  <2>7. CASE LoadSneaker(r)
    <3> DEFINE sneaker == rows[request[r].id]
               next == [request[r] EXCEPT !.sneaker = sneaker,
                          !.pc = IF sneaker = Absent THEN "reply" ELSE "set"]
    <3>1. request[r] \in GetRequest
      BY <2>7, Kinds DEF LoadSneaker, At
    <3>2. Return(r) \/ Becomes(r, next)
      BY <2>7 DEF LoadSneaker
    <3>3. UNCHANGED redis /\ request[r].pc \notin {"l1", "scan", "l2"}
      BY <2>7 DEF LoadSneaker, At
    <3>4. CASE Return(r)
      BY <2>5, <2>6, <3>3, <3>4 DEF Return
    <3>5. CASE Becomes(r, next)
      <4>1. request'[r] = next
        BY <3>5, <1>t, BecomesOnly
      <4>2. /\ next.call = "get"
            /\ next.sneaker = rows[next.id]
        BY <3>1 DEF GetRequest
      <4> HIDE DEF next
      <4>3. ReadIsCurrent(r)'
        BY <1>2, <4>1, <4>2 DEF ReadIsCurrent, At
      <4>4. QED
        BY <2>5, <3>3, <3>5, <4>3
    <3>6. QED
      BY <3>2, <3>4, <3>5
  <2>8. CASE SetSneaker(r)
    <3>1. request[r] \in GetRequest
      BY <2>8, Kinds DEF SetSneaker, At
    <3>2. /\ request[r].sneaker = rows[request[r].id]
          /\ request[r].pc = "set" /\ request[r].call = "get"
      BY <2>3, <2>8 DEF ReadIsCurrent, SetSneaker, At
    <3>3. PICK result \in Results :
            /\ l1' = IF result = "error" THEN l1
                     ELSE [l1 EXCEPT ![request[r].id] = request[r].sneaker]
      BY <2>8 DEF SetSneaker
    <3>4. l2' = l2 /\ Becomes(r, [request[r] EXCEPT !.pc = "reply"])
      BY <2>8 DEF SetSneaker, Goes
    <3>5. ReadIsCurrent(r)'
      <4>1. request'[r] = [request[r] EXCEPT !.pc = "reply"]
        BY <3>4, <1>t, BecomesOnly
      <4>2. request'[r].sneaker = rows[request'[r].id] /\ request'[r].call = "get"
        BY <3>1, <3>2, <4>1 DEF GetRequest
      <4>3. QED
        BY <1>2, <4>2 DEF ReadIsCurrent, At
    <3>6. \A i \in Ids : l1'[i] \in {Absent, rows'[i]}
      BY <1>2, <1>t, <2>3, <3>2, <3>3 DEF L1Drops
    <3>7. \A p \in Pages : l2'[p] \in {NoListing, PageOf(p)'}
      BY <2>3, <2>4, <3>2, <3>4 DEF L2Drops
    <3>8. QED
      BY <1>3, <2>2, <3>4, <3>5, <3>6, <3>7, OneStep
  <2>9. CASE LoadPage(r)
    <3> DEFINE listing == PageOf(request[r].page)
    <3>1. request[r] \in ListRequest
      BY <2>9, Kinds DEF LoadPage, At
    <3>2. PICK pc \in {"set", "reply"} :
            \/ Return(r)
            \/ Becomes(r, [request[r] EXCEPT !.listing = listing, !.pc = pc])
      BY <2>9 DEF LoadPage
    <3>3. UNCHANGED redis /\ request[r].pc \notin {"l1", "scan", "l2"}
      BY <2>9 DEF LoadPage, At
    <3>4. CASE Return(r)
      BY <2>5, <2>6, <3>3, <3>4 DEF Return
    <3>5. CASE Becomes(r, [request[r] EXCEPT !.listing = listing, !.pc = pc])
      <4> HIDE DEF listing
      <4>1. request'[r] = [request[r] EXCEPT !.listing = listing, !.pc = pc]
        BY <3>5, <1>t, BecomesOnly
      <4>2. /\ request'[r].call = "list"
            /\ request'[r].page = request[r].page
            /\ request'[r].listing = listing
        BY <3>1, <4>1 DEF ListRequest
      <4>3. PageOf(request[r].page)' = listing
        <5>1. PageOf(request[r].page)' = PageOf(request[r].page)
          BY <1>2, <4>2 DEF PageOf
        <5>2. QED
          BY <5>1 DEF listing
      <4>4. ReadIsCurrent(r)'
        BY <4>2, <4>3 DEF ReadIsCurrent, At
      <4>5. QED
        BY <2>5, <3>3, <3>5, <4>4
    <3>6. QED
      BY <3>2, <3>4, <3>5
  <2>10. CASE SetPage(r)
    <3>1. request[r] \in ListRequest
      BY <2>10, Kinds DEF SetPage, At
    <3>2. /\ request[r].listing = PageOf(request[r].page)
          /\ request[r].pc = "set" /\ request[r].call = "list"
      BY <2>3, <2>10 DEF ReadIsCurrent, SetPage, At
    <3>3. PICK result \in Results :
            /\ l2' = IF result = "error" THEN l2
                     ELSE [l2 EXCEPT ![request[r].page] = request[r].listing]
      BY <2>10 DEF SetPage
    <3>4. l1' = l1 /\ Becomes(r, [request[r] EXCEPT !.pc = "reply"])
      BY <2>10 DEF SetPage, Goes
    <3>5. ReadIsCurrent(r)'
      <4>1. request'[r] = [request[r] EXCEPT !.pc = "reply"]
        BY <3>4, <1>t, BecomesOnly
      <4>2. /\ request'[r].listing = request[r].listing
            /\ request'[r].page = request[r].page
            /\ request'[r].call = "list"
        BY <3>1, <3>2, <4>1 DEF ListRequest
      <4>3. PageOf(request[r].page)' = PageOf(request[r].page)
        BY <1>2, <4>2 DEF PageOf
      <4>4. QED
        BY <3>2, <4>2, <4>3 DEF ReadIsCurrent, At
    <3>6. \A i \in Ids : l1'[i] \in {Absent, rows'[i]}
      BY <1>2, <2>3, <3>2, <3>4 DEF L1Drops
    <3>7. \A p \in Pages : l2'[p] \in {NoListing, PageOf(p)'}
      <4>1. \A p \in Pages : l2[p] \in {NoListing, PageOf(p)}
        BY <2>3, <3>2 DEF L2Drops
      <4>2. \A p \in Pages : l2'[p] \in {NoListing, PageOf(p)}
        BY <4>1, <1>t, <3>2, <3>3
      <4>3. QED
        BY <2>4, <4>2
    <3>8. QED
      BY <1>3, <2>2, <3>4, <3>5, <3>6, <3>7, OneStep
  <2>11. CASE Answer(r)
    BY <2>5, <2>6, <2>11 DEF Answer, Return
  <2>12. CASE DropSneaker(r)
    <3>1. request[r] \in ChangeRequest /\ request[r].pc = "l1"
      BY <2>12, <1>1, Kinds DEF DropSneaker
    <3>2. l1' = [l1 EXCEPT ![request[r].id] = Absent] /\ l2' = l2
      BY <2>12, <1>5 DEF DropSneaker, Exposes
    <3>3. Becomes(r, [request[r] EXCEPT !.pc = "scan"])
      BY <2>12 DEF DropSneaker, Goes
    <3>4. request'[r].pc = "scan"
      <4>1. request'[r] = [request[r] EXCEPT !.pc = "scan"]
        BY <3>3, <1>t, BecomesOnly
      <4>2. QED
        BY <3>1, <4>1 DEF ChangeRequest
    <3>5. ReadIsCurrent(r)'
      BY <3>4 DEF ReadIsCurrent, At
    <3>6. \A i \in Ids : l1'[i] \in {Absent, rows'[i]}
      BY <1>2, <1>t, <2>3, <3>2 DEF L1Drops
    <3>7. \A p \in Pages : L2Drops(r, p)'
      BY <3>4 DEF L2Drops
    <3>8. QED
      BY <1>3, <2>2, <3>3, <3>5, <3>6, <3>7, OneStep
  <2>13. CASE ScanPages(r)
    <3>1. request[r] \in ChangeRequest /\ request[r].pc = "scan"
      BY <2>13, <1>1, Kinds DEF ScanPages
    <3>2. /\ UNCHANGED <<l1, l2>>
          /\ Becomes(r, [request[r] EXCEPT !.pc = "l2", !.left = CachedPages])
      BY <2>13 DEF ScanPages, redis
    <3>3. request'[r].pc = "l2" /\ request'[r].left = CachedPages
      <4>1. request'[r] = [request[r] EXCEPT !.pc = "l2", !.left = CachedPages]
        BY <3>2, <1>t, BecomesOnly
      <4>2. QED
        BY <3>1, <4>1 DEF ChangeRequest
    <3>4. ReadIsCurrent(r)'
      BY <3>3 DEF ReadIsCurrent, At
    <3>5. \A i \in Ids : l1'[i] \in {Absent, rows'[i]}
      BY <1>2, <2>3, <3>1, <3>2 DEF L1Drops
    <3>6. \A p \in Pages : l2'[p] = NoListing \/ L2Drops(r, p)'
      BY <3>2, <3>3 DEF L2Drops, CachedPages
    <3>7. QED
      BY <1>3, <2>2, <3>2, <3>4, <3>5, <3>6, OneStep
  <2>14. CASE DropPage(r)
    <3>1. request[r] \in ChangeRequest /\ request[r].pc = "l2"
      BY <2>14, <1>1, Kinds DEF DropPage
    <3>2. PICK p \in request[r].left \union CachedPages :
            /\ l2' = [l2 EXCEPT ![p] = NoListing]
            /\ Becomes(r, [request[r] EXCEPT !.left = request[r].left \ {p}])
      BY <2>14, <1>5 DEF DropPage, Exposes, Results
    <3>3. l1' = l1
      BY <2>14 DEF DropPage
    <3>4. request'[r].pc = "l2" /\ request'[r].left = request[r].left \ {p}
      <4>1. request'[r] = [request[r] EXCEPT !.left = request[r].left \ {p}]
        BY <3>2, <1>t, BecomesOnly
      <4>2. QED
        BY <3>1, <4>1 DEF ChangeRequest
    <3>5. ReadIsCurrent(r)'
      BY <3>4 DEF ReadIsCurrent, At
    <3>6. \A i \in Ids : l1'[i] \in {Absent, rows'[i]}
      BY <1>2, <2>3, <3>1, <3>3 DEF L1Drops
    <3>7. ASSUME NEW q \in Pages
          PROVE  l2'[q] \in {NoListing, PageOf(q)'} \/ L2Drops(r, q)'
      <4>1. CASE q = p
        BY <1>t, <3>2, <4>1
      <4>2. CASE q # p
        <5>1. l2'[q] = l2[q]
          BY <1>t, <3>2, <4>2
        <5>2. L2Drops(r, q) => L2Drops(r, q)'
          BY <3>1, <3>4, <4>2 DEF L2Drops
        <5>3. QED
          BY <2>3, <2>4, <5>1, <5>2
      <4>3. QED
        BY <4>1, <4>2
    <3>8. QED
      BY <1>3, <2>2, <3>2, <3>5, <3>6, <3>7, OneStep
  <2>15. CASE FinishScan(r)
    <3>1. request[r].pc = "l2" /\ request[r].left = {}
      BY <2>15 DEF FinishScan
    <3>2. UNCHANGED <<l1, l2>> /\ Becomes(r, Idle)
      BY <2>15 DEF FinishScan, redis, Return
    <3>3. ReadIsCurrent(r)'
      BY <2>6, <3>2
    <3>4. /\ \A i \in Ids : l1'[i] \in {Absent, rows'[i]}
          /\ \A p \in Pages : l2'[p] \in {NoListing, PageOf(p)'}
      BY <1>2, <2>3, <2>4, <3>1, <3>2 DEF L1Drops, L2Drops
    <3>5. QED
      BY <1>3, <2>2, <3>2, <3>3, <3>4, OneStep
  <2>16. QED
    BY <2>7, <2>8, <2>9, <2>10, <2>11, <2>12, <2>13, <2>14, <2>15 DEF Step
<1>6. QED
  BY <1>4, <1>5

\* Expiry makes nothing wrong.
LEMMA ExpiryKeepsCoherence ==
  ASSUME TypeOK, Coherence, Expires
  PROVE  Coherence'
<1>1. UNCHANGED <<table, exposed, request>>
  BY DEF Expires, SneakerExpires, PageExpires
<1>2. /\ \A i \in Ids : l1'[i] \in {Absent, l1[i]}
      /\ \A p \in Pages : l2'[p] \in {NoListing, l2[p]}
  BY DEF Expires, SneakerExpires, PageExpires, TypeOK
<1>3. \A p : PageOf(p)' = PageOf(p)
  BY <1>1 DEF PageOf, table
<1>4. /\ FreshIds' = FreshIds /\ Alone' = Alone
      /\ \A r \in Requests : ReadIsCurrent(r) => ReadIsCurrent(r)'
  <2>1. ASSUME NEW r \in Requests, ReadIsCurrent(r)
        PROVE  ReadIsCurrent(r)'
    <3>1. PageOf(request[r].page)' = PageOf(request[r].page)
      BY <1>1 DEF PageOf, table
    <3>2. QED
      BY <1>1, <2>1, <3>1 DEF ReadIsCurrent, At, table
  <2>2. QED
    BY <1>1, <2>1 DEF FreshIds, Alone, table
<1>5. ASSUME L1Current, L2Current
      PROVE  L1Current' /\ L2Current'
  <2>1. L1Current'
    BY <1>1, <1>2, <1>5 DEF L1Current, L1Drops, table
  <2>2. L2Current'
    BY <1>1, <1>2, <1>3, <1>5 DEF L2Current, L2Drops
  <2>3. QED
    BY <2>1, <2>2
<1>6. QED
  BY <1>1, <1>4, <1>5 DEF Coherence

\* A step that changes nothing keeps Coherence.
LEMMA StutterKeepsCoherence ==
  ASSUME Coherence, UNCHANGED vars
  PROVE  Coherence'
<1>1. \A p : PageOf(p)' = PageOf(p)
  BY DEF PageOf, vars, table
<1>2. \A r \in Requests : PageOf(request[r].page)' = PageOf(request[r].page)
  BY DEF PageOf, vars, table
<1>3. QED
  BY <1>1, <1>2 DEF Coherence, FreshIds, Alone, L1Current, L2Current, L1Drops, L2Drops,
                    ReadIsCurrent, At, vars, table, redis

\* As long as calls come one after the other and what changed can be dropped, both
\* levels of the cache answer what the table holds (GetSneakerByID and GetAllSneakers
\* of app/product.go), for any pages, any errors and any expiry.
THEOREM AnswersCurrent == Spec => []AnswersAreCurrent
<1>1. Init => Coherence
  <2>1. ASSUME Init PROVE \A r \in Requests : request[r] = Idle
    BY <2>1 DEF Init
  <2>2. ASSUME Init
        PROVE  FreshIds /\ Alone /\ L1Current /\ L2Current
    BY <2>1, <2>2 DEF Init, FreshIds, Alone, L1Current, L2Current
  <2>3. ASSUME Init PROVE \A r \in Requests : ReadIsCurrent(r)
    BY <2>1, <2>3 DEF ReadIsCurrent, At
  <2>4. QED
    BY <2>2, <2>3 DEF Coherence
<1>2. TypeOK /\ Coherence /\ [Next]_vars => Coherence'
  BY NewCall, OldCall, ExpiryKeepsCoherence, StutterKeepsCoherence DEF Next
<1>3. Coherence => AnswersAreCurrent
  BY DEF Coherence, AnswersAreCurrent, ReadIsCurrent
<1>4. QED
  BY <1>1, <1>2, <1>3, TypeCorrect, PTL DEF Spec
=============================================================================
