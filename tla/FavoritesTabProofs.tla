-------------------------- MODULE FavoritesTabProofs --------------------------
(***************************************************************************)
(* Theorems about FavoritesTab, for any number of users, sneakers, clicks, *)
(* overlapping requests, tries and faults: types, whose favourites a tab   *)
(* shows, and whether they are what the table holds.                       *)
(***************************************************************************)
EXTENDS FavoritesTab, TLAPS

Active(r) == request[r] # Idle

-----------------------------------------------------------------------------
(* The invariants.                                                         *)

\* A request that comes to a change has that change to make.
SendsChanges ==
  /\ \A r \in Requests : request[r].pc = "write" => request[r].send \in Changes
  /\ \A q \in late : q.send \in Changes

\* Neither the table nor Redis has favourites that the user never had, and while
\* somebody is logged in all that the page shows and awaits is that user's.
OwnInv ==
  /\ \A u \in Users : rows[u] \subseteq had[u] /\ cached[u] \subseteq had[u] \union {Sentinel}
  /\ \A r \in Requests : Active(r) => request[r].ids \subseteq had[request[r].user]
  /\ token # NoToken =>
       /\ favoriteIds \union favorites \subseteq had[token]
       /\ \A r \in Requests : Active(r) => request[r].user = token

\* A set in Redis that is not exposed is what the table holds.
CopyInv == \A u \in Users \ exposed : cached[u] \in {{}, Members(rows[u])}

\* The page shows an error, or the favourites.
ShowsRows ==
  error \/ (favoriteIds = rows[token] /\ favorites = favoriteIds \intersect Catalogue)

\* The answers that q has had are still true, and the hearts follow them.
TrueAnswers(q) ==
  /\ q.pc = "loaded" => q.result # "silent" /\ (q.result = "ok" => q.ids = rows[token])
  /\ q.pc = "lookup" => q.ids = rows[token] /\ favoriteIds = q.ids

\* A tab that has missed no change has one request at work at most, with answers
\* that are still true.
PageInv ==
  token # NoToken /\ ~met =>
    /\ \A r, s \in Requests : Active(r) /\ Active(s) => r = s
    /\ \A r \in Requests : Active(r) => TrueAnswers(request[r])
    /\ Quiet => ShowsRows

-----------------------------------------------------------------------------
(* What the service does, and how requests go on.                          *)

\* Idle is no request.
LEMMA IdleIsApart == Idle \notin RequestRecords
BY DEF Idle, RequestRecords

\* A change keeps the types, and nobody has favourites that the user never had.
LEMMA ServeGrows ==
  ASSUME TypeOK, OwnInv, NEW c \in Changes, Serve(c) \/ UNCHANGED service
  PROVE  /\ rows' \in [Users -> SUBSET Sneakers]
         /\ had' \in [Users -> SUBSET Sneakers]
         /\ \A u \in Users : rows'[u] \subseteq had'[u] /\ had[u] \subseteq had'[u]
<1>1. c.user \in Users /\ c.sneaker \in Sneakers
  BY DEF Changes
<1>2. rows \in [Users -> SUBSET Sneakers] /\ had \in [Users -> SUBSET Sneakers]
  BY DEF TypeOK
<1>3. \A u \in Users : rows[u] \subseteq had[u]
  BY DEF OwnInv
<1>4. CASE AddFavourite(c)
  BY <1>1, <1>2, <1>3, <1>4 DEF AddFavourite
<1>5. CASE RemoveFavourite(c)
  BY <1>1, <1>2, <1>3, <1>5 DEF RemoveFavourite
<1>6. CASE UNCHANGED service
  BY <1>2, <1>3, <1>6 DEF service
<1>7. QED
  BY <1>4, <1>5, <1>6 DEF Serve

\* A step that changes neither the rows nor their history.
LEMMA RowsStay ==
  ASSUME OwnInv, UNCHANGED service
  PROVE  \A u \in Users : /\ rows'[u] \subseteq had'[u] /\ had[u] \subseteq had'[u]
                          /\ rows'[u] = rows[u] /\ had'[u] = had[u]
                          /\ UNCHANGED redis => cached'[u] \subseteq had'[u] \union {Sentinel}
BY DEF redis, OwnInv, service

\* What a call may do to the sets in Redis.
CopyMoves == UNCHANGED redis \/ \E u \in Users : SetFavourites(u) \/ LeavesCopy(u)

\* The sets keep their types, and get favourites of their user only.
LEMMA CopyTypes ==
  ASSUME TypeOK, OwnInv, CopyMoves, rows' \in [Users -> SUBSET Sneakers],
         \A u \in Users : rows'[u] \subseteq had'[u] /\ had[u] \subseteq had'[u]
  PROVE  /\ cached' \in [Users -> SUBSET (Sneakers \union {Sentinel})]
         /\ exposed' \subseteq Users
         /\ \A u \in Users : cached'[u] \subseteq had'[u] \union {Sentinel}
<1>1. /\ cached \in [Users -> SUBSET (Sneakers \union {Sentinel})] /\ exposed \subseteq Users
      /\ \A u \in Users : cached[u] \subseteq had'[u] \union {Sentinel}
  BY DEF TypeOK, OwnInv
<1>2. CASE UNCHANGED redis
  BY <1>1, <1>2 DEF redis
<1>3. ASSUME NEW u \in Users, SetFavourites(u) \/ LeavesCopy(u)
      PROVE  /\ cached' \in [Users -> SUBSET (Sneakers \union {Sentinel})]
             /\ exposed' \subseteq Users
             /\ \A v \in Users : cached'[v] \subseteq had'[v] \union {Sentinel}
  <2>1. /\ Members(rows'[u]) \subseteq Sneakers \union {Sentinel}
        /\ Members(rows'[u]) \subseteq had'[u] \union {Sentinel}
    BY DEF Members
  <2>2. PICK copy : cached' = [cached EXCEPT ![u] = copy]
                    /\ copy \in {cached[u], {}, Members(rows'[u]), cached[u] \union Members(rows'[u])}
    BY <1>3 DEF SetFavourites, LeavesCopy
  <2>3. copy \subseteq Sneakers \union {Sentinel} /\ copy \subseteq had'[u] \union {Sentinel}
    BY <1>1, <2>1, <2>2
  <2>4. exposed' \subseteq Users
    BY <1>1, <1>3 DEF SetFavourites, LeavesCopy
  <2>5. QED
    BY <1>1, <2>2, <2>3, <2>4
<1>4. QED
  BY <1>2, <1>3 DEF CopyMoves

\* A set that is set is what the table holds then, and one that is left is exposed.
LEMMA CopyStays ==
  ASSUME TypeOK, CopyInv, NEW u \in Users, SetFavourites(u) \/ LeavesCopy(u),
         \A v \in Users \ {u} : rows'[v] = rows[v]
  PROVE  CopyInv'
<1>1. \A v \in Users \ {u} : cached'[v] = cached[v] /\ (v \in exposed' <=> v \in exposed)
  BY DEF SetFavourites, LeavesCopy, TypeOK
<1>2. u \in exposed' \/ cached'[u] = Members(rows'[u])
  BY DEF SetFavourites, LeavesCopy, TypeOK
<1>3. ASSUME NEW v \in Users, v \notin exposed'
      PROVE  cached'[v] \in {{}, Members(rows'[v])}
  BY <1>1, <1>2, <1>3 DEF CopyInv
<1>4. QED
  BY <1>3 DEF CopyInv, Members

\* A change that is served.
LEMMA ServesCases ==
  ASSUME TypeOK, NEW c \in Changes, NEW undisturbed, Serves(c, undisturbed)
  PROVE  Serve(c) /\ CopyMoves /\ (CopyInv => CopyInv')
<1>1. c.user \in Users
  BY DEF Changes
<1>2. Serve(c) /\ CopyMoves
  BY <1>1 DEF Serves, CopyMoves
<1>3. \A v \in Users \ {c.user} : rows'[v] = rows[v]
  BY <1>2 DEF Serve, AddFavourite, RemoveFavourite, TypeOK
<1>4. CASE rows' = rows /\ UNCHANGED redis
  BY <1>2, <1>4 DEF CopyInv, Members, redis
<1>5. CASE SetFavourites(c.user) \/ LeavesCopy(c.user)
  BY <1>1, <1>2, <1>3, <1>5, CopyStays
<1>6. QED
  BY <1>2, <1>4, <1>5 DEF Serves

\* A change keeps the types of the table and of Redis, and gives nobody favourites
\* that the user never had.
LEMMA ServedTypes ==
  ASSUME TypeOK, OwnInv, NEW c \in Changes,
         (\E undisturbed : Serves(c, undisturbed)) \/ UNCHANGED <<service, redis>>
  PROVE  /\ rows' \in [Users -> SUBSET Sneakers] /\ had' \in [Users -> SUBSET Sneakers]
         /\ cached' \in [Users -> SUBSET (Sneakers \union {Sentinel})] /\ exposed' \subseteq Users
         /\ \A u \in Users : /\ rows'[u] \subseteq had'[u] /\ had[u] \subseteq had'[u]
                             /\ cached'[u] \subseteq had'[u] \union {Sentinel}
<1>1. (Serve(c) \/ UNCHANGED service) /\ CopyMoves
  BY ServesCases DEF CopyMoves
<1>2. QED
  BY <1>1, ServeGrows, CopyTypes

\* A fault is counted up to its bound.
LEMMA FaultCounts ==
  ASSUME TypeOK, NEW step, NEW result,
         Fault \/ UNCHANGED faults \/ Ends(step, result)
  PROVE  faults' \in 0..MaxFaults
BY FaultAssumption DEF TypeOK, Fault, Ends

\* A change is answered, has failed for good, or is tried again; it was done or not,
\* and what was given up may be done later.
LEMMA ChangeCases ==
  ASSUME TypeOK, NEW r \in Requests, Change(r)
  PROVE  /\ request[r].pc = "write"
         /\ UNCHANGED <<token, page, met, calls>>
         /\ \/ \E undisturbed : Serves(request[r].send, undisturbed)
            \/ UNCHANGED <<service, redis>>
         /\ UNCHANGED late \/ late' = late \union {request[r]}
         /\ faults' \in 0..MaxFaults
         /\ \/ Ended(r, "written", "ok")
            \/ Ended(r, "written", "error")
            \/ TriesAgain(r) /\ Becomes(r, [request[r] EXCEPT !.tries = @ + 1])
<1>1. request[r].pc = "write" /\ UNCHANGED <<token, page, met, calls>>
  BY DEF Change
<1>2. CASE Refuses(request[r].send)
  BY <1>1, <1>2, FaultCounts DEF Change
<1>3. CASE ~Refuses(request[r].send)
  <2> DEFINE Served == Serves(request[r].send, Alone(r) /\ faults' = faults)
             Left == UNCHANGED <<service, redis>>
  <2>1. Try(r, "write", Served, Left,
            LAMBDA result : Ended(r, "written", result))
    BY <1>3 DEF Change
  <2>2. CASE \E result \in Results :
               /\ Ends("write", result)
               /\ IF result = "error" THEN Left ELSE Served
               /\ Ended(r, "written", IF result = "ok" THEN "ok" ELSE "error")
               /\ UNCHANGED late
    BY <1>1, <2>2, FaultCounts
  <2>3. CASE /\ GivesUp(r, "write", Served, Left)
             /\ IF TriesAgain(r) THEN Becomes(r, [request[r] EXCEPT !.tries = @ + 1])
                ELSE Ended(r, "written", "error")
    BY <1>1, <2>3, FaultCounts DEF GivesUp
  <2>4. QED
    BY <2>1, <2>2, <2>3 DEF Try
<1>4. QED
  BY <1>2, <1>3

-----------------------------------------------------------------------------
(* Type correctness.                                                       *)

\* A new request is one of the records.
LEMMA NewTypes ==
  ASSUME NEW op \in Operations, NEW u \in Users, NEW pc \in {"write", "load"},
         NEW send \in {Idle} \union Changes
  PROVE  NewRequest(op, u, pc, send) \in RequestRecords
<1>1. 1 \in 1..Tries
  BY TriesAssumption
<1>2. QED
  BY <1>1 DEF NewRequest, RequestRecords

\* A request that goes on stays one of the records.
LEMMA GoesOnTypes ==
  ASSUME NEW q \in RequestRecords,
         NEW pc \in {"write", "written", "load", "loaded", "lookup"},
         NEW result \in {"ok", "error", "silent"}, NEW ids \in SUBSET Sneakers
  PROVE  /\ [q EXCEPT !.pc = pc, !.result = result] \in RequestRecords
         /\ [q EXCEPT !.pc = pc, !.result = result, !.ids = ids] \in RequestRecords
         /\ q.tries < Tries => [q EXCEPT !.tries = @ + 1] \in RequestRecords
<1>1. q.tries < Tries => q.tries + 1 \in 1..Tries
  BY TriesAssumption DEF RequestRecords
<1>2. QED
  BY <1>1 DEF RequestRecords

\* What a step must show for the types to be kept if one request goes on.
LEMMA StepTypes ==
  ASSUME TypeOK, SendsChanges, NEW r \in Requests,
         NEW next \in {Idle} \union RequestRecords, Becomes(r, next),
         next.pc = "write" => next.send \in Changes
  PROVE  /\ request' \in [Requests -> {Idle} \union RequestRecords]
         /\ \A s \in Requests : request'[s].pc = "write" => request'[s].send \in Changes
BY DEF TypeOK, SendsChanges, Becomes

\* A request at work, and its fields.
LEMMA AtWork ==
  ASSUME TypeOK, NEW r \in Requests, Active(r)
  PROVE  /\ request[r] \in RequestRecords
         /\ request[r].user \in Users
         /\ request[r].ids \subseteq Sneakers
BY DEF TypeOK, Active, RequestRecords

\* A request that comes to some step is at work.
LEMMA Working ==
  ASSUME NEW r \in Requests, request[r].pc # "idle"
  PROVE  Active(r)
BY DEF Active, Idle

Good == TypeOK /\ SendsChanges

\* Each step keeps the types, and changes are what is sent.
LEMMA LoadTypes ==
  ASSUME Good, NEW u \in Users, Load(u)
  PROVE  Good'
<1>0. PICK first :
        request' = [r \in Requests |->
                      IF r = first THEN NewRequest("load", u, "load", Idle) ELSE Idle]
  BY DEF Load
<1>1. PICK sent \in SUBSET {r \in Requests : request[r].pc = "write"} :
        late' = late \union {request[r] : r \in sent}
  BY DEF Load
<1>2. "load" \in Operations
  BY DEF Operations
<1>3. NewRequest("load", u, "load", Idle) \in RequestRecords
  BY <1>2, NewTypes
<1>4. /\ request' \in [Requests -> {Idle} \union RequestRecords]
      /\ \A s \in Requests : request'[s].pc # "write"
  BY <1>0, <1>3 DEF NewRequest, Idle
<1>5. \A r \in sent : request[r] \in RequestRecords /\ request[r].send \in Changes
  BY Working, AtWork DEF Good, SendsChanges
<1>6. late' \subseteq RequestRecords /\ \A q \in late' : q.send \in Changes
  BY <1>1, <1>5 DEF Good, TypeOK, SendsChanges
<1>7. calls' \in 0..MaxCalls
  BY CallAssumption DEF Load, Good, TypeOK
<1>8. QED
  BY <1>4, <1>6, <1>7 DEF Good, TypeOK, SendsChanges, Load, StartsLoading, service, redis

LEMMA ToggleTypes ==
  ASSUME Good, NEW r \in Requests, NEW s \in Sneakers, Toggle(r, s)
  PROVE  Good'
<1>1. PICK send \in Changes : Becomes(r, NewRequest("toggle", token, "write", send))
  <2>1. token \in Users
    BY DEF Toggle, Good, TypeOK
  <2>2. /\ AddToFavourites(token, s) \in Changes
        /\ RemoveFromFavourites(token, s) \in Changes
    BY <2>1 DEF AddToFavourites, RemoveFromFavourites, Changes
  <2>3. QED
    BY <2>2 DEF Toggle
<1>2. NewRequest("toggle", token, "write", send) \in RequestRecords
  <2>1. token \in Users /\ "toggle" \in Operations
    BY DEF Toggle, Good, TypeOK, Operations
  <2>2. QED
    BY <2>1, NewTypes
<1>3. NewRequest("toggle", token, "write", send).send = send
  BY DEF NewRequest
<1>4. /\ request' \in [Requests -> {Idle} \union RequestRecords]
      /\ \A t \in Requests : request'[t].pc = "write" => request'[t].send \in Changes
  BY <1>1, <1>2, <1>3, StepTypes DEF Good
<1>5. calls' \in 0..MaxCalls
  BY CallAssumption DEF Toggle, Starts, Good, TypeOK
<1>6. met' \in BOOLEAN
  BY DEF Toggle
<1>7. QED
  BY <1>4, <1>5, <1>6 DEF Good, TypeOK, SendsChanges, Toggle, StartsLoading, service, redis

LEMMA ChangeTypes ==
  ASSUME Good, OwnInv, NEW r \in Requests, Change(r)
  PROVE  Good'
<1>1. /\ request[r] \in RequestRecords /\ request[r].send \in Changes
      /\ request[r].pc = "write"
  BY ChangeCases, Working, AtWork DEF Good, SendsChanges
<1>2. PICK next : /\ Becomes(r, next)
                  /\ \/ next = [request[r] EXCEPT !.pc = "written", !.result = "ok"]
                     \/ next = [request[r] EXCEPT !.pc = "written", !.result = "error"]
                     \/ TriesAgain(r) /\ next = [request[r] EXCEPT !.tries = @ + 1]
  BY ChangeCases DEF Good, Ended
<1>3. next \in RequestRecords /\ next.send \in Changes
  <2>1. next \in RequestRecords
    BY <1>1, <1>2, GoesOnTypes DEF TriesAgain
  <2>2. next.send = request[r].send
    BY <1>1, <1>2 DEF RequestRecords
  <2>3. QED
    BY <1>1, <2>1, <2>2
<1>4. /\ request' \in [Requests -> {Idle} \union RequestRecords]
      /\ \A t \in Requests : request'[t].pc = "write" => request'[t].send \in Changes
  BY <1>2, <1>3, StepTypes DEF Good
<1>5. /\ late' \subseteq RequestRecords /\ \A q \in late' : q.send \in Changes
      /\ faults' \in 0..MaxFaults
  BY <1>1, ChangeCases DEF Good, TypeOK, SendsChanges
<1>6. /\ rows' \in [Users -> SUBSET Sneakers] /\ had' \in [Users -> SUBSET Sneakers]
      /\ cached' \in [Users -> SUBSET (Sneakers \union {Sentinel})] /\ exposed' \subseteq Users
  BY <1>1, ChangeCases, ServedTypes DEF Good
<1>7. UNCHANGED <<token, page, met, calls>>
  BY ChangeCases DEF Good
<1>8. QED
  BY <1>4, <1>5, <1>6, <1>7 DEF Good, TypeOK, SendsChanges, page

LEMMA LateTypes ==
  ASSUME Good, OwnInv, NEW q \in late, ChangeLate(q)
  PROVE  Good'
<1>1. q.send \in Changes /\ (Serves(q.send, FALSE) \/ UNCHANGED <<service, redis>>)
  BY DEF Good, SendsChanges, ChangeLate
<1>2. /\ rows' \in [Users -> SUBSET Sneakers] /\ had' \in [Users -> SUBSET Sneakers]
      /\ cached' \in [Users -> SUBSET (Sneakers \union {Sentinel})] /\ exposed' \subseteq Users
  BY <1>1, ServedTypes DEF Good
<1>3. QED
  BY <1>2 DEF Good, TypeOK, SendsChanges, ChangeLate, page

\* What a step of the page must show for the types to be kept.
LEMMA PageTypes ==
  ASSUME Good, NEW r \in Requests, NEW next \in {Idle} \union RequestRecords,
         Becomes(r, next), next.pc # "write", UNCHANGED <<service, token, calls, late>>,
         CopyMoves, OwnInv,
         faults' \in 0..MaxFaults, met' \in BOOLEAN, loading' \in BOOLEAN,
         error' \in BOOLEAN, favoriteIds' \subseteq Sneakers, favorites' \subseteq Sneakers
  PROVE  Good'
<1>1. /\ request' \in [Requests -> {Idle} \union RequestRecords]
      /\ \A t \in Requests : request'[t].pc = "write" => request'[t].send \in Changes
  BY StepTypes DEF Good
<1>2. cached' \in [Users -> SUBSET (Sneakers \union {Sentinel})] /\ exposed' \subseteq Users
  BY RowsStay, CopyTypes DEF Good, TypeOK, service
<1>3. QED
  BY <1>1, <1>2 DEF Good, TypeOK, SendsChanges, service

\* The ids that are answered are favourites that the user has had, and the rows where
\* the set is not exposed by then.
LEMMA AnswerCases ==
  ASSUME TypeOK, OwnInv, NEW r \in Requests, Active(r), GetAllFavourites(r)
  PROVE  \E next :
           /\ Becomes(r, next) /\ CopyMoves
           /\ \/ \E ids \in SUBSET had[request[r].user] :
                   /\ next = [request[r] EXCEPT !.pc = "loaded", !.result = "ok", !.ids = ids]
                   /\ CopyInv /\ ~met' => ids = rows[request[r].user]
              \/ /\ next = [request[r] EXCEPT !.pc = "loaded", !.result = "error"]
                 /\ met' = met
              \/ /\ next = [request[r] EXCEPT !.pc = "loaded", !.result = "silent"]
                 /\ met' = TRUE
<1> DEFINE u == request[r].user
<1>1. u \in Users /\ rows[u] \subseteq Sneakers
  BY AtWork DEF TypeOK
<1>2. UNCHANGED service
  BY DEF GetAllFavourites
<1>3. CASE /\ cached[u] # {} /\ UNCHANGED redis /\ Answered(r, Favourites(cached[u]))
           /\ met' = ((met /\ ~Alone(r)) \/ u \in exposed')
  <2>1. Favourites(cached[u]) \in SUBSET had[u]
    BY <1>1 DEF Favourites, OwnInv
  <2>2. CopyInv /\ ~met' => Favourites(cached[u]) = rows[u]
    BY <1>1, <1>3, SneakerAssumption DEF CopyInv, Favourites, Members, redis
  <2>3. QED
    BY <1>3, <2>1, <2>2 DEF Answered, CopyMoves
<1>4. CASE /\ Alone(r) /\ SetFavourites(u) /\ Answered(r, rows[u])
           /\ met' = ((met /\ ~Alone(r)) \/ u \in exposed')
  BY <1>1, <1>4 DEF Answered, CopyMoves, OwnInv
<1>5. CASE /\ LeavesCopy(u)
           /\ \E ids \in {rows[u], Favourites(cached'[u])} : Answered(r, ids)
           /\ met' = TRUE
  <2>1. CopyMoves
    BY <1>1, <1>5 DEF CopyMoves
  <2>2. cached'[u] \subseteq had[u] \union {Sentinel}
    BY <1>1, <1>2, <2>1, RowsStay, CopyTypes DEF service, TypeOK
  <2>3. \A ids \in {rows[u], Favourites(cached'[u])} : ids \in SUBSET had[u]
    BY <1>1, <2>2 DEF Favourites, OwnInv
  <2>4. QED
    BY <1>5, <2>1, <2>3 DEF Answered
<1>6. CASE /\ UNCHANGED redis \/ LeavesCopy(u)
           /\ \/ Ended(r, "loaded", "error") /\ UNCHANGED met
              \/ Ended(r, "loaded", "silent") /\ met' = TRUE
  BY <1>1, <1>6 DEF Ended, CopyMoves
<1>7. QED
  BY <1>3, <1>4, <1>5, <1>6 DEF GetAllFavourites

LEMMA AnswerTypes ==
  ASSUME Good, OwnInv, NEW r \in Requests,
         GetAllFavourites(r) \/ ToggleAnswered(r) \/ ShowIds(r) \/ ShowDetails(r)
  PROVE  Good'
<1>1. /\ request[r] \in RequestRecords
      /\ request[r].call \in Operations
      /\ request[r].user \in Users
      /\ request[r].ids \in SUBSET Sneakers
  BY Working, AtWork
  DEF Good, GetAllFavourites, ToggleAnswered, ShowIds, ShowDetails, RequestRecords
<1>2. Idle.pc # "write"
  BY DEF Idle
<1>3. CASE GetAllFavourites(r)
  <2>1. had[request[r].user] \subseteq Sneakers
    BY <1>1 DEF Good, TypeOK
  <2>2. PICK next :
          /\ \/ \E ids \in SUBSET had[request[r].user] :
                  next = [request[r] EXCEPT !.pc = "loaded", !.result = "ok", !.ids = ids]
             \/ next = [request[r] EXCEPT !.pc = "loaded", !.result = "error"]
             \/ next = [request[r] EXCEPT !.pc = "loaded", !.result = "silent"]
          /\ Becomes(r, next) /\ CopyMoves
    BY <1>3, Working, AnswerCases DEF Good, GetAllFavourites
  <2>3. next \in RequestRecords
    <3>1. /\ [request[r] EXCEPT !.pc = "loaded", !.result = "error"] \in RequestRecords
          /\ [request[r] EXCEPT !.pc = "loaded", !.result = "silent"] \in RequestRecords
      BY <1>1, GoesOnTypes
    <3>2. \A ids \in SUBSET Sneakers :
            [request[r] EXCEPT !.pc = "loaded", !.result = "ok", !.ids = ids] \in RequestRecords
      BY <1>1, GoesOnTypes
    <3>3. QED
      BY <2>1, <2>2, <3>1, <3>2
  <2>4. next.pc # "write"
    BY <1>1, <2>2 DEF RequestRecords
  <2>5. faults' \in 0..MaxFaults
    BY <1>3, FaultCounts DEF GetAllFavourites, Good
  <2>6. met' \in BOOLEAN
    BY <1>3 DEF GetAllFavourites, Good, TypeOK
  <2>7. QED
    BY <1>3, <2>2, <2>3, <2>4, <2>5, <2>6, PageTypes
    DEF GetAllFavourites, Good, TypeOK, page
<1>4. CASE ToggleAnswered(r)
  <2>1. PICK next \in {Idle} \union RequestRecords : Becomes(r, next) /\ next.pc # "write"
    <3>1. CASE Return(r)
      BY <3>1, <1>2 DEF Return
    <3>2. CASE /\ token # NoToken
               /\ Becomes(r, NewRequest(request[r].call, token, "load", Idle))
      <4>1. token \in Users
        BY <3>2 DEF Good, TypeOK
      <4>2. NewRequest(request[r].call, token, "load", Idle) \in RequestRecords
        BY <1>1, <4>1, NewTypes
      <4>3. NewRequest(request[r].call, token, "load", Idle).pc = "load"
        BY DEF NewRequest
      <4>4. QED
        BY <3>2, <4>2, <4>3
    <3>3. QED
      BY <1>4, <3>1, <3>2 DEF ToggleAnswered, FetchIds
  <2>2. /\ loading' \in BOOLEAN /\ error' \in BOOLEAN
        /\ favoriteIds' \subseteq Sneakers /\ favorites' \subseteq Sneakers
    BY <1>4 DEF ToggleAnswered, FetchIds, StartsLoading, Good, TypeOK
  <2>3. QED
    BY <1>4, <2>1, <2>2, PageTypes DEF ToggleAnswered, CopyMoves, redis, Good, TypeOK
<1>5. CASE ShowIds(r)
  <2>1. PICK next \in {Idle} \union RequestRecords : Becomes(r, next) /\ next.pc # "write"
    <3>1. CASE Return(r)
      BY <3>1, <1>2 DEF Return
    <3>2. CASE Ended(r, "lookup", "ok")
      <4>1. [request[r] EXCEPT !.pc = "lookup", !.result = "ok"] \in RequestRecords
        BY <1>1, GoesOnTypes
      <4>2. [request[r] EXCEPT !.pc = "lookup", !.result = "ok"].pc = "lookup"
        BY <1>1 DEF RequestRecords
      <4>3. QED
        BY <3>2, <4>1, <4>2 DEF Ended
    <3>3. QED
      BY <1>5, <3>1, <3>2 DEF ShowIds
  <2>2. /\ loading' \in BOOLEAN /\ error' \in BOOLEAN
        /\ favoriteIds' \subseteq Sneakers /\ favorites' \subseteq Sneakers
    BY <1>1, <1>5 DEF ShowIds, StartsLoading, Good, TypeOK
  <2>3. QED
    BY <1>5, <2>1, <2>2, PageTypes DEF ShowIds, CopyMoves, redis, Good, TypeOK
<1>6. CASE ShowDetails(r)
  <2>1. Becomes(r, Idle)
    BY <1>6 DEF ShowDetails, Return
  <2>2. faults' \in 0..MaxFaults
    BY <1>6, FaultCounts DEF ShowDetails, Good
  <2>3. loading' \in BOOLEAN /\ error' \in BOOLEAN /\ favorites' \subseteq Sneakers
    BY <1>1, <1>6 DEF ShowDetails, GetSneakersByIDs, Good, TypeOK
  <2>4. QED
    BY <1>2, <1>6, <2>1, <2>2, <2>3, PageTypes DEF ShowDetails, CopyMoves, redis, Good, TypeOK
<1>7. QED
  BY <1>3, <1>4, <1>5, <1>6

-----------------------------------------------------------------------------
(* Whose favourites the tab shows.                                         *)

\* What a step that lets one request go on must show.
LEMMA OwnMoves ==
  ASSUME Good, OwnInv, NEW r \in Requests, NEW next, Becomes(r, next), token' = token,
         next # Idle => /\ next.user \in Users
                        /\ next.ids \subseteq had'[next.user]
                        /\ token # NoToken => next.user = token,
         \A u \in Users : /\ rows'[u] \subseteq had'[u] /\ had[u] \subseteq had'[u]
                         /\ cached'[u] \subseteq had'[u] \union {Sentinel},
         token # NoToken => favoriteIds' \union favorites' \subseteq had'[token]
  PROVE  OwnInv'
<1>1. /\ request'[r] = next
      /\ \A s \in Requests : s # r => request'[s] = request[s]
  BY DEF Becomes, Good, TypeOK
<1>2. ASSUME NEW s \in Requests, request'[s] # Idle
      PROVE  /\ request'[s].ids \subseteq had'[request'[s].user]
             /\ token # NoToken => request'[s].user = token
  <2>1. CASE s = r
    BY <1>1, <1>2, <2>1
  <2>2. CASE s # r
    <3>1. Active(s) /\ request'[s] = request[s] /\ request[s].user \in Users
      BY <1>1, <1>2, <2>2, AtWork DEF Active, Good
    <3>2. QED
      BY <3>1 DEF OwnInv
  <2>3. QED
    BY <2>1, <2>2
<1>3. QED
  BY <1>2 DEF OwnInv, Active

LEMMA OwnPreserved ==
  ASSUME Good, OwnInv, [Next]_vars
  PROVE  OwnInv'
<1>0. CASE UNCHANGED vars
  BY <1>0 DEF vars, service, redis, page, OwnInv, Active
<1>t. token # NoToken => token \in Users
  BY DEF Good, TypeOK
<1>1. ASSUME NEW u \in Users, Load(u)
      PROVE  OwnInv'
  <2>1. PICK first :
          request' = [r \in Requests |->
                        IF r = first THEN NewRequest("load", u, "load", Idle) ELSE Idle]
    BY <1>1 DEF Load
  <2>2. \A r \in Requests : request'[r] # Idle => request'[r].ids = {} /\ request'[r].user = u
    BY <2>1 DEF NewRequest
  <2>3. QED
    BY <1>1, <2>2 DEF Load, OwnInv, Active, service, redis
<1>2. CASE FailLogin
  BY <1>2 DEF FailLogin, OwnInv, Active, service, redis, page
<1>3. ASSUME NEW r \in Requests, NEW s \in Sneakers, Toggle(r, s)
      PROVE  OwnInv'
  <2>1. PICK send : Becomes(r, NewRequest("toggle", token, "write", send))
    BY <1>3 DEF Toggle
  <2>2. PICK next : next = NewRequest("toggle", token, "write", send)
    OBVIOUS
  <2>3. next.ids = {} /\ next.user = token /\ token \in Users
    BY <1>3, <1>t, <2>2 DEF NewRequest, Toggle
  <2>4. UNCHANGED <<service, redis, token, favoriteIds, favorites>>
    BY <1>3 DEF Toggle
  <2>5. favoriteIds' \union favorites' \subseteq had'[token]
    BY <1>3, <2>4 DEF OwnInv, Toggle, service
  <2>6. QED
    BY <2>1, <2>2, <2>3, <2>4, <2>5, RowsStay, OwnMoves
<1>4. ASSUME NEW r \in Requests, Change(r)
      PROVE  OwnInv'
  <2>1. /\ request[r] \in RequestRecords /\ request[r].user \in Users
        /\ request[r].send \in Changes /\ Active(r)
    BY <1>4, ChangeCases, Working, AtWork DEF Good, SendsChanges
  <2>2. PICK next : /\ Becomes(r, next)
                    /\ \/ next = [request[r] EXCEPT !.pc = "written", !.result = "ok"]
                       \/ next = [request[r] EXCEPT !.pc = "written", !.result = "error"]
                       \/ next = [request[r] EXCEPT !.tries = @ + 1]
    BY <1>4, ChangeCases DEF Good, Ended
  <2>3. next.user = request[r].user /\ next.ids = request[r].ids
    BY <2>1, <2>2 DEF RequestRecords
  <2>4. \A u \in Users : /\ rows'[u] \subseteq had'[u] /\ had[u] \subseteq had'[u]
                         /\ cached'[u] \subseteq had'[u] \union {Sentinel}
    BY <1>4, <2>1, ChangeCases, ServedTypes DEF Good
  <2>5. UNCHANGED <<token, page>>
    BY <1>4, ChangeCases DEF Good
  <2>6. /\ next.ids \subseteq had'[next.user]
        /\ token # NoToken => next.user = token
        /\ token # NoToken => favoriteIds' \union favorites' \subseteq had'[token]
    BY <1>t, <2>1, <2>3, <2>4, <2>5 DEF OwnInv, page
  <2>7. QED
    BY <2>1, <2>2, <2>3, <2>4, <2>5, <2>6, OwnMoves
<1>5. ASSUME NEW q \in late, ChangeLate(q)
      PROVE  OwnInv'
  <2>1. q.send \in Changes /\ (Serves(q.send, FALSE) \/ UNCHANGED <<service, redis>>)
    BY <1>5 DEF Good, SendsChanges, ChangeLate
  <2>2. \A u \in Users : /\ rows'[u] \subseteq had'[u] /\ had[u] \subseteq had'[u]
                         /\ cached'[u] \subseteq had'[u] \union {Sentinel}
    BY <2>1, ServedTypes DEF Good
  <2>3. UNCHANGED <<token, page, request>>
    BY <1>5 DEF ChangeLate
  <2>4. ASSUME NEW r \in Requests, Active(r)
        PROVE  request[r].ids \subseteq had'[request[r].user]
    BY <2>2, <2>4, AtWork DEF OwnInv, Good
  <2>5. QED
    BY <1>t, <2>2, <2>3, <2>4 DEF OwnInv, Active, page
<1>6. ASSUME NEW r \in Requests, GetAllFavourites(r)
      PROVE  OwnInv'
  <2>1. request[r] \in RequestRecords /\ request[r].user \in Users /\ Active(r)
    BY <1>6, Working, AtWork DEF GetAllFavourites, Good
  <2>2. PICK next :
          /\ \/ \E ids \in SUBSET had[request[r].user] :
                  next = [request[r] EXCEPT !.pc = "loaded", !.result = "ok", !.ids = ids]
             \/ next = [request[r] EXCEPT !.pc = "loaded", !.result = "error"]
             \/ next = [request[r] EXCEPT !.pc = "loaded", !.result = "silent"]
          /\ Becomes(r, next) /\ CopyMoves
    BY <1>6, <2>1, AnswerCases DEF Good
  <2>3. /\ next.user = request[r].user
        /\ next.ids \subseteq had[request[r].user]
    BY <2>1, <2>2 DEF RequestRecords, OwnInv
  <2>4. UNCHANGED <<service, token, page>>
    BY <1>6 DEF GetAllFavourites
  <2>5. /\ next.ids \subseteq had'[next.user]
        /\ token # NoToken => next.user = token
        /\ token # NoToken => favoriteIds' \union favorites' \subseteq had'[token]
    BY <1>t, <2>1, <2>3, <2>4 DEF OwnInv, page, service
  <2>6. \A u \in Users : cached'[u] \subseteq had'[u] \union {Sentinel}
    BY <2>2, <2>4, RowsStay, CopyTypes DEF Good, TypeOK, service
  <2>7. QED
    BY <2>1, <2>2, <2>3, <2>4, <2>5, <2>6, RowsStay, OwnMoves
<1>7. ASSUME NEW r \in Requests, ToggleAnswered(r)
      PROVE  OwnInv'
  <2>1. UNCHANGED <<service, redis, token>>
    BY <1>7 DEF ToggleAnswered
  <2>2. token # NoToken => favoriteIds' \union favorites' \subseteq had'[token]
    BY <1>7, <2>1 DEF ToggleAnswered, FetchIds, OwnInv, service
  <2>3. CASE Becomes(r, Idle)
    BY <2>1, <2>2, <2>3, RowsStay, OwnMoves
  <2>4. CASE /\ token # NoToken
             /\ Becomes(r, NewRequest(request[r].call, token, "load", Idle))
    <3>1. PICK next : next = NewRequest(request[r].call, token, "load", Idle)
      OBVIOUS
    <3>2. next.ids = {} /\ next.user = token /\ token \in Users
      BY <1>t, <2>4, <3>1 DEF NewRequest
    <3>3. QED
      BY <2>1, <2>2, <2>4, <3>1, <3>2, RowsStay, OwnMoves
  <2>5. QED
    BY <1>7, <2>3, <2>4 DEF ToggleAnswered, FetchIds, Return
<1>8. ASSUME NEW r \in Requests, ShowIds(r)
      PROVE  OwnInv'
  <2>1. request[r] \in RequestRecords /\ request[r].user \in Users /\ Active(r)
    BY <1>8, Working, AtWork DEF ShowIds, Good
  <2>2. UNCHANGED <<service, redis, token>>
    BY <1>8 DEF ShowIds
  <2>3. token # NoToken => favoriteIds' \union favorites' \subseteq had'[token]
    BY <1>8, <2>1, <2>2 DEF ShowIds, OwnInv, service
  <2>4. PICK next : /\ Becomes(r, next)
                    /\ \/ next = Idle
                       \/ next = [request[r] EXCEPT !.pc = "lookup", !.result = "ok"]
    BY <1>8 DEF ShowIds, Return, Ended
  <2>5. next # Idle => next.user = request[r].user /\ next.ids = request[r].ids
    BY <2>1, <2>4 DEF RequestRecords
  <2>6. next # Idle => /\ next.ids \subseteq had'[next.user]
                       /\ token # NoToken => next.user = token
    BY <2>1, <2>2, <2>5 DEF OwnInv, service
  <2>7. QED
    BY <2>1, <2>2, <2>3, <2>4, <2>5, <2>6, RowsStay, OwnMoves
<1>9. ASSUME NEW r \in Requests, ShowDetails(r)
      PROVE  OwnInv'
  <2>1. Active(r)
    BY <1>9, Working DEF ShowDetails
  <2>2. UNCHANGED <<service, redis, token, favoriteIds>> /\ Becomes(r, Idle)
    BY <1>9 DEF ShowDetails, Return
  <2>3. token # NoToken => favoriteIds' \union favorites' \subseteq had'[token]
    BY <1>9, <2>1, <2>2 DEF ShowDetails, GetSneakersByIDs, OwnInv, service
  <2>4. QED
    BY <2>2, <2>3, RowsStay, OwnMoves
<1>10. QED
  BY <1>0, <1>1, <1>2, <1>3, <1>4, <1>5, <1>6, <1>7, <1>8, <1>9 DEF Next, Step

LEMMA GoodPreserved ==
  ASSUME Good, OwnInv, [Next]_vars
  PROVE  Good'
<1>0. CASE UNCHANGED vars
  BY <1>0 DEF vars, service, redis, page, Good, TypeOK, SendsChanges
<1>1. CASE FailLogin
  BY <1>1, CallAssumption DEF FailLogin, service, redis, page, Good, TypeOK, SendsChanges
<1>2. QED
  BY <1>0, <1>1, LoadTypes, ToggleTypes, ChangeTypes, LateTypes, AnswerTypes DEF Next, Step

LEMMA Initially == Init => Good /\ OwnInv /\ CopyInv /\ PageInv
<1> SUFFICES ASSUME Init PROVE Good /\ OwnInv /\ CopyInv /\ PageInv
  OBVIOUS
<1>1. \A r \in Requests : request[r] = Idle
  BY DEF Init
<1>2. TypeOK
  <2>1. /\ request \in [Requests -> {Idle} \union RequestRecords]
        /\ late \subseteq RequestRecords
    BY DEF Init
  <2>2. had \in [Users -> SUBSET Sneakers] /\ rows \in [Users -> SUBSET Sneakers]
    BY DEF Init
  <2>3. calls \in 0..MaxCalls /\ faults \in 0..MaxFaults
    BY CallAssumption, FaultAssumption DEF Init
  <2>4. cached \in [Users -> SUBSET (Sneakers \union {Sentinel})] /\ exposed \subseteq Users
    BY DEF Init
  <2>5. QED
    BY <2>1, <2>2, <2>3, <2>4 DEF Init, TypeOK
<1>3. SendsChanges /\ OwnInv /\ CopyInv
  BY <1>1 DEF Init, SendsChanges, OwnInv, CopyInv, Active, Idle
<1>4. PageInv
  BY DEF Init, PageInv
<1>5. QED
  BY <1>2, <1>3, <1>4 DEF Good

\* The page, its requests and the rows keep their types, and no request is tried more
\* often than the client retries (client.go of the gateway's favourites client).
THEOREM TypesHold == Spec => []TypeOK
<1>1. Init => Good /\ OwnInv
  BY Initially
<1>2. Good /\ OwnInv /\ [Next]_vars => (Good /\ OwnInv)'
  BY GoodPreserved, OwnPreserved
<1>3. Good => TypeOK
  BY DEF Good
<1>4. QED
  BY <1>1, <1>2, <1>3, PTL DEF Spec

\* Whatever a tab had in progress when another user logs in, and however late the
\* changes of the user before are done, it shows nobody the favourites of somebody
\* else (handleSubmit of Login.jsx loads the page anew).
THEOREM FavouritesAreOwn == Spec => []OwnFavourites
<1>1. Init => Good /\ OwnInv
  BY Initially
<1>2. Good /\ OwnInv /\ [Next]_vars => (Good /\ OwnInv)'
  BY GoodPreserved, OwnPreserved
<1>3. OwnInv => OwnFavourites
  BY DEF OwnInv, OwnFavourites
<1>4. QED
  BY <1>1, <1>2, <1>3, PTL DEF Spec

-----------------------------------------------------------------------------
(* Whether they are what the table holds.                                  *)

\* What a step must show that leaves one request at work, or none.
LEMMA PageMoves ==
  ASSUME Good, NEW r \in Requests, NEW next, Becomes(r, next),
         \A s \in Requests : Active(s) => s = r,
         next # Idle => TrueAnswers(next)',
         next = Idle => ShowsRows'
  PROVE  PageInv'
<1>1. /\ request'[r] = next
      /\ \A s \in Requests : s # r => request'[s] = Idle
  BY DEF Becomes, Good, TypeOK, Active
<1>2. \A s \in Requests : request'[s] # Idle => s = r
  BY <1>1
<1>3. ASSUME NEW s \in Requests, request'[s] # Idle
      PROVE  TrueAnswers(request[s])'
  BY <1>1, <1>2, <1>3 DEF TrueAnswers
<1>4. Quiet' => ShowsRows'
  BY <1>1 DEF Quiet
<1>5. QED
  BY <1>2, <1>3, <1>4 DEF PageInv, Active

\* A tab that has missed no change has nobody at work but r.
LEMMA OnlyOne ==
  ASSUME PageInv, token # NoToken, ~met, NEW r \in Requests, Active(r)
  PROVE  (\A s \in Requests : Active(s) => s = r) /\ TrueAnswers(request[r])
BY DEF PageInv

\* Each step leaves a set that is not exposed as the table is.
LEMMA CopyPreserved ==
  ASSUME Good, OwnInv, CopyInv, [Next]_vars
  PROVE  CopyInv'
<1>1. CASE UNCHANGED <<service, redis>>
  BY <1>1 DEF service, redis, CopyInv, Members
<1>2. ASSUME NEW c \in Changes, NEW undisturbed, Serves(c, undisturbed)
      PROVE  CopyInv'
  BY <1>2, ServesCases DEF Good
<1>3. ASSUME NEW r \in Requests, Change(r)
      PROVE  CopyInv'
  BY <1>1, <1>2, <1>3, ChangeCases DEF Good, SendsChanges
<1>4. ASSUME NEW q \in late, ChangeLate(q)
      PROVE  CopyInv'
  BY <1>1, <1>2, <1>4 DEF ChangeLate, Good, SendsChanges
<1>5. ASSUME NEW r \in Requests, GetAllFavourites(r)
      PROVE  CopyInv'
  <2>1. request[r].user \in Users /\ UNCHANGED service
    BY <1>5, Working, AtWork DEF GetAllFavourites, Good
  <2>2. UNCHANGED redis \/ SetFavourites(request[r].user) \/ LeavesCopy(request[r].user)
    BY <1>5 DEF GetAllFavourites
  <2>3. QED
    BY <1>1, <2>1, <2>2, CopyStays DEF Good, service
<1>6. CASE UNCHANGED vars \/ FailLogin
  BY <1>1, <1>6 DEF vars, FailLogin
<1>7. ASSUME NEW u \in Users, Load(u)
      PROVE  CopyInv'
  BY <1>1, <1>7 DEF Load
<1>8. ASSUME NEW r \in Requests,
             (\E s \in Sneakers : Toggle(r, s)) \/ ToggleAnswered(r) \/ ShowIds(r) \/ ShowDetails(r)
      PROVE  CopyInv'
  BY <1>1, <1>8 DEF Toggle, ToggleAnswered, ShowIds, ShowDetails
<1>9. QED
  BY <1>3, <1>4, <1>5, <1>6, <1>7, <1>8 DEF Next, Step

LEMMA PagePreserved ==
  ASSUME Good, OwnInv, CopyInv, PageInv, [Next]_vars
  PROVE  PageInv'
<1>0. CASE UNCHANGED vars
  BY <1>0 DEF vars, service, redis, page, PageInv, Active, TrueAnswers, Quiet, ShowsRows
<1> SUFFICES ASSUME token' # NoToken, ~met', Next
             PROVE  PageInv'
  BY <1>0 DEF PageInv
<1>1. ASSUME NEW u \in Users, Load(u)
      PROVE  PageInv'
  <2>1. PICK first \in Requests :
          request' = [r \in Requests |->
                        IF r = first THEN NewRequest("load", u, "load", Idle) ELSE Idle]
    BY <1>1, RequestAssumption DEF Load
  <2>2. PICK next : next = NewRequest("load", u, "load", Idle)
    OBVIOUS
  <2>3. next.pc = "load" /\ next # Idle
    BY <2>2 DEF NewRequest, Idle
  <2>4. request'[first] = next /\ \A r \in Requests : request'[r] # Idle => r = first
    BY <2>1, <2>2
  <2>5. ~Quiet' /\ \A r \in Requests : request'[r] # Idle => TrueAnswers(request[r])'
    BY <2>3, <2>4 DEF Quiet, TrueAnswers
  <2>6. QED
    BY <2>4, <2>5 DEF PageInv, Active
<1>2. CASE FailLogin
  BY <1>2 DEF FailLogin
<1>3. ASSUME NEW r \in Requests, NEW s \in Sneakers, Toggle(r, s)
      PROVE  PageInv'
  <2>1. PICK send : Becomes(r, NewRequest("toggle", token, "write", send))
    BY <1>3 DEF Toggle
  <2>2. PICK next : next = NewRequest("toggle", token, "write", send)
    OBVIOUS
  <2>3. next.pc = "write" /\ next # Idle
    BY <2>2 DEF NewRequest, Idle
  <2>4. \A t \in Requests : ~Active(t)
    BY <1>3 DEF Toggle, Quiet, Active
  <2>5. QED
    BY <2>1, <2>2, <2>3, <2>4, PageMoves DEF TrueAnswers
<1>4. ASSUME NEW r \in Requests, Change(r)
      PROVE  PageInv'
  <2>1. /\ request[r] \in RequestRecords /\ Active(r) /\ request[r].pc = "write"
        /\ UNCHANGED <<token, met>>
    BY <1>4, ChangeCases, Working, AtWork DEF Good
  <2>2. PICK next : /\ Becomes(r, next)
                    /\ \/ next = [request[r] EXCEPT !.pc = "written", !.result = "ok"]
                       \/ next = [request[r] EXCEPT !.pc = "written", !.result = "error"]
                       \/ next = [request[r] EXCEPT !.tries = @ + 1]
    BY <1>4, ChangeCases DEF Good, Ended
  <2>3. next # Idle /\ next.pc \in {"write", "written"}
    BY <2>1, <2>2 DEF RequestRecords, Idle
  <2>4. QED
    BY <2>1, <2>2, <2>3, OnlyOne, PageMoves DEF TrueAnswers
<1>5. ASSUME NEW q \in late, ChangeLate(q)
      PROVE  PageInv'
  BY <1>5 DEF ChangeLate
<1>6. ASSUME NEW r \in Requests, GetAllFavourites(r)
      PROVE  PageInv'
  <2>1. request[r] \in RequestRecords /\ request[r].user \in Users /\ Active(r)
    BY <1>6, Working, AtWork DEF GetAllFavourites, Good
  <2>2. UNCHANGED <<service, token, page>> /\ request[r].user = token
    BY <1>6, <2>1 DEF GetAllFavourites, OwnInv
  <2>3. \A s \in Requests : Active(s) => s = r
    <3>1. CASE ~met
      BY <2>1, <2>2, <3>1, OnlyOne
    <3>2. CASE met
      <4>1. Alone(r)
        BY <1>6, <3>2 DEF GetAllFavourites
      <4>2. QED
        BY <4>1 DEF Alone, Active
    <3>3. QED
      BY <3>1, <3>2
  <2>4. PICK next :
          /\ \/ /\ \E ids \in SUBSET had[request[r].user] :
                      next = [request[r] EXCEPT !.pc = "loaded", !.result = "ok", !.ids = ids]
                /\ next.ids = rows[request[r].user]
             \/ next = [request[r] EXCEPT !.pc = "loaded", !.result = "error"]
          /\ Becomes(r, next)
    <3>1. PICK next :
            /\ Becomes(r, next)
            /\ \/ \E ids \in SUBSET had[request[r].user] :
                    /\ next = [request[r] EXCEPT !.pc = "loaded", !.result = "ok", !.ids = ids]
                    /\ ids = rows[request[r].user]
               \/ next = [request[r] EXCEPT !.pc = "loaded", !.result = "error"]
      BY <1>6, <2>1, AnswerCases DEF Good
    <3>2. QED
      BY <2>1, <3>1 DEF RequestRecords
  <2>5. /\ next # Idle /\ next.pc = "loaded"
        /\ \/ next.result = "ok" /\ next.ids = rows[token]
           \/ next.result = "error"
    BY <2>1, <2>2, <2>4 DEF RequestRecords, Idle
  <2>6. rows' = rows /\ token' = token
    BY <2>2 DEF service
  <2>7. TrueAnswers(next)'
    BY <2>5, <2>6 DEF TrueAnswers
  <2>8. QED
    BY <2>3, <2>4, <2>5, <2>7, PageMoves
<1>7. ASSUME NEW r \in Requests, ToggleAnswered(r)
      PROVE  PageInv'
  <2>1. UNCHANGED <<token, met>> /\ Active(r)
    BY <1>7, Working DEF ToggleAnswered
  <2>2. \A s \in Requests : Active(s) => s = r
    BY <2>1, OnlyOne
  <2>3. CASE Becomes(r, Idle) /\ error' = TRUE
    BY <2>2, <2>3, PageMoves DEF ShowsRows
  <2>4. CASE Becomes(r, NewRequest(request[r].call, token, "load", Idle))
    <3>1. PICK next : next = NewRequest(request[r].call, token, "load", Idle)
      OBVIOUS
    <3>2. next.pc = "load" /\ next # Idle
      BY <3>1 DEF NewRequest, Idle
    <3>3. QED
      BY <2>2, <2>4, <3>1, <3>2, PageMoves DEF TrueAnswers
  <2>5. QED
    BY <1>7, <2>1, <2>3, <2>4 DEF ToggleAnswered, FetchIds, Return
<1>8. ASSUME NEW r \in Requests, ShowIds(r)
      PROVE  PageInv'
  <2>1. /\ request[r] \in RequestRecords /\ Active(r) /\ request[r].pc = "loaded"
        /\ UNCHANGED <<service, token, met>>
    BY <1>8, Working, AtWork DEF ShowIds, Good
  <2>2. \A s \in Requests : Active(s) => s = r
    BY <2>1, OnlyOne
  <2>3. \/ request[r].result = "error"
        \/ request[r].result = "ok" /\ request[r].ids = rows[token]
    BY <2>1, OnlyOne DEF TrueAnswers, RequestRecords
  <2>4. rows' = rows /\ token' = token
    BY <2>1 DEF service
  <2>5. CASE /\ Becomes(r, Idle) /\ favoriteIds' = {} /\ favorites' = {}
             /\ request[r].result = "ok" => request[r].ids = {}
             /\ request[r].result = "error" => error' = TRUE
    <3>1. ShowsRows'
      <4>1. CASE request[r].result = "ok"
        <5>1. rows[token] = {}
          BY <2>3, <2>5, <4>1
        <5>2. favoriteIds' = rows'[token']
          BY <2>4, <2>5, <5>1
        <5>3. favorites' = favoriteIds' \intersect Catalogue
          BY <2>5
        <5>4. QED
          BY <5>2, <5>3 DEF ShowsRows
      <4>2. CASE request[r].result = "error"
        BY <2>5, <4>2 DEF ShowsRows
      <4>3. QED
        BY <2>3, <4>1, <4>2
    <3>2. QED
      BY <2>2, <2>5, <3>1, PageMoves
  <2>6. CASE /\ request[r].result = "ok"
             /\ favoriteIds' = request[r].ids
             /\ Becomes(r, [request[r] EXCEPT !.pc = "lookup", !.result = "ok"])
    <3>1. PICK next : next = [request[r] EXCEPT !.pc = "lookup", !.result = "ok"]
      OBVIOUS
    <3>2. next # Idle /\ next.pc = "lookup" /\ next.ids = request[r].ids
      BY <2>1, <3>1 DEF RequestRecords, Idle
    <3>3. TrueAnswers(next)'
      BY <2>3, <2>4, <2>6, <3>2 DEF TrueAnswers
    <3>4. QED
      BY <2>2, <2>6, <3>1, <3>2, <3>3, PageMoves
  <2>7. QED
    BY <1>8, <2>5, <2>6 DEF ShowIds, Return, Ended
<1>9. ASSUME NEW r \in Requests, ShowDetails(r)
      PROVE  PageInv'
  <2>1. /\ Active(r) /\ request[r].pc = "lookup"
        /\ UNCHANGED <<service, token, met, favoriteIds>> /\ Becomes(r, Idle)
    BY <1>9, Working DEF ShowDetails, Return
  <2>2. /\ \A s \in Requests : Active(s) => s = r
        /\ request[r].ids = rows[token] /\ favoriteIds = request[r].ids
    BY <2>1, OnlyOne DEF TrueAnswers
  <2>3. ShowsRows'
    BY <1>9, <2>1, <2>2 DEF ShowDetails, GetSneakersByIDs, ShowsRows, service
  <2>4. QED
    BY <2>1, <2>2, <2>3, PageMoves
<1>10. QED
  BY <1>1, <1>2, <1>3, <1>4, <1>5, <1>6, <1>7, <1>8, <1>9 DEF Next, Step

\* When a tab awaits no answer it shows an error or what the table holds, whichever
\* calls fail, are tried again or lose their answers, and whoever logs in (toggleFavorite
\* of FavoritesContext.jsx fetches the ids anew after a change): unless answers
\* overlapped, a change was done late, the ids were not answered at all, or they came
\* from a set in Redis that a change had left without its refresh (fav.go:78 and 86).
THEOREM PagesAreTrue == Spec => []PageIsTrue
<1>1. Init => Good /\ OwnInv /\ CopyInv /\ PageInv
  BY Initially
<1>2. Good /\ OwnInv /\ CopyInv /\ PageInv /\ [Next]_vars
        => (Good /\ OwnInv /\ CopyInv /\ PageInv)'
  BY GoodPreserved, OwnPreserved, CopyPreserved, PagePreserved
<1>3. PageInv => PageIsTrue
  BY DEF PageInv, PageIsTrue, ShowsRows
<1>4. QED
  BY <1>1, <1>2, <1>3, PTL DEF Spec
=============================================================================
