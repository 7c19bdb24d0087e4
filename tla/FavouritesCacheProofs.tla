------------------------ MODULE FavouritesCacheProofs ------------------------
(***************************************************************************)
(* Theorems about FavouritesCache, for every set of sneakers, any number   *)
(* of overlapping requests, and any number of errors.                      *)
(***************************************************************************)
EXTENDS FavouritesCache, TLAPS

-----------------------------------------------------------------------------
(* Calls and their faults.                                                 *)

\* How a step ends never takes the fault counter out of its range.
LEMMA EndsCounts ==
  ASSUME MaxFaults \in Nat, faults \in 0..MaxFaults, NEW step, NEW result,
         Ends(step, result)
  PROVE  faults' \in 0..MaxFaults
BY DEF Ends, Fault

\* A new call never takes the call counter out of its range.
LEMMA StartsCounts ==
  ASSUME MaxCalls \in Nat, calls \in 0..MaxCalls, NEW r, NEW call, Starts(r, call)
  PROVE  calls' \in 0..MaxCalls
BY DEF Starts

\* A goroutine that goes on to a state of a set leaves all of them in it.
LEMMA BecomesStays ==
  ASSUME NEW States, request \in [Requests -> States], NEW r \in Requests,
         NEW next \in States, Becomes(r, next)
  PROVE  request' \in [Requests -> States]
BY DEF Becomes

\* A goroutine that goes on is in its new state, and no other one moves.
LEMMA BecomesOnly ==
  ASSUME NEW States, request \in [Requests -> States], NEW r \in Requests, NEW next,
         Becomes(r, next)
  PROVE  /\ request'[r] = next
         /\ \A s \in Requests : s # r => request'[s] = request[s]
BY DEF Becomes

-----------------------------------------------------------------------------
(* Type correctness.                                                       *)

\* A call that reads is at one of its steps, with the favourites it has read.
LEMMA ReadingKind ==
  ASSUME TypeOK, NEW r \in Requests, request[r].pc \notin {"idle", "insert"}
  PROVE  /\ request[r] \in ReadingRequest
         /\ request[r].favourites \subseteq Sneakers
<1>1. request[r] \in RequestStates
  BY DEF TypeOK
<1>2. request[r] \in ReadingRequest
  BY <1>1 DEF RequestStates, Idle, NewRequest
<1>3. QED
  BY <1>2 DEF ReadingRequest

\* Reading calls go from step to step.
LEMMA ReadingGoes ==
  ASSUME NEW q \in ReadingRequest, NEW favourites \in SUBSET Sneakers,
         NEW pc \in {"smembers", "invalidate", "load", "del", "sadd", "expire", "reply"}
  PROVE  /\ [q EXCEPT !.pc = pc] \in RequestStates
         /\ [q EXCEPT !.pc = pc, !.favourites = favourites] \in RequestStates
BY DEF ReadingRequest, RequestStates

\* A call starts to read, or returns.
LEMMA OtherKinds ==
  ASSUME NEW call \in Operations,
         NEW pc \in {"smembers", "invalidate", "load", "del", "sadd", "expire", "reply"}
  PROVE  /\ Idle \in RequestStates
         /\ [call |-> call, pc |-> pc, favourites |-> {}] \in RequestStates
         /\ \A s \in Sneakers :
              [call |-> "add", pc |-> "insert", sneaker |-> s] \in RequestStates
BY DEF ReadingRequest, NewRequest, RequestStates

\* Every step keeps the types.
LEMMA TypePreserved == TypeOK /\ [Next]_vars => TypeOK'
<1> SUFFICES ASSUME TypeOK, [Next]_vars PROVE TypeOK'
  OBVIOUS
<1> USE CallAssumption, FaultAssumption
<1>t. /\ request \in [Requests -> RequestStates]
      /\ calls \in 0..MaxCalls
      /\ faults \in 0..MaxFaults
  BY DEF TypeOK
<1>c. /\ cache \subseteq Sneakers \union {Sentinel}
      /\ ttl \in BOOLEAN
      /\ rows \subseteq Sneakers
      /\ met \in BOOLEAN
  BY DEF TypeOK
<1>m. Meets => met' \in BOOLEAN
  BY <1>c DEF Meets
<1>d. Del \/ UNCHANGED redis \/ Expire =>
        cache' \subseteq Sneakers \union {Sentinel} /\ ttl' \in BOOLEAN
  BY <1>c DEF Del, Expire, redis, KeyExists
<1>0. CASE UNCHANGED vars
  BY <1>0 DEF TypeOK, vars, redis
<1>1. CASE KeyExpires
  BY <1>1, <1>t, <1>c, <1>d, <1>m DEF TypeOK, KeyExpires
<1>2. ASSUME NEW r \in Requests, GetAllFavourites(r), Meets
      PROVE  TypeOK'
  <2>1. PICK result \in {"ok", "error"} :
          /\ Ends("exists", result)
          /\ Reads(r, "get", IF result = "ok" /\ KeyExists THEN "smembers" ELSE "load")
    BY <1>2 DEF GetAllFavourites
  <2>2. request' \in [Requests -> RequestStates]
    BY <2>1, <1>t, OtherKinds, BecomesStays DEF Reads, Operations
  <2>3. faults' \in 0..MaxFaults /\ calls' \in 0..MaxCalls
    BY <2>1, <1>2, <1>t, EndsCounts, StartsCounts DEF GetAllFavourites
  <2>4. QED
    BY <2>2, <2>3, <1>2, <1>c, <1>d, <1>m DEF TypeOK, GetAllFavourites
<1>3. ASSUME NEW r \in Requests, NEW s \in Sneakers, AddToFavourite(r, s), Meets
      PROVE  TypeOK'
  <2>1. PICK result \in {"ok", "error"} :
          /\ Ends("check", result)
          /\ \/ Return(r)
             \/ Becomes(r, [call |-> "add", pc |-> "insert", sneaker |-> s])
    BY <1>3 DEF AddToFavourite
  <2>2. request' \in [Requests -> RequestStates]
    BY <2>1, <1>t, OtherKinds, BecomesStays DEF Return, Operations
  <2>3. faults' \in 0..MaxFaults /\ calls' \in 0..MaxCalls
    BY <2>1, <1>3, <1>t, EndsCounts, StartsCounts DEF AddToFavourite
  <2>4. QED
    BY <2>2, <2>3, <1>3, <1>c, <1>d, <1>m DEF TypeOK, AddToFavourite
<1>4. ASSUME NEW r \in Requests, NEW call \in Operations, NEW step,
             NEW changed \in SUBSET Sneakers, ChangeRows(r, call, step, changed)
      PROVE  /\ request' \in [Requests -> RequestStates]
             /\ faults' \in 0..MaxFaults
             /\ rows' \subseteq Sneakers
             /\ UNCHANGED redis
  <2>1. PICK result \in Results :
          /\ Ends(step, result)
          /\ rows' = IF result = "error" THEN rows ELSE changed
          /\ Reads(r, call, "invalidate") \/ Return(r)
    BY <1>4 DEF ChangeRows
  <2>2. request' \in [Requests -> RequestStates]
    BY <2>1, <1>t, OtherKinds, BecomesStays DEF Reads, Return
  <2>3. faults' \in 0..MaxFaults
    BY <2>1, <1>t, EndsCounts
  <2>4. QED
    BY <2>1, <2>2, <2>3, <1>c, <1>4 DEF ChangeRows
<1>5. ASSUME NEW r \in Requests, NEW s \in Sneakers, RemoveFromFavourite(r, s), Meets
      PROVE  TypeOK'
  <2>1. calls' \in 0..MaxCalls
    BY <1>5, <1>t, StartsCounts DEF RemoveFromFavourite
  <2>2. \/ ChangeRows(r, "remove", "delete", rows \ {s})
        \/ UNCHANGED <<rows, redis, request, faults>>
    BY <1>5 DEF RemoveFromFavourite
  <2>3. rows \ {s} \in SUBSET Sneakers /\ "remove" \in Operations
    BY <1>c DEF Operations
  <2>4. CASE ChangeRows(r, "remove", "delete", rows \ {s})
    BY <2>1, <2>3, <2>4, <1>4, <1>5, <1>d, <1>m DEF TypeOK
  <2>5. CASE UNCHANGED <<rows, redis, request, faults>>
    BY <2>1, <2>5, <1>t, <1>c, <1>d, <1>5, <1>m DEF TypeOK
  <2>6. QED
    BY <2>2, <2>4, <2>5
<1>6. ASSUME NEW r \in Requests, InsertFavourite(r), UNCHANGED met
      PROVE  TypeOK'
  <2>1. request[r] \in NewRequest
    <3>1. request[r] \in RequestStates
      BY <1>t
    <3>2. request[r].pc = "insert"
      BY <1>6 DEF InsertFavourite
    <3>3. QED
      BY <3>1, <3>2 DEF RequestStates, Idle, ReadingRequest
  <2>2. rows \union {request[r].sneaker} \in SUBSET Sneakers /\ "add" \in Operations
    BY <2>1, <1>c DEF NewRequest, Operations
  <2>3. ChangeRows(r, "add", "insert", rows \union {request[r].sneaker})
    BY <1>6 DEF InsertFavourite
  <2>4. QED
    BY <2>2, <2>3, <1>4, <1>6, <1>c, <1>d, <1>t DEF TypeOK, InsertFavourite
<1>7. ASSUME NEW r \in Requests, ReadCache(r), UNCHANGED met
      PROVE  TypeOK'
  <2>1. request[r] \in ReadingRequest
    BY <1>7, ReadingKind DEF ReadCache
  <2>2. PICK result \in {"ok", "error"} :
          /\ Ends("smembers", result)
          /\ \/ Goes(r, "load")
             \/ Becomes(r, [request[r] EXCEPT !.pc = "reply",
                              !.favourites = Favourites(cache)])
    BY <1>7 DEF ReadCache
  <2>3. Favourites(cache) \in SUBSET Sneakers
    BY <1>c DEF Favourites
  <2>4. request' \in [Requests -> RequestStates]
    BY <2>1, <2>2, <2>3, <1>t, ReadingGoes, BecomesStays DEF Goes
  <2>5. faults' \in 0..MaxFaults
    BY <2>2, <1>t, EndsCounts
  <2>6. QED
    BY <2>4, <2>5, <1>t, <1>c, <1>d, <1>7 DEF TypeOK, ReadCache
<1>8. ASSUME NEW r \in Requests, LoadFavourites(r), UNCHANGED met
      PROVE  TypeOK'
  <2>1. request[r] \in ReadingRequest
    BY <1>8, ReadingKind DEF LoadFavourites
  <2>2. PICK result \in {"ok", "error"} :
          /\ Ends("load", result)
          /\ \/ Return(r)
             \/ Becomes(r, [request[r] EXCEPT !.pc = "del", !.favourites = rows])
    BY <1>8 DEF LoadFavourites
  <2>3. request' \in [Requests -> RequestStates]
    BY <2>1, <2>2, <1>c, <1>t, ReadingGoes, OtherKinds, BecomesStays
    DEF Return, Operations
  <2>4. faults' \in 0..MaxFaults
    BY <2>2, <1>t, EndsCounts
  <2>5. QED
    BY <2>3, <2>4, <1>t, <1>c, <1>d, <1>8 DEF TypeOK, LoadFavourites
<1>9. ASSUME NEW r \in Requests, NEW pc \in {"del", "sadd", "expire"}, NEW command,
             NEW next \in {"sadd", "expire", "done"}, Piped(r, pc, command, next)
      PROVE  /\ request' \in [Requests -> RequestStates]
             /\ faults' \in 0..MaxFaults
  <2>1. request[r] \in ReadingRequest
    BY <1>9, ReadingKind DEF Piped
  <2>2. PICK result \in Results :
          /\ Ends(pc, result)
          /\ IF result = "ok" /\ next # "done" THEN Goes(r, next) ELSE Done(r)
    BY <1>9 DEF Piped
  <2>3. \/ next # "done" /\ Goes(r, next)
        \/ Goes(r, "reply")
        \/ Return(r)
    BY <2>2 DEF Done
  <2>4. request' \in [Requests -> RequestStates]
    BY <2>1, <2>3, <1>t, ReadingGoes, OtherKinds, BecomesStays
    DEF Goes, Return, Operations
  <2>5. QED
    BY <2>2, <2>4, <1>t, EndsCounts
<1>10. ASSUME NEW r \in Requests, SetFavourites(r), UNCHANGED met
       PROVE  TypeOK'
  <2>1. CASE Piped(r, "del", Del, "sadd")
    <3>1. Del \/ UNCHANGED redis
      BY <2>1 DEF Piped, Runs
    <3>2. QED
      BY <2>1, <3>1, <1>9, <1>10, <1>t, <1>c, <1>d DEF TypeOK, Piped
  <2>2. CASE Piped(r, "sadd", SAdd(Members(request[r].favourites)), "expire")
    <3>1. request[r].favourites \subseteq Sneakers
      BY <2>2, ReadingKind DEF Piped
    <3>2. Members(request[r].favourites) \subseteq Sneakers \union {Sentinel}
      BY <3>1 DEF Members
    <3>3. SAdd(Members(request[r].favourites)) \/ UNCHANGED redis
      BY <2>2 DEF Piped, Runs
    <3>4. cache' \subseteq Sneakers \union {Sentinel} /\ ttl' \in BOOLEAN
      BY <3>2, <3>3, <1>c DEF SAdd, redis
    <3>5. QED
      BY <2>2, <3>4, <1>9, <1>10, <1>t, <1>c DEF TypeOK, Piped
  <2>3. CASE Piped(r, "expire", Expire, "done")
    <3>1. Expire \/ UNCHANGED redis
      BY <2>3 DEF Piped, Runs
    <3>2. QED
      BY <2>3, <3>1, <1>9, <1>10, <1>t, <1>c, <1>d DEF TypeOK, Piped
  <2>4. QED
    BY <1>10, <2>1, <2>2, <2>3 DEF SetFavourites
<1>11. ASSUME NEW r \in Requests, Answer(r), UNCHANGED met
       PROVE  TypeOK'
  <2>1. request' \in [Requests -> RequestStates]
    BY <1>11, <1>t, OtherKinds, BecomesStays DEF Answer, Return, Operations
  <2>2. QED
    BY <2>1, <1>11, <1>t, <1>c, <1>d DEF TypeOK, Answer
<1>12. ASSUME NEW r \in Requests, Invalidate(r), UNCHANGED met
       PROVE  TypeOK'
  <2>1. request[r] \in ReadingRequest
    BY <1>12, ReadingKind DEF Invalidate
  <2>2. request' \in [Requests -> RequestStates]
    BY <2>1, <1>12, <1>t, ReadingGoes, BecomesStays DEF Invalidate, Goes
  <2>3. PICK result \in Results : Ends("invalidate", result) /\ Runs(result, Del)
    BY <1>12 DEF Invalidate
  <2>4. Del \/ UNCHANGED redis
    BY <2>3 DEF Runs
  <2>5. faults' \in 0..MaxFaults
    BY <2>3, <1>t, EndsCounts
  <2>6. QED
    BY <2>2, <2>4, <2>5, <1>12, <1>t, <1>c, <1>d DEF TypeOK, Invalidate
<1>13. QED
  BY <1>0, <1>1, <1>2, <1>3, <1>5, <1>6, <1>7, <1>8, <1>10, <1>11, <1>12
  DEF Next, Call, Step

\* The variables keep their types, for any number of requests, calls and errors.
THEOREM TypeCorrect == Spec => []TypeOK
<1>1. Init => TypeOK
  <2>1. Idle \in RequestStates
    BY DEF RequestStates
  <2>2. 0 \in 0..MaxCalls /\ 0 \in 0..MaxFaults
    BY CallAssumption, FaultAssumption
  <2>3. QED
    BY <2>1, <2>2 DEF Init, TypeOK
<1>2. QED
  BY <1>1, TypePreserved, PTL DEF Spec

-----------------------------------------------------------------------------
(* No key is left without an expiry.                                       *)

\* The one error that the service does not cover is that of EXPIRE, or of an SADD
\* after which the pipeline does not come to it.
ExpiryIsSet == "expire" \notin Failing /\ "sadd" \notin Losing

\* The inductive invariant: a key without an expiry is about to get one.
ExpiryComes ==
  KeyExists /\ ~ttl => \E r \in Requests : request[r].pc = "expire"

\* Every step of Redis commands keeps ExpiryComes.
LEMMA ExpiryPreserved ==
  ExpiryIsSet /\ TypeOK /\ ExpiryComes /\ [Next]_vars => ExpiryComes'
<1> SUFFICES ASSUME ExpiryIsSet, TypeOK, ExpiryComes, [Next]_vars
             PROVE  ExpiryComes'
  OBVIOUS
<1>t. request \in [Requests -> RequestStates]
  BY DEF TypeOK
\* A step that leaves the set alone, of a goroutine that is not at "expire".
<1>a. ASSUME UNCHANGED redis, NEW r \in Requests, NEW next, Becomes(r, next),
             request[r].pc # "expire"
      PROVE  ExpiryComes'
  <2>1. \A s \in Requests : s # r => request'[s] = request[s]
    BY <1>a, <1>t, BecomesOnly
  <2>2. QED
    BY <2>1, <1>a DEF ExpiryComes, KeyExists, redis
\* A step after which there is no key, or one with an expiry.
<1>b. Del \/ Expire => ExpiryComes'
  BY DEF Del, Expire, ExpiryComes, KeyExists
<1>0. CASE UNCHANGED vars
  BY <1>0 DEF ExpiryComes, KeyExists, vars, redis
<1>1. CASE KeyExpires
  BY <1>1, <1>b DEF KeyExpires
<1>2. ASSUME NEW r \in Requests, Call(r)
      PROVE  ExpiryComes'
  <2>1. request[r] = Idle /\ UNCHANGED redis
    BY <1>2 DEF Call, GetAllFavourites, AddToFavourite, RemoveFromFavourite,
                ChangeRows, Starts
  <2>2. (\E next : Becomes(r, next)) \/ UNCHANGED request
    BY <1>2 DEF Call, GetAllFavourites, AddToFavourite, RemoveFromFavourite,
                ChangeRows, Reads, Return
  <2>3. request[r].pc # "expire"
    BY <2>1 DEF Idle
  <2>4. CASE \E next : Becomes(r, next)
    BY <2>1, <2>3, <2>4, <1>a
  <2>5. CASE UNCHANGED request
    BY <2>1, <2>5 DEF ExpiryComes, KeyExists, redis
  <2>6. QED
    BY <2>2, <2>4, <2>5
<1>3. ASSUME NEW r \in Requests,
             ReadCache(r) \/ LoadFavourites(r) \/ Answer(r) \/ InsertFavourite(r)
      PROVE  ExpiryComes'
  <2>1. request[r].pc # "expire" /\ UNCHANGED redis
    BY <1>3 DEF ReadCache, LoadFavourites, Answer, InsertFavourite, ChangeRows, At
  <2>2. \E next : Becomes(r, next)
    BY <1>3 DEF ReadCache, LoadFavourites, Answer, InsertFavourite, ChangeRows,
                Reads, Return, Goes
  <2>3. QED
    BY <2>1, <2>2, <1>a
<1>4. ASSUME NEW r \in Requests, Invalidate(r)
      PROVE  ExpiryComes'
  <2>1. Del \/ UNCHANGED redis
    BY <1>4 DEF Invalidate, Runs
  <2>2. request[r].pc # "expire" /\ \E next : Becomes(r, next)
    BY <1>4 DEF Invalidate, Goes
  <2>3. QED
    BY <2>1, <2>2, <1>a, <1>b
<1>5. ASSUME NEW r \in Requests, SetFavourites(r)
      PROVE  ExpiryComes'
  <2>1. CASE Piped(r, "del", Del, "sadd")
    <3>1. Del \/ UNCHANGED redis
      BY <2>1 DEF Piped, Runs
    <3>2. request[r].pc # "expire" /\ \E next : Becomes(r, next)
      BY <2>1 DEF Piped, Goes, Done, Return
    <3>3. QED
      BY <3>1, <3>2, <1>a, <1>b
  <2>2. CASE Piped(r, "sadd", SAdd(Members(request[r].favourites)), "expire")
    <3>1. PICK result \in Results :
            /\ Ends("sadd", result)
            /\ Runs(result, SAdd(Members(request[r].favourites)))
            /\ IF result = "ok" THEN Goes(r, "expire") ELSE Done(r)
      BY <2>2 DEF Piped
    <3>2. request[r].pc # "expire" /\ request[r] \in ReadingRequest
      BY <2>2, ReadingKind DEF Piped
    <3>3. result \in {"ok", "error"}
      BY <3>1 DEF ExpiryIsSet, Ends
    <3>4. CASE result = "error"
      <4>1. UNCHANGED redis /\ \E next : Becomes(r, next)
        BY <3>1, <3>4 DEF Runs, Done, Goes, Return
      <4>2. QED
        BY <3>2, <4>1, <1>a
    <3>5. CASE result = "ok"
      <4>1. request'[r] = [request[r] EXCEPT !.pc = "expire"]
        BY <3>1, <3>5, <1>t, BecomesOnly DEF Goes
      <4>2. request'[r].pc = "expire"
        BY <4>1, <3>2 DEF ReadingRequest
      <4>3. QED
        BY <4>2 DEF ExpiryComes
    <3>6. QED
      BY <3>3, <3>4, <3>5
  <2>3. CASE Piped(r, "expire", Expire, "done")
    <3>1. PICK result \in Results :
            Ends("expire", result) /\ Runs(result, Expire)
      BY <2>3 DEF Piped
    <3>2. result # "error"
      BY <3>1 DEF ExpiryIsSet, Ends
    <3>3. QED
      BY <3>1, <3>2, <1>b DEF Runs
  <2>4. QED
    BY <1>5, <2>1, <2>2, <2>3 DEF SetFavourites
<1>6. QED
  BY <1>0, <1>1, <1>2, <1>3, <1>4, <1>5 DEF Next, Step

\* However calls overlap and whichever other errors there are, a cached set that no
\* request is busy with has an expiry (SetFavourites of redis.go).
THEOREM KeysExpire ==
  ASSUME ExpiryIsSet
  PROVE  Spec => []CachedIsBounded
<1>1. Init => ExpiryComes
  BY DEF Init, ExpiryComes, KeyExists
<1>2. ExpiryComes => CachedIsBounded
  BY DEF ExpiryComes, CachedIsBounded, Quiet, Idle
<1>3. TypeOK /\ ExpiryComes /\ [Next]_vars => ExpiryComes'
  BY ExpiryPreserved
<1>4. QED
  BY <1>1, <1>2, <1>3, TypeCorrect, PTL DEF Spec

-----------------------------------------------------------------------------
(* Answers to calls that come one after the other.                         *)

\* What the service does not cover: a change of the rows whose answer is lost, and a
\* refresh with an error in dropping the key and another one after it.
RefreshesAreCovered ==
  /\ {"insert", "delete"} \intersect Losing = {}
  /\ \/ MaxFaults <= 1
     \/ "invalidate" \notin Failing
     \/ {"load", "del"} \intersect Failing = {}

\* The cached set is that of the rows, or there is none.
Coherent == cache \in {{}, Members(rows)}

\* The key was to be dropped and was not.
MissedDrop == "invalidate" \in Failing /\ faults >= 1

\* What the only request that is at work has read, and finds in the cache.
ReadsTruly(q) ==
  /\ q.pc = "smembers" => cache = Members(rows)
  /\ q.pc = "insert" => Coherent
  /\ q.pc = "load" => Coherent \/ MissedDrop
  /\ q.pc = "del" => q.favourites = rows /\ (Coherent \/ MissedDrop)
  /\ q.pc = "sadd" => q.favourites = rows /\ cache = {}
  /\ q.pc \in {"expire", "reply"} => q.favourites = rows /\ Coherent

\* As long as calls come one after the other, the cache is right between them.
OneByOne ==
  ~met =>
    /\ \A r, s \in Requests : request[r] # Idle /\ request[s] # Idle => r = s
    /\ \A r \in Requests : request[r] # Idle => ReadsTruly(request[r])
    /\ Quiet => Coherent

\* Sentinel is told from the sneakers.
LEMMA MembersAreRead ==
  ASSUME TypeOK
  PROVE  /\ Favourites(Members(rows)) = rows
         /\ Members(rows) # {}
BY SneakerAssumption DEF TypeOK, Favourites, Members

\* When the only call goes on to next, and next fits the cache, calls still come one
\* after the other with the cache right between them.
LEMMA OneByOneStays ==
  ASSUME TypeOK, OneByOne, NEW r \in Requests, NEW next, Becomes(r, next),
         ~met' => /\ ~met
                  /\ request[r] # Idle \/ Quiet
                  /\ next # Idle => ReadsTruly(next)'
                  /\ next = Idle => Coherent'
  PROVE  OneByOne'
<1>1. request'[r] = next /\ \A s \in Requests : s # r => request'[s] = request[s]
  BY BecomesOnly DEF TypeOK
<1>2. ASSUME ~met'
      PROVE  \A s \in Requests : s # r => request'[s] = Idle
  BY <1>1, <1>2 DEF OneByOne, Quiet
<1>3. ASSUME ~met', NEW s \in Requests, request'[s] # Idle
      PROVE  s = r /\ ReadsTruly(request[s])'
  BY <1>1, <1>2, <1>3 DEF ReadsTruly
<1>4. ~met' /\ Quiet' => Coherent'
  BY <1>1 DEF Quiet
<1>5. QED
  BY <1>3, <1>4 DEF OneByOne

\* The rows change, and the cache is going to be refreshed.
LEMMA RowsOneByOne ==
  ASSUME RefreshesAreCovered, TypeOK, OneByOne, NEW r \in Requests, NEW call,
         NEW step \in {"insert", "delete"}, NEW changed, ChangeRows(r, call, step, changed),
         ~met' => ~met /\ Coherent /\ (request[r] # Idle \/ Quiet)
  PROVE  OneByOne'
<1>1. PICK result \in Results :
        /\ Ends(step, result)
        /\ rows' = IF result = "error" THEN rows ELSE changed
        /\ IF result = "ok" THEN Reads(r, call, "invalidate") ELSE Return(r)
  BY DEF ChangeRows
<1>2. CASE result = "ok"
  <2>1. PICK next : /\ next = [call |-> call, pc |-> "invalidate", favourites |-> {}]
                    /\ Becomes(r, next)
    BY <1>1, <1>2 DEF Reads
  <2>2. next # Idle /\ ReadsTruly(next)'
    BY <2>1 DEF Idle, ReadsTruly
  <2>3. QED
    BY <2>1, <2>2, OneByOneStays
<1>3. CASE result # "ok"
  <2>1. result = "error"
    BY <1>1, <1>3 DEF Ends, RefreshesAreCovered
  <2>2. rows' = rows /\ cache' = cache /\ Becomes(r, Idle)
    BY <1>1, <2>1 DEF ChangeRows, redis, Return
  <2>3. QED
    BY <2>2, OneByOneStays DEF Coherent
<1>4. QED
  BY <1>2, <1>3

\* A call begins when there is none: the cache is right.
LEMMA CallsOneByOne ==
  ASSUME RefreshesAreCovered, TypeOK, OneByOne, NEW r \in Requests, Call(r), Meets
  PROVE  OneByOne'
<1>1. ~met' => ~met /\ Quiet /\ Coherent
  BY DEF Meets, OneByOne
<1>2. CASE GetAllFavourites(r)
  <2>1. PICK result \in {"ok", "error"} :
          Reads(r, "get", IF result = "ok" /\ KeyExists THEN "smembers" ELSE "load")
    BY <1>2 DEF GetAllFavourites
  <2>2. PICK next : /\ next = [call |-> "get", favourites |-> {},
                               pc |-> IF result = "ok" /\ KeyExists THEN "smembers" ELSE "load"]
                    /\ Becomes(r, next)
    BY <2>1 DEF Reads
  <2>3. rows' = rows /\ cache' = cache
    BY <1>2 DEF GetAllFavourites, redis
  <2>4. Coherent => ReadsTruly(next)'
    BY <2>2, <2>3 DEF ReadsTruly, Coherent, KeyExists, MissedDrop
  <2>5. next # Idle
    BY <2>2 DEF Idle
  <2>6. QED
    BY <1>1, <2>2, <2>4, <2>5, OneByOneStays
<1>3. ASSUME NEW s \in Sneakers, AddToFavourite(r, s)
      PROVE  OneByOne'
  <2>1. rows' = rows /\ cache' = cache
    BY <1>3 DEF AddToFavourite, redis
  <2>2. CASE Becomes(r, Idle)
    BY <1>1, <2>1, <2>2, OneByOneStays DEF Coherent
  <2>3. CASE Becomes(r, [call |-> "add", pc |-> "insert", sneaker |-> s])
    <3>1. PICK next : next = [call |-> "add", pc |-> "insert", sneaker |-> s]
      OBVIOUS
    <3>2. Coherent => ReadsTruly(next)'
      BY <2>1, <3>1 DEF ReadsTruly, Coherent
    <3>3. next # Idle
      BY <3>1 DEF Idle
    <3>4. QED
      BY <1>1, <2>3, <3>1, <3>2, <3>3, OneByOneStays
  <2>4. QED
    BY <1>3, <2>2, <2>3 DEF AddToFavourite, Return
<1>4. ASSUME NEW s \in Sneakers, RemoveFromFavourite(r, s)
      PROVE  OneByOne'
  <2>1. CASE ChangeRows(r, "remove", "delete", rows \ {s})
    BY <1>1, <2>1, RowsOneByOne
  <2>2. CASE UNCHANGED <<rows, redis, request, faults>>
    BY <1>1, <2>2 DEF OneByOne, ReadsTruly, Coherent, MissedDrop, redis, Quiet
  <2>3. QED
    BY <1>4, <2>1, <2>2 DEF RemoveFromFavourite
<1>5. QED
  BY <1>2, <1>3, <1>4 DEF Call

\* A call that is done with the cache answers with what it has read, or returns.
LEMMA DoneOneByOne ==
  ASSUME TypeOK, OneByOne, NEW r \in Requests, Done(r), rows' = rows,
         NEW q \in ReadingRequest, q = request[r],
         ~met' => ~met /\ q.favourites = rows /\ Coherent'
  PROVE  OneByOne'
<1>1. request[r] # Idle
  BY DEF ReadingRequest, Idle
<1>2. CASE q.call = "get"
  <2>1. PICK next : next = [q EXCEPT !.pc = "reply"] /\ Becomes(r, next)
    BY <1>2 DEF Done, Goes
  <2>2. next.pc = "reply" /\ next.favourites = q.favourites /\ next # Idle
    BY <2>1 DEF ReadingRequest, Idle
  <2>3. ~met' => ReadsTruly(next)'
    BY <2>2 DEF ReadsTruly
  <2>4. QED
    BY <1>1, <2>1, <2>2, <2>3, OneByOneStays
<1>3. CASE q.call # "get"
  BY <1>1, <1>3, OneByOneStays DEF Done, Return
<1>4. QED
  BY <1>2, <1>3

\* The next command of the pipeline is run.
LEMMA PipeOneByOne ==
  ASSUME TypeOK, OneByOne, NEW r \in Requests, NEW pc \in {"sadd", "expire"},
         Goes(r, pc), rows' = rows, NEW q \in ReadingRequest, q = request[r],
         ~met' => ~met /\ q.favourites = rows /\ (pc = "sadd" => cache' = {}) /\ Coherent'
  PROVE  OneByOne'
<1>1. PICK next : next = [q EXCEPT !.pc = pc] /\ Becomes(r, next)
  BY DEF Goes
<1>2. next.pc = pc /\ next.favourites = q.favourites /\ next # Idle /\ request[r] # Idle
  BY <1>1 DEF ReadingRequest, Idle
<1>3. ~met' => ReadsTruly(next)'
  BY <1>2 DEF ReadsTruly
<1>4. QED
  BY <1>1, <1>2, <1>3, OneByOneStays

\* A call that is at work goes on, alone.
LEMMA StepsOneByOne ==
  ASSUME RefreshesAreCovered, TypeOK, OneByOne, NEW r \in Requests, Step(r), UNCHANGED met
  PROVE  OneByOne'
<1>1. /\ request[r] # Idle
      /\ ~met' => ~met /\ ReadsTruly(request[r])
  BY DEF Step, ReadCache, LoadFavourites, SetFavourites, Piped, Answer, InsertFavourite,
         Invalidate, Idle, OneByOne
<1>2. PICK q : q = request[r]
  OBVIOUS
<1>3. CASE ReadCache(r)
  <2>1. PICK result \in {"ok", "error"} :
          IF result = "error" THEN Goes(r, "load")
          ELSE Becomes(r, [q EXCEPT !.pc = "reply", !.favourites = Favourites(cache)])
    BY <1>2, <1>3 DEF ReadCache
  <2>2. PICK next :
          /\ next = IF result = "error" THEN [q EXCEPT !.pc = "load"]
                    ELSE [q EXCEPT !.pc = "reply", !.favourites = Favourites(cache)]
          /\ Becomes(r, next)
    BY <1>2, <2>1 DEF Goes
  <2>3. q \in ReadingRequest /\ q.pc = "smembers" /\ rows' = rows /\ cache' = cache
    BY <1>2, <1>3, ReadingKind DEF ReadCache, redis
  <2>4. /\ next.pc \in {"load", "reply"} /\ next # Idle
        /\ next.pc = "reply" => next.favourites = Favourites(cache)
    BY <2>2, <2>3 DEF ReadingRequest, Idle
  <2>5. ~met' => ReadsTruly(next)'
    BY <1>1, <1>2, <2>3, <2>4, MembersAreRead DEF ReadsTruly, Coherent
  <2>6. QED
    BY <1>1, <2>2, <2>4, <2>5, OneByOneStays
<1>4. CASE LoadFavourites(r)
  <2>1. PICK result \in {"ok", "error"} :
          /\ Ends("load", result)
          /\ IF result = "error" THEN Return(r)
             ELSE Becomes(r, [q EXCEPT !.pc = "del", !.favourites = rows])
    BY <1>2, <1>4 DEF LoadFavourites
  <2>2. q \in ReadingRequest /\ q.pc = "load" /\ rows' = rows /\ cache' = cache
    BY <1>2, <1>4, ReadingKind DEF LoadFavourites, redis
  <2>3. CASE result = "error"
    <3>1. ~MissedDrop
      BY <2>1, <2>3, FaultAssumption DEF RefreshesAreCovered, MissedDrop, Ends, Fault, TypeOK
    <3>2. ~met' => Coherent'
      BY <1>1, <1>2, <2>2, <3>1 DEF ReadsTruly, Coherent
    <3>3. QED
      BY <1>1, <2>1, <2>3, <3>2, OneByOneStays DEF Return
  <2>4. CASE result = "ok"
    <3>1. PICK next : next = [q EXCEPT !.pc = "del", !.favourites = rows] /\ Becomes(r, next)
      BY <2>1, <2>4
    <3>2. next.pc = "del" /\ next.favourites = rows /\ next # Idle
      BY <2>2, <3>1 DEF ReadingRequest, Idle
    <3>3. MissedDrop' = MissedDrop
      BY <2>1, <2>4 DEF Ends, MissedDrop
    <3>4. ~met' => ReadsTruly(next)'
      BY <1>1, <1>2, <2>2, <3>2, <3>3 DEF ReadsTruly, Coherent
    <3>5. QED
      BY <1>1, <3>1, <3>2, <3>4, OneByOneStays
  <2>5. QED
    BY <2>3, <2>4
<1>5. CASE SetFavourites(r)
  <2>1. CASE Piped(r, "del", Del, "sadd")
    <3>1. PICK result \in Results :
            /\ Ends("del", result)
            /\ Runs(result, Del)
            /\ IF result = "ok" THEN Goes(r, "sadd") ELSE Done(r)
      BY <2>1 DEF Piped
    <3>2. q.pc = "del" /\ q \in ReadingRequest /\ rows' = rows
      BY <1>2, <2>1, ReadingKind DEF Piped
    <3>3. ~met' => ~met /\ q.favourites = rows /\ (Coherent \/ MissedDrop)
      BY <1>1, <1>2, <3>2 DEF ReadsTruly
    <3>4. CASE result = "error"
      <4>1. ~MissedDrop
        BY <3>1, <3>4, FaultAssumption
           DEF RefreshesAreCovered, MissedDrop, Ends, Fault, TypeOK
      <4>2. cache' = cache
        BY <3>1, <3>4 DEF Runs, redis
      <4>3. ~met' => Coherent'
        BY <3>2, <3>3, <4>1, <4>2 DEF Coherent
      <4>4. QED
        BY <1>2, <3>1, <3>2, <3>3, <3>4, <4>3, DoneOneByOne
    <3>5. CASE result # "error"
      <4>1. cache' = {}
        BY <3>1, <3>5 DEF Runs, Del
      <4>2. Coherent'
        BY <4>1 DEF Coherent
      <4>3. QED
        BY <1>2, <3>1, <3>2, <3>3, <4>1, <4>2, DoneOneByOne, PipeOneByOne
    <3>6. QED
      BY <3>4, <3>5
  <2>2. CASE Piped(r, "sadd", SAdd(Members(request[r].favourites)), "expire")
    <3>1. PICK result \in Results :
            /\ Runs(result, SAdd(Members(q.favourites)))
            /\ IF result = "ok" THEN Goes(r, "expire") ELSE Done(r)
      BY <1>2, <2>2 DEF Piped
    <3>2. q.pc = "sadd" /\ q \in ReadingRequest /\ rows' = rows
      BY <1>2, <2>2, ReadingKind DEF Piped
    <3>3. ~met' => ~met /\ q.favourites = rows /\ cache = {}
      BY <1>1, <1>2, <3>2 DEF ReadsTruly
    <3>4. ~met' => cache' \in {{}, Members(rows)}
      BY <3>1, <3>3 DEF Runs, SAdd, redis
    <3>5. ~met' => Coherent'
      BY <3>2, <3>4 DEF Coherent, Members
    <3>6. QED
      BY <1>2, <3>1, <3>2, <3>3, <3>5, DoneOneByOne, PipeOneByOne
  <2>3. CASE Piped(r, "expire", Expire, "done")
    <3>1. Done(r) /\ cache' = cache
      BY <2>3 DEF Piped, Runs, Expire, redis
    <3>2. q.pc = "expire" /\ q \in ReadingRequest /\ rows' = rows
      BY <1>2, <2>3, ReadingKind DEF Piped
    <3>3. ~met' => ~met /\ q.favourites = rows /\ Coherent
      BY <1>1, <1>2, <3>2 DEF ReadsTruly
    <3>4. QED
      BY <1>2, <3>1, <3>2, <3>3, DoneOneByOne DEF Coherent
  <2>4. QED
    BY <1>5, <2>1, <2>2, <2>3 DEF SetFavourites
<1>6. CASE Answer(r)
  BY <1>1, <1>2, <1>6, OneByOneStays DEF Answer, Return, ReadsTruly, Coherent, redis
<1>7. CASE InsertFavourite(r)
  <2>1. ~met' => Coherent
    BY <1>1, <1>7 DEF InsertFavourite, ReadsTruly
  <2>2. ChangeRows(r, "add", "insert", rows \union {request[r].sneaker})
    BY <1>7 DEF InsertFavourite
  <2>3. QED
    BY <1>1, <2>1, <2>2, RowsOneByOne
<1>8. CASE Invalidate(r)
  <2>1. q \in ReadingRequest
    BY <1>2, <1>8, ReadingKind DEF Invalidate
  <2>2. PICK next : next = [q EXCEPT !.pc = "load"] /\ Becomes(r, next)
    BY <1>2, <1>8 DEF Invalidate, Goes
  <2>3. next.pc = "load" /\ next # Idle
    BY <2>1, <2>2 DEF ReadingRequest, Idle
  <2>4. PICK result \in Results : Ends("invalidate", result) /\ Runs(result, Del)
    BY <1>8 DEF Invalidate
  <2>5. CASE result = "error"
    <3>1. MissedDrop'
      BY <2>4, <2>5, FaultAssumption DEF MissedDrop, Ends, Fault, TypeOK
    <3>2. ReadsTruly(next)'
      BY <2>3, <3>1 DEF ReadsTruly
    <3>3. QED
      BY <1>1, <2>2, <2>3, <3>2, OneByOneStays
  <2>6. CASE result # "error"
    <3>1. cache' = {}
      BY <2>4, <2>6 DEF Runs, Del
    <3>2. QED
      BY <1>1, <2>2, <2>3, <3>1, OneByOneStays DEF ReadsTruly, Coherent
  <2>7. QED
    BY <2>5, <2>6
<1>9. QED
  BY <1>3, <1>4, <1>5, <1>6, <1>7, <1>8 DEF Step

\* The key expires between two calls, or a call has met it.
LEMMA ExpiryOneByOne ==
  ASSUME OneByOne, KeyExpires
  PROVE  OneByOne'
<1>1. ~met' => ~met /\ Quiet
  BY DEF KeyExpires, Meets
<1>2. cache' = {} /\ request' = request
  BY DEF KeyExpires, Del
<1>3. QED
  BY <1>1, <1>2 DEF OneByOne, Quiet, Coherent

\* As long as calls come one after the other, GetFavourites answers with all the
\* favourites and no others, whichever errors there are that leave each refresh one
\* way to keep the cache from being wrong (refreshCache drops the key before it loads
\* the rows).
THEOREM AnswersAreTrue ==
  ASSUME RefreshesAreCovered
  PROVE  Spec => []AnswersAreComplete
<1>1. Init => OneByOne
  BY DEF Init, OneByOne, Coherent
<1>2. TypeOK /\ OneByOne /\ [Next]_vars => OneByOne'
  <2>1. ASSUME TypeOK, OneByOne, UNCHANGED vars
        PROVE  OneByOne'
    BY <2>1 DEF OneByOne, ReadsTruly, Coherent, MissedDrop, Quiet, vars, redis
  <2>2. QED
    BY <2>1, CallsOneByOne, StepsOneByOne, ExpiryOneByOne DEF Next
<1>3. OneByOne => AnswersAreComplete
  BY DEF OneByOne, AnswersAreComplete, ReadsTruly, At
<1>4. QED
  BY <1>1, <1>2, <1>3, TypeCorrect, PTL DEF Spec
=============================================================================
