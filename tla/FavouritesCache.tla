--------------------------- MODULE FavouritesCache ---------------------------
(***************************************************************************)
(* The favourites service for one user: the rows in PostgreSQL, their copy *)
(* in a Redis set, and the requests that read and write both. A user's     *)
(* requests touch no other user's rows or key.                             *)
(*                                                                         *)
(* Redis has no empty sets: the key exists when the set has a member, and  *)
(* a user without favourites is cached as the set of the sentinel.         *)
(***************************************************************************)
EXTENDS Faults, ServiceCalls

CONSTANTS
  Sneakers,  \* the sneakers that may be favourites
  MayExpire  \* may the key reach its TTL?

Operations == {"get", "add", "remove"}

\* The member of a cached set that stands for no favourites.
Sentinel == "__empty__"

ASSUME CallAssumption == Calls \subseteq Operations /\ MaxCalls \in Nat
ASSUME FaultAssumption == MayExpire \in BOOLEAN /\ MaxFaults \in Nat
ASSUME SneakerAssumption == Sentinel \notin Sneakers

VARIABLES
  rows,   \* the sneakers in favourites_items
  cache,  \* the set in Redis
  ttl,    \* does its key have an expiry?
  met     \* history: has a call begun, or the key expired, during another call?

redis == <<cache, ttl>>
vars == <<rows, redis, met, request, calls, faults>>

\* A call that reads and fills the cache, with the favourites it has read.
ReadingRequest ==
  [call : Operations, favourites : SUBSET Sneakers,
   pc : {"smembers", "invalidate", "load", "del", "sadd", "expire", "reply"}]

\* An AddToFavourite call that found no row.
NewRequest == [call : {"add"}, pc : {"insert"}, sneaker : Sneakers]

RequestStates == {Idle} \union ReadingRequest \union NewRequest

TypeOK ==
  /\ rows \subseteq Sneakers
  /\ cache \subseteq Sneakers \union {Sentinel}
  /\ ttl \in BOOLEAN
  /\ met \in BOOLEAN
  /\ request \in [Requests -> RequestStates]
  /\ calls \in 0..MaxCalls
  /\ faults \in 0..MaxFaults

Init ==
  /\ rows = {}
  /\ cache = {}
  /\ ttl = FALSE
  /\ met = FALSE
  /\ request = [r \in Requests |-> Idle]
  /\ calls = 0
  /\ faults = 0

-----------------------------------------------------------------------------
(* Redis.                                                                  *)

KeyExists == cache # {}

\* Mutant: the call is left out.
Skip == UNCHANGED redis

Del == cache' = {} /\ ttl' = FALSE

\* Members are added to those that are there, and leave the expiry as it is.
SAdd(members) == cache' = cache \union members /\ UNCHANGED ttl

Expire == ttl' = KeyExists /\ UNCHANGED cache

Meets == met' = (met \/ ~Quiet)

KeyExpires ==
  /\ MayExpire
  /\ ttl
  /\ Del
  /\ Meets
  /\ UNCHANGED <<rows, request, calls, faults>>

\* A Redis command that ends with the given result.
Runs(result, command) == IF result = "error" THEN UNCHANGED redis ELSE command

\* How favourites are written to the set, and read from it.
Members(favourites) == IF favourites = {} THEN {Sentinel} ELSE favourites

\* Mutant: the sentinel is not left out.
EveryMember(members) == members

Favourites(members) == members \ {Sentinel}

-----------------------------------------------------------------------------
(* GetAllFavourites: the cached set if the key exists, else the rows, and  *)
(* then a new copy of them in the cache. Any error of the cache is a miss. *)

Reads(r, call, pc) == Becomes(r, [call |-> call, pc |-> pc, favourites |-> {}])

GetAllFavourites(r) ==
  /\ Starts(r, "get")
  /\ \E result \in {"ok", "error"} :
       /\ Ends("exists", result)
       /\ Reads(r, "get", IF result = "ok" /\ KeyExists THEN "smembers" ELSE "load")
  /\ UNCHANGED <<rows, redis>>

\* The set is read after the check of its key, and is empty if the key is gone.
ReadCache(r) ==
  /\ request[r].pc = "smembers"
  /\ \E result \in {"ok", "error"} :
       /\ Ends("smembers", result)
       /\ IF result = "error" THEN Goes(r, "load")
          ELSE Becomes(r, [request[r] EXCEPT !.pc = "reply",
                             !.favourites = Favourites(cache)])
  /\ UNCHANGED <<rows, redis, calls>>

\* The rows, for GetAllFavourites and for the refresh after a change.
LoadFavourites(r) ==
  /\ request[r].pc = "load"
  /\ \E result \in {"ok", "error"} :
       /\ Ends("load", result)
       /\ IF result = "error" THEN Return(r)
          ELSE Becomes(r, [request[r] EXCEPT !.pc = "del", !.favourites = rows])
  /\ UNCHANGED <<rows, redis, calls>>

\* A call that is done with the cache: GetAllFavourites answers, others return.
Done(r) == IF request[r].call = "get" THEN Goes(r, "reply") ELSE Return(r)

\* SetFavourites pipelines three commands, between which those of others may come.
\* When the connection breaks the rest is not run. The error is only logged.
Piped(r, pc, command, next) ==
  /\ request[r].pc = pc
  /\ \E result \in Results :
       /\ Ends(pc, result)
       /\ Runs(result, command)
       /\ IF result = "ok" /\ next # "done" THEN Goes(r, next) ELSE Done(r)
  /\ UNCHANGED <<rows, calls>>

SetFavourites(r) ==
  \/ Piped(r, "del", Del, "sadd")
  \/ Piped(r, "sadd", SAdd(Members(request[r].favourites)), "expire")
  \/ Piped(r, "expire", Expire, "done")

Answer(r) ==
  /\ request[r].pc = "reply"
  /\ Return(r)
  /\ UNCHANGED <<rows, redis, calls, faults>>

-----------------------------------------------------------------------------
(* AddToFavourite and RemoveFromFavourite: the row, and then refreshCache. *)

\* A sneaker that is a favourite already is left alone, and so is the cache.
AddToFavourite(r, s) ==
  /\ Starts(r, "add")
  /\ \E result \in {"ok", "error"} :
       /\ Ends("check", result)
       /\ IF result = "error" \/ s \in rows THEN Return(r)
          ELSE Becomes(r, [call |-> "add", pc |-> "insert", sneaker |-> s])
  /\ UNCHANGED <<rows, redis>>

\* The rows change to `changed`; without an error the cache is refreshed.
ChangeRows(r, call, step, changed) ==
  /\ \E result \in Results :
       /\ Ends(step, result)
       /\ rows' = IF result = "error" THEN rows ELSE changed
       /\ IF result = "ok" THEN Reads(r, call, "invalidate") ELSE Return(r)
  /\ UNCHANGED redis

\* ON CONFLICT DO NOTHING: a row that another call has inserted is no error.
InsertFavourite(r) ==
  /\ request[r].pc = "insert"
  /\ ChangeRows(r, "add", "insert", rows \union {request[r].sneaker})
  /\ UNCHANGED calls

\* Mutant: the row is deleted and the cache is not refreshed.
RemoveRowOnly(r, s) ==
  /\ Starts(r, "remove")
  /\ rows' = rows \ {s}
  /\ UNCHANGED <<redis, request, faults>>

\* A sneaker that is no favourite is an error.
RemoveFromFavourite(r, s) ==
  /\ Starts(r, "remove")
  /\ IF s \in rows THEN ChangeRows(r, "remove", "delete", rows \ {s})
     ELSE UNCHANGED <<rows, redis, request, faults>>

\* refreshCache first drops the key; an error is only logged.
Invalidate(r) ==
  /\ request[r].pc = "invalidate"
  /\ \E result \in Results :
       /\ Ends("invalidate", result)
       /\ Runs(result, Del)
  /\ Goes(r, "load")
  /\ UNCHANGED <<rows, calls>>

-----------------------------------------------------------------------------
Call(r) ==
  \/ GetAllFavourites(r)
  \/ \E s \in Sneakers : AddToFavourite(r, s) \/ RemoveFromFavourite(r, s)

Step(r) ==
  \/ ReadCache(r) \/ LoadFavourites(r) \/ SetFavourites(r) \/ Answer(r)
  \/ InsertFavourite(r) \/ Invalidate(r)

Next ==
  \/ \E r \in Requests : (Call(r) /\ Meets) \/ (Step(r) /\ UNCHANGED met)
  \/ KeyExpires

Spec == Init /\ [][Next]_vars

\* Requests run on and Redis expires what has an expiry. Nobody has to call.
Fairness ==
  /\ \A r \in Requests : WF_vars(Step(r) /\ UNCHANGED met)
  /\ WF_vars(KeyExpires)

FairSpec == Spec /\ Fairness

-----------------------------------------------------------------------------
(* What must hold.                                                         *)

\* As long as calls come one after the other, GetFavourites answers with all the
\* favourites and no others ("GetFavourites | all favourites of the user", README.md
\* of the service), whatever fails and whenever the key expires in between.
AnswersAreComplete ==
  \A r \in Requests :
    ~met /\ At(r, "get", "reply") => request[r].favourites = rows

\* A key that no request is busy with has an expiry, so that a stale copy is
\* forgotten in time (SetFavourites ends with EXPIRE).
CachedIsBounded == Quiet /\ KeyExists => ttl

\* However requests, errors and expiry overlap, once calls stop the cached set is
\* that of the rows, or there is none.
EventuallyCoherent == <>[](cache \in {{}, Members(rows)})
=============================================================================
