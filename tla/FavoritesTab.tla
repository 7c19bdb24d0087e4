----------------------------- MODULE FavoritesTab -----------------------------
(***************************************************************************)
(* The favourites that a browser tab shows: FavoritesContext with its list *)
(* of ids and the details of those ids, the gateway's favourites routes,   *)
(* and the rows and their copies in Redis behind them. A call is one step  *)
(* here: its commands, and how calls overlap in the favourites service,    *)
(* are FavouritesCache; here, what they may leave of a user's copy.        *)
(*                                                                         *)
(* A request is what a click or the loading of the page sets going: the    *)
(* change, the ids that are fetched after it, and the details of the ids.  *)
(* Clicks overlap: no button is disabled while an answer is awaited.       *)
(***************************************************************************)
EXTENDS GatewayCalls, FiniteSets

CONSTANTS
  Users,      \* the accounts that log in
  NoToken,    \* localStorage holds no token
  Sneakers,   \* ids of products
  Catalogue,  \* those that have not been deleted since
  BatchLimit  \* how many ids /products/batch takes (maxLimit, 100)

Operations == {"load", "toggle"}

\* The calls that may fail. Where a "load" fails, the gateway says so; where a
\* "connect" fails, there is no answer, or one without a message of the gateway; where
\* a "redis" fails, the reading of a copy does, or what fills it.
Steps == {"write", "load", "redis", "connect", "lookup"}

ASSUME CallAssumption == Calls \subseteq Operations /\ MaxCalls \in Nat
ASSUME FaultAssumption ==
  /\ Failing \subseteq Steps
  /\ Losing \subseteq Steps
  /\ TimingOut \subseteq Steps
  /\ MaxFaults \in Nat
ASSUME RequestAssumption == Requests # {}
ASSUME UserAssumption == NoToken \notin Users
ASSUME CatalogueAssumption == Catalogue \subseteq Sneakers /\ BatchLimit \in Nat

\* The member of a set in Redis that stands for no favourites.
Sentinel == "__empty__"

ASSUME SneakerAssumption == Sentinel \notin Sneakers

VARIABLES
  rows,         \* each user's sneakers in favourites_items
  cached,       \* each user's set in Redis; without members there is no set
  exposed,      \* history: the users whose set may be something else than the rows
  token,        \* whose token localStorage holds
  favoriteIds,  \* the sneakers whose heart is shown as liked
  favorites,    \* the sneakers that the favourites page lists
  loading,      \* does that page say that it is loading,
  error,        \* or that there was an error?
  had,          \* history: the favourites each user has ever had
  met           \* history: may the tab have missed a change, or an exposed set misled it?

service == <<rows, had>>
redis == <<cached, exposed>>
page == <<favoriteIds, favorites, loading, error>>
vars == <<service, redis, token, page, met, request, calls, faults, late>>

-----------------------------------------------------------------------------
(* The calls of the gateway's client, and what the service does with them. *)

AddToFavourites(u, s) == [name |-> "AddToFavourites", user |-> u, sneaker |-> s]

RemoveFromFavourites(u, s) == [name |-> "RemoveFromFavourites", user |-> u, sneaker |-> s]

Changes ==
  [name : {"AddToFavourites", "RemoveFromFavourites"}, user : Users, sneaker : Sneakers]

\* A favourite that is there already is left as it is, without an error.
AddFavourite(c) ==
  /\ c.name = "AddToFavourites"
  /\ rows' = [rows EXCEPT ![c.user] = @ \union {c.sneaker}]
  /\ had' = [had EXCEPT ![c.user] = @ \union {c.sneaker}]

RemoveFavourite(c) ==
  /\ c.name = "RemoveFromFavourites"
  /\ rows' = [rows EXCEPT ![c.user] = @ \ {c.sneaker}]
  /\ UNCHANGED had

Serve(c) == AddFavourite(c) \/ RemoveFavourite(c)

\* No row is affected: an error, also for the second try of a removal.
Refuses(c) == c.name = "RemoveFromFavourites" /\ c.sneaker \notin rows[c.user]

-----------------------------------------------------------------------------
(* The copy of a user's rows in Redis.                                     *)

Members(favourites) == IF favourites = {} THEN {Sentinel} ELSE favourites

\* Mutant: the sentinel is not left out.
EveryMember(members) == members

Favourites(members) == members \ {Sentinel}

SetFavourites(u) ==
  /\ cached' = [cached EXCEPT ![u] = Members(rows'[u])]
  /\ exposed' = exposed \ {u}

\* The set is left as it was, is deleted, is set, or gets the rows in addition: Redis
\* fails a command (which is only logged), the deadline of the call comes between its
\* commands, or commands of others do.
LeavesCopy(u) ==
  /\ \E copy \in {cached[u], {}, Members(rows'[u]), cached[u] \union Members(rows'[u])} :
       cached' = [cached EXCEPT ![u] = copy]
  /\ exposed' = exposed \union {u}

\* Mutant: refreshCache is left out.
ServesRows(c, undisturbed) == Serve(c) /\ UNCHANGED redis

\* The service does what c asks for, and then sets the copy anew; but there is no
\* refresh for a favourite that is there already.
Serves(c, undisturbed) ==
  /\ Serve(c)
  /\ \/ rows' = rows /\ UNCHANGED redis
     \/ rows' # rows /\ undisturbed /\ SetFavourites(c.user)
     \/ rows' # rows /\ LeavesCopy(c.user)

-----------------------------------------------------------------------------
RequestRecords ==
  [call : Operations, user : Users, pc : {"write", "written", "load", "loaded", "lookup"},
   tries : 1..Tries, send : {Idle} \union Changes, ids : SUBSET Sneakers,
   result : {"ok", "error", "silent"}]

TypeOK ==
  /\ rows \in [Users -> SUBSET Sneakers]
  /\ had \in [Users -> SUBSET Sneakers]
  /\ cached \in [Users -> SUBSET (Sneakers \union {Sentinel})]
  /\ exposed \subseteq Users
  /\ token \in Users \union {NoToken}
  /\ favoriteIds \subseteq Sneakers
  /\ favorites \subseteq Sneakers
  /\ loading \in BOOLEAN
  /\ error \in BOOLEAN
  /\ met \in BOOLEAN
  /\ request \in [Requests -> {Idle} \union RequestRecords]
  /\ late \subseteq RequestRecords
  /\ calls \in 0..MaxCalls
  /\ faults \in 0..MaxFaults

\* A page without a token; the users may have favourites of earlier visits, of which
\* Redis has no copy any more.
Init ==
  /\ rows \in [Users -> SUBSET Sneakers]
  /\ had = rows
  /\ cached = [u \in Users |-> {}]
  /\ exposed = {}
  /\ token = NoToken
  /\ favoriteIds = {}
  /\ favorites = {}
  /\ loading = FALSE
  /\ error = FALSE
  /\ met = FALSE
  /\ request = [r \in Requests |-> Idle]
  /\ calls = 0
  /\ faults = 0
  /\ late = {}

-----------------------------------------------------------------------------
(* The page is loaded, and its hearts are clicked.                         *)

StartsLoading == loading' = TRUE /\ error' = FALSE

\* A request of user u that first comes to pc, with the change it asks for.
NewRequest(op, u, pc, send) ==
  [call |-> op, user |-> u, pc |-> pc, tries |-> 1, send |-> send, ids |-> {},
   result |-> "ok"]

\* Mutant: a login goes to the front page without loading it: navigate("/").
LoadKept(u) ==
  /\ calls < MaxCalls
  /\ calls' = calls + 1
  /\ token' = u
  /\ UNCHANGED <<service, redis, page, met, request, faults, late>>

\* The page is loaded with user u's token: u logs in (handleSubmit of the login
\* page), or loads it again. What the old page has in progress is dropped; changes
\* that it has sent may still be done.
Load(u) ==
  /\ calls < MaxCalls
  /\ calls' = calls + 1
  /\ token' = u
  /\ LET first == CHOOSE r \in Requests : TRUE
     IN request' = [r \in Requests |->
                      IF r = first THEN NewRequest("load", u, "load", Idle) ELSE Idle]
  /\ \E sent \in SUBSET {r \in Requests : request[r].pc = "write"} :
       late' = late \union {request[r] : r \in sent}
  /\ favoriteIds' = {}
  /\ favorites' = {}
  /\ StartsLoading
  /\ met' = (late' # {})
  /\ UNCHANGED <<service, redis, faults>>

\* A login that failed: the token is removed, the page stays as it is.
FailLogin ==
  /\ token # NoToken
  /\ calls < MaxCalls
  /\ calls' = calls + 1
  /\ token' = NoToken
  /\ UNCHANGED <<service, redis, page, met, request, faults, late>>

\* toggleFavorite: whether to add or to remove is decided by what is shown.
Toggle(r, s) ==
  /\ token # NoToken
  /\ Starts(r, "toggle")
  /\ IsNext(r)
  /\ Becomes(r, NewRequest("toggle", token, "write",
                           IF s \in favoriteIds THEN RemoveFromFavourites(token, s)
                           ELSE AddToFavourites(token, s)))
  /\ StartsLoading
  /\ met' = (met \/ ~Quiet \/ late # {})
  /\ UNCHANGED <<service, redis, token, favoriteIds, favorites, faults, late>>

-----------------------------------------------------------------------------
(* The gateway and the service.                                            *)

Ended(r, pc, result) == Becomes(r, [request[r] EXCEPT !.pc = pc, !.result = result])

\* Nobody but r is at work.
Alone(r) == late = {} /\ \A s \in Requests \ {r} : request[s] = Idle

\* Handler.AddToFavourites and RemoveFromFavourites, with the tries of the client.
Change(r) ==
  /\ request[r].pc = "write"
  /\ IF Refuses(request[r].send)
     THEN UNCHANGED <<service, redis, faults, late>> /\ Ended(r, "written", "error")
     ELSE Try(r, "write", Serves(request[r].send, Alone(r) /\ faults' = faults),
              UNCHANGED <<service, redis>>,
              LAMBDA result : Ended(r, "written", result))
  /\ UNCHANGED <<token, page, met, calls>>

\* A change that was given up is done after all, or is refused.
ChangeLate(q) ==
  /\ q \in late
  /\ late' = late \ {q}
  /\ IF Refuses(q.send) THEN UNCHANGED <<service, redis>> ELSE Serves(q.send, FALSE)
  /\ met' = TRUE
  /\ UNCHANGED <<token, page, request, calls, faults>>

\* /products/batch: too many ids are refused, of the others those are answered that
\* are in the catalogue.
TooMany(ids) == Cardinality(ids) > BatchLimit

GetSneakersByIDs(ids) == ids \intersect Catalogue

\* r comes to its answer: the ids are shown when it arrives.
Answered(r, ids) ==
  Becomes(r, [request[r] EXCEPT !.pc = "loaded", !.result = "ok", !.ids = ids])

\* Handler.GetAllFavourites, for the user of the token that was sent: the set in Redis,
\* or the rows when there is none, or none any more, or what is left between the check
\* of the key and the reading of its members.
GetAllFavourites(r) ==
  LET u == request[r].user
  IN /\ request[r].pc = "load"
     /\ UNCHANGED <<service, token, page, calls, late>>
     /\ \/ /\ Ends("load", "ok")
           /\ \/ cached[u] # {} /\ UNCHANGED redis /\ Answered(r, Favourites(cached[u]))
              \/ Alone(r) /\ SetFavourites(u) /\ Answered(r, rows[u])
           /\ met' = ((met /\ ~Alone(r)) \/ u \in exposed')
        \/ /\ (~Alone(r) /\ UNCHANGED faults) \/ Ends("redis", "error")
           /\ LeavesCopy(u)
           /\ \E ids \in {rows[u], Favourites(cached'[u])} : Answered(r, ids)
           /\ met' = TRUE
        \/ /\ Ends("load", "error")
           /\ UNCHANGED redis \/ LeavesCopy(u)
           /\ Ended(r, "loaded", "error")
           /\ UNCHANGED met
        \/ /\ Ends("connect", "error")
           /\ UNCHANGED redis \/ LeavesCopy(u)
           /\ Ended(r, "loaded", "silent")
           /\ met' = TRUE

-----------------------------------------------------------------------------
(* FavoritesContext: the answers. An action ends with the effect that the  *)
(* new ids have, which React runs after the answer has been dealt with.    *)

\* fetchFavoriteIds: without a token there are none.
FetchIds(r) ==
  IF token = NoToken
  THEN /\ Return(r)
       /\ favoriteIds' = {}
       /\ favorites' = {}
       /\ loading' = FALSE
       /\ UNCHANGED error
  ELSE /\ Becomes(r, NewRequest(request[r].call, token, "load", Idle))
       /\ StartsLoading
       /\ UNCHANGED <<favoriteIds, favorites>>

\* toggleFavorite: the ids are fetched again, or the error is shown.
ToggleAnswered(r) ==
  /\ request[r].pc = "written"
  /\ IF request[r].result = "ok" THEN FetchIds(r)
     ELSE /\ Return(r)
          /\ loading' = FALSE
          /\ error' = TRUE
          /\ UNCHANGED <<favoriteIds, favorites>>
  /\ UNCHANGED <<service, redis, token, met, calls, faults, late>>

\* Mutant: the list of the page is not emptied with the ids.
ListIsKept(r) ==
  LET ids == IF request[r].result = "ok" THEN request[r].ids ELSE {}
  IN /\ request[r].pc = "loaded"
     /\ favoriteIds' = ids
     /\ IF ids = {}
        THEN /\ Return(r)
             /\ loading' = FALSE
             /\ error' = (IF request[r].result = "ok" THEN error ELSE request[r].result = "error")
        ELSE Ended(r, "lookup", "ok") /\ StartsLoading
     /\ UNCHANGED <<service, redis, token, favorites, met, calls, faults, late>>

\* fetchFavoriteIds, then fetchFavoriteDetails of the ids. Where the answer has no
\* message the error becomes undefined, which is none.
ShowIds(r) ==
  LET q == request[r]
      ids == IF q.result = "ok" THEN q.ids ELSE {}
  IN /\ q.pc = "loaded"
     /\ favoriteIds' = ids
     /\ IF ids = {}
        THEN /\ Return(r)
             /\ favorites' = {}
             /\ loading' = FALSE
             /\ error' = IF q.result = "ok" THEN error ELSE q.result = "error"
        ELSE /\ Ended(r, "lookup", "ok")
             /\ StartsLoading
             /\ UNCHANGED favorites
     /\ UNCHANGED <<service, redis, token, met, calls, faults, late>>

\* Mutant: the loading ends only where the details are shown.
LoadingForever(r) ==
  /\ request[r].pc = "lookup"
  /\ Return(r)
  /\ IF TooMany(request[r].ids)
     THEN favorites' = {} /\ error' = TRUE /\ UNCHANGED loading
     ELSE /\ favorites' = GetSneakersByIDs(request[r].ids)
          /\ loading' = FALSE
          /\ UNCHANGED error
  /\ UNCHANGED <<service, redis, token, favoriteIds, met, calls, faults, late>>

\* fetchFavoriteDetails. What is answered depends on the ids only: the answer is one
\* step with its arrival.
ShowDetails(r) ==
  LET ids == request[r].ids
  IN /\ request[r].pc = "lookup"
     /\ Return(r)
     /\ loading' = FALSE
     /\ \/ /\ ~TooMany(ids)
           /\ Ends("lookup", "ok")
           /\ favorites' = GetSneakersByIDs(ids)
           /\ UNCHANGED error
        \/ /\ \/ TooMany(ids) /\ UNCHANGED faults
              \/ Ends("lookup", "error")
           /\ favorites' = {}
           /\ error' = TRUE
     /\ UNCHANGED <<service, redis, token, favoriteIds, met, calls, late>>

-----------------------------------------------------------------------------
Step(r) ==
  Change(r) \/ ToggleAnswered(r) \/ GetAllFavourites(r) \/ ShowIds(r) \/ ShowDetails(r)

Next ==
  \/ \E u \in Users : Load(u)
  \/ FailLogin
  \/ \E r \in Requests, s \in Sneakers : Toggle(r, s)
  \/ \E r \in Requests : Step(r)
  \/ \E q \in late : ChangeLate(q)

Spec == Init /\ [][Next]_vars

\* A request runs on: calls have deadlines and tries an end. Nobody has to click.
FairSpec == Spec /\ \A r \in Requests : WF_vars(Step(r))

-----------------------------------------------------------------------------
(* What must hold.                                                         *)

\* When a tab awaits no answer, it shows an error, or every heart is what the table
\* holds and the list of the favourites page has those that are in the catalogue
\* (FavoritesContext fetches the ids anew after a change). Excepted are answers that
\* may have come in another order, changes done late, ids that were not answered at
\* all, and ids from an exposed set: one that a change did not refresh because it was
\* given up after its row was written, for example, and that its repetition, which
\* finds the row and returns without an error, does not refresh either (fav.go:78).
PageIsTrue ==
  Quiet /\ token # NoToken /\ ~met =>
    \/ error
    \/ favoriteIds = rows[token] /\ favorites = favoriteIds \intersect Catalogue

\* Whoever is logged in is shown favourites of their own only, whatever the page
\* had in progress for the user before (Login.jsx loads the page anew).
OwnFavourites == token # NoToken => favoriteIds \union favorites \subseteq had[token]

\* The favourites page does not go on loading, whichever calls fail or overlap:
\* four functions of FavoritesContext share one flag.
LoadingEnds == loading ~> ~loading
=============================================================================
