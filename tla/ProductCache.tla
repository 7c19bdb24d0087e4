----------------------------- MODULE ProductCache -----------------------------
(***************************************************************************)
(* The product service: the sneakers in PostgreSQL, and two kinds of keys  *)
(* in Redis: L1 holds a sneaker, L2 a page of the list of all of them.     *)
(* What can change of a sneaker is its image. A value is cached together   *)
(* with its expiry, in one command.                                        *)
(***************************************************************************)
EXTENDS Faults, ServiceCalls, FiniteSets

CONSTANTS
  MaxId,   \* bound on the ids, which are given in order and never again
  Images,  \* image keys, the empty one of a new sneaker included
  Blank,   \* the empty image key
  Pages    \* the pages asked for: a limit and an offset

Operations == {"get", "list", "add", "delete", "update"}

Absent == "absent"

ASSUME CallAssumption == Calls \subseteq Operations /\ MaxCalls \in Nat
ASSUME FaultAssumption == MaxFaults \in Nat
ASSUME ImageAssumption == Blank \in Images /\ Absent \notin Images
ASSUME PageAssumption ==
  MaxId \in Nat /\ Pages \subseteq [limit : Nat \ {0}, offset : Nat]

VARIABLES
  rows,    \* the image of each sneaker, Absent without a row
  issued,  \* the number of ids given
  l1,      \* the cached sneakers
  l2,      \* the cached pages
  exposed  \* history: may the cache be wrong, since two calls met, an
           \* invalidation failed, or a change was reported as an error?

table == <<rows, issued>>
redis == <<l1, l2>>
vars == <<table, redis, exposed, request, calls, faults>>

Ids == 1..MaxId
Sneakers == Images \union {Absent}

\* A listing maps the ids of a page to their sneakers, in the order of the ids. An
\* empty one is never cached, and stands for a key that is not there.
Listings == UNION {[S -> Images] : S \in SUBSET Ids}
NoListing == [i \in {} |-> Absent]

\* A GetSneakerByID call; only a sneaker that has a row is cached.
GetRequest ==
  [call : {"get"}, pc : {"load", "reply"}, id : Ids, sneaker : Sneakers]
    \union [call : {"get"}, pc : {"set"}, id : Ids, sneaker : Images]
ListRequest ==
  [call : {"list"}, pc : {"load", "set", "reply"}, page : Pages, listing : Listings]
ChangeRequest ==
  [call : {"add", "delete", "update"}, pc : {"l1", "scan", "l2"}, id : Ids,
   left : SUBSET Pages]

RequestStates == {Idle} \union GetRequest \union ListRequest \union ChangeRequest

TypeOK ==
  /\ rows \in [Ids -> Sneakers]
  /\ issued \in 0..MaxId
  /\ l1 \in [Ids -> Sneakers]
  /\ l2 \in [Pages -> Listings]
  /\ exposed \in BOOLEAN
  /\ request \in [Requests -> RequestStates]
  /\ calls \in 0..MaxCalls
  /\ faults \in 0..MaxFaults

Init ==
  /\ rows = [i \in Ids |-> Absent]
  /\ issued = 0
  /\ l1 = [i \in Ids |-> Absent]
  /\ l2 = [p \in Pages |-> NoListing]
  /\ exposed = FALSE
  /\ request = [r \in Requests |-> Idle]
  /\ calls = 0
  /\ faults = 0

\* Redis may expire every key: each has been set with a TTL.
SneakerExpires(i) ==
  /\ l1[i] # Absent
  /\ l1' = [l1 EXCEPT ![i] = Absent]
  /\ UNCHANGED <<table, l2, exposed, request, calls, faults>>

PageExpires(p) ==
  /\ l2[p] # NoListing
  /\ l2' = [l2 EXCEPT ![p] = NoListing]
  /\ UNCHANGED <<table, l1, exposed, request, calls, faults>>

\* The cache may be wrong from now on, or a call has met another one.
Exposes(wrong) == exposed' = (exposed \/ wrong)

Meets == Exposes(~Quiet)

-----------------------------------------------------------------------------
(* GetSneakerByID and GetAllSneakers: the cached value, or that of the     *)
(* table and then a copy of it in the cache. Any error of the cache is a   *)
(* miss.                                                                   *)

\* ORDER BY id LIMIT limit OFFSET offset
PageOf(p) ==
  LET before(i) == Cardinality({j \in Ids : j < i /\ rows[j] # Absent})
      shown == {i \in Ids : /\ rows[i] # Absent
                            /\ before(i) >= p.offset
                            /\ before(i) < p.offset + p.limit}
  IN [i \in shown |-> rows[i]]

GetSneakerByID(r, i) ==
  /\ Starts(r, "get")
  /\ \E result \in {"ok", "error"} :
       /\ Ends("get", result)
       /\ Becomes(r, [call |-> "get", id |-> i, sneaker |-> l1[i],
                      pc |-> IF result = "ok" /\ l1[i] # Absent THEN "reply" ELSE "load"])
  /\ Meets
  /\ UNCHANGED <<table, redis>>

\* Mutant: that there is no row is cached too.
LoadAnySneaker(r) ==
  /\ At(r, "get", "load")
  /\ Becomes(r, [request[r] EXCEPT !.sneaker = rows[request[r].id], !.pc = "set"])
  /\ UNCHANGED <<table, redis, exposed, calls, faults>>

\* A sneaker that has no row is answered with NotFound, and not cached.
LoadSneaker(r) ==
  /\ At(r, "get", "load")
  /\ \E result \in {"ok", "error"} :
       /\ Ends("load", result)
       /\ LET sneaker == rows[request[r].id]
          IN IF result = "error" THEN Return(r)
             ELSE Becomes(r, [request[r] EXCEPT !.sneaker = sneaker,
                                !.pc = IF sneaker = Absent THEN "reply" ELSE "set"])
  /\ UNCHANGED <<table, redis, exposed, calls>>

SetSneaker(r) ==
  /\ At(r, "get", "set")
  /\ \E result \in Results :
       /\ Ends("set", result)
       /\ l1' = IF result = "error" THEN l1
                ELSE [l1 EXCEPT ![request[r].id] = request[r].sneaker]
  /\ Goes(r, "reply")
  /\ UNCHANGED <<table, l2, exposed, calls>>

GetAllSneakers(r, p) ==
  /\ Starts(r, "list")
  /\ \E result \in {"ok", "error"} :
       /\ Ends("get", result)
       /\ Becomes(r, [call |-> "list", page |-> p, listing |-> l2[p],
                      pc |-> IF result = "ok" /\ l2[p] # NoListing THEN "reply"
                             ELSE "load"])
  /\ Meets
  /\ UNCHANGED <<table, redis>>

LoadPage(r) ==
  /\ At(r, "list", "load")
  /\ \E result \in {"ok", "error"} :
       /\ Ends("load", result)
       /\ LET listing == PageOf(request[r].page)
          IN IF result = "error" THEN Return(r)
             ELSE Becomes(r, [request[r] EXCEPT !.listing = listing,
                                !.pc = IF listing = NoListing THEN "reply" ELSE "set"])
  /\ UNCHANGED <<table, redis, exposed, calls>>

SetPage(r) ==
  /\ At(r, "list", "set")
  /\ \E result \in Results :
       /\ Ends("set", result)
       /\ l2' = IF result = "error" THEN l2
                ELSE [l2 EXCEPT ![request[r].page] = request[r].listing]
  /\ Goes(r, "reply")
  /\ UNCHANGED <<table, l1, exposed, calls>>

Answer(r) ==
  /\ request[r].pc = "reply"
  /\ Return(r)
  /\ UNCHANGED <<table, redis, exposed, calls, faults>>

-----------------------------------------------------------------------------
(* AddSneaker, DeleteSneaker and UpdateProductImage: the row, then the     *)
(* keys. An error of the cache is only logged.                             *)

\* The row of sneaker i becomes `sneaker`; then the call goes on to `pc`.
ChangeRow(r, call, i, sneaker, pc) ==
  \E result \in Results :
    /\ Ends("row", result)
    /\ rows' = IF result = "error" THEN rows ELSE [rows EXCEPT ![i] = sneaker]
    /\ IF result # "ok" THEN Return(r)
       ELSE Becomes(r, [call |-> call, pc |-> pc, id |-> i, left |-> {}])
    /\ Exposes(~Quiet \/ result = "lost")
    /\ UNCHANGED redis

\* An INSERT takes an id also when it fails.
AddSneaker(r) ==
  /\ Starts(r, "add")
  /\ issued < MaxId
  /\ issued' = issued + 1
  /\ ChangeRow(r, "add", issued + 1, Blank, "scan")

DeleteSneaker(r, i) ==
  /\ Starts(r, "delete")
  /\ rows[i] # Absent
  /\ ChangeRow(r, "delete", i, Absent, "l1")
  /\ UNCHANGED issued

\* Mutant: the pages are dropped and the sneaker is not.
UpdateWithoutL1(r, i, image) ==
  /\ Starts(r, "update")
  /\ rows[i] # Absent
  /\ ChangeRow(r, "update", i, image, "scan")
  /\ UNCHANGED issued

\* ValidateImageKey lets no empty key pass.
UpdateProductImage(r, i, image) ==
  /\ Starts(r, "update")
  /\ rows[i] # Absent
  /\ ChangeRow(r, "update", i, image, "l1")
  /\ UNCHANGED issued

DropSneaker(r) ==
  /\ request[r].pc = "l1"
  /\ \E result \in Results :
       /\ Ends("del", result)
       /\ l1' = IF result = "error" THEN l1 ELSE [l1 EXCEPT ![request[r].id] = Absent]
       /\ Exposes(result = "error")
  /\ Goes(r, "scan")
  /\ UNCHANGED <<table, l2, calls>>

\* DeleteByPrefix: SCAN finds every key that is there from its begin to its end, and
\* may find others; what it finds is deleted as it goes. An error ends it.
CachedPages == {p \in Pages : l2[p] # NoListing}

ScanPages(r) ==
  /\ request[r].pc = "scan"
  /\ Becomes(r, [request[r] EXCEPT !.pc = "l2", !.left = CachedPages])
  /\ UNCHANGED <<table, redis, exposed, calls, faults>>

DropPage(r) ==
  /\ request[r].pc = "l2"
  /\ \E result \in Results, p \in request[r].left \union CachedPages :
       /\ Ends("del", result)
       /\ l2' = IF result = "error" THEN l2 ELSE [l2 EXCEPT ![p] = NoListing]
       /\ IF result # "ok" THEN Return(r)
          ELSE Becomes(r, [request[r] EXCEPT !.left = @ \ {p}])
       /\ Exposes(result # "ok")
  /\ UNCHANGED <<table, l1, calls>>

FinishScan(r) ==
  /\ request[r].pc = "l2"
  /\ request[r].left = {}
  /\ Return(r)
  /\ UNCHANGED <<table, redis, exposed, calls, faults>>

-----------------------------------------------------------------------------
Call(r) ==
  \/ \E i \in Ids : GetSneakerByID(r, i) \/ DeleteSneaker(r, i)
  \/ \E p \in Pages : GetAllSneakers(r, p)
  \/ \E i \in Ids, image \in Images \ {Blank} : UpdateProductImage(r, i, image)
  \/ AddSneaker(r)

Step(r) ==
  \/ LoadSneaker(r) \/ SetSneaker(r) \/ LoadPage(r) \/ SetPage(r) \/ Answer(r)
  \/ DropSneaker(r) \/ ScanPages(r) \/ DropPage(r) \/ FinishScan(r)

Expires == (\E i \in Ids : SneakerExpires(i)) \/ (\E p \in Pages : PageExpires(p))

Next ==
  \/ \E r \in Requests : Call(r) \/ Step(r)
  \/ Expires

Spec == Init /\ [][Next]_vars

-----------------------------------------------------------------------------
(* What must hold.                                                         *)

\* As long as calls come one after the other and the keys of what changes can be
\* dropped, GetSneakerByID and GetAllSneakers answer with what the table holds, from
\* whichever level of the cache, after any additions, deletions and new images, and
\* whatever else fails ("get a product by id (L1 cache)", "list with pagination (L2
\* cache)", README.md of the service).
AnswersAreCurrent ==
  \A r \in Requests :
    ~exposed =>
      /\ At(r, "get", "reply") => request[r].sneaker = rows[request[r].id]
      /\ At(r, "list", "reply") => request[r].listing = PageOf(request[r].page)
=============================================================================
