------------------------------ MODULE CartCache ------------------------------
(***************************************************************************)
(* The cart service for one user: the cart in PostgreSQL, its copy in a    *)
(* Redis hash, and the requests that read and write both (cache aside). A  *)
(* user's requests touch no other user's rows or key.                      *)
(*                                                                         *)
(* A cart maps its items to their quantities, 0 for an item that is not in *)
(* it. Redis has no empty hashes: the key exists when the hash has a field.*)
(***************************************************************************)
EXTENDS Faults, ServiceCalls

CONSTANTS
  Items,        \* ids of cart items; an inserted row gets one never given before
  MaxQuantity,  \* bound on quantities, which the handlers want positive
  MayExpire     \* may the key reach its TTL?

Operations == {"get", "add", "update", "remove", "clear"}

ASSUME CallAssumption ==
  /\ Calls \subseteq Operations
  /\ MaxCalls \in Nat
  /\ MaxQuantity \in Nat \ {0}
ASSUME FaultAssumption ==
  /\ MayExpire \in BOOLEAN
  /\ MaxFaults \in Nat

VARIABLES
  rows,     \* the cart in cart_items
  hasCart,  \* does the user have a row in carts?
  issued,   \* the ids given to rows so far
  cache,    \* the hash in Redis
  ttl       \* does its key have an expiry?

table == <<rows, hasCart, issued>>
redis == <<cache, ttl>>
vars == <<table, redis, request, calls, faults>>

Quantities == 1..MaxQuantity
Carts == [Items -> 0..MaxQuantity]
Empty == [i \in Items |-> 0]
In(cart) == {i \in Items : cart[i] # 0}

\* A GetCart call, with the cart it has read and the items left to cache.
GetRequest ==
  [call : {"get"}, pc : {"hgetall", "load", "del", "fill", "reply"}, cart : Carts,
   left : SUBSET Items]

\* An AddToCart call, before and after it has an item id.
NewRequest ==
  [call : {"add"}, pc : {"insert", "failed"}, quantity : Quantities, found : BOOLEAN]
AddRequest ==
  [call : {"add"}, pc : {"hset", "expire", "invalidate"}, item : Items,
   quantity : Quantities]

UpdateRequest ==
  [call : {"update"}, pc : {"hget", "hset", "invalidate"}, item : Items,
   quantity : Quantities]
RemoveRequest == [call : {"remove"}, pc : {"hdel", "invalidate"}, item : Items]
ClearRequest == [call : {"clear"}, pc : {"invalidate"}]

RequestStates ==
  {Idle} \union GetRequest \union NewRequest \union AddRequest \union UpdateRequest
    \union RemoveRequest \union ClearRequest

TypeOK ==
  /\ rows \in Carts
  /\ hasCart \in BOOLEAN
  /\ issued \subseteq Items
  /\ cache \in Carts
  /\ ttl \in BOOLEAN
  /\ request \in [Requests -> RequestStates]
  /\ calls \in 0..MaxCalls
  /\ faults \in 0..MaxFaults

Init ==
  /\ rows = Empty
  /\ hasCart = FALSE
  /\ issued = {}
  /\ cache = Empty
  /\ ttl = FALSE
  /\ request = [r \in Requests |-> Idle]
  /\ calls = 0
  /\ faults = 0

-----------------------------------------------------------------------------
(* Redis: fields appear and vanish one by one, a key without fields is no  *)
(* key, and a key that comes into being has no expiry.                     *)

KeyExists == cache # Empty

Del == cache' = Empty /\ ttl' = FALSE

\* Mutant: HIncrBy in place of HSet.
HIncrBy(i, quantity) == cache' = [cache EXCEPT ![i] = @ + quantity] /\ UNCHANGED ttl

HSet(i, quantity) == cache' = [cache EXCEPT ![i] = quantity] /\ UNCHANGED ttl

HDel(i) ==
  /\ cache' = [cache EXCEPT ![i] = 0]
  /\ ttl' = (ttl /\ cache' # Empty)

\* Mutant: the call is left out.
NoExpire == UNCHANGED redis

Expire == ttl' = KeyExists /\ UNCHANGED cache

\* The key reaches its TTL.
KeyExpires ==
  /\ MayExpire
  /\ ttl
  /\ Del
  /\ UNCHANGED <<table, request, calls, faults>>

\* A Redis command that ends with the given result.
Runs(result, command) == IF result = "error" THEN UNCHANGED redis ELSE command

-----------------------------------------------------------------------------
(* GetCart: the cached cart if the key exists, else the rows, and then a   *)
(* new copy of them in the cache. Any error of the cache is a miss.        *)

GetCart(r) ==
  /\ Starts(r, "get")
  /\ \E result \in {"ok", "error"} :
       /\ Ends("exists", result)
       /\ Becomes(r, [call |-> "get", cart |-> Empty, left |-> {},
                      pc |-> IF result = "ok" /\ KeyExists THEN "hgetall" ELSE "load"])
  /\ UNCHANGED <<table, redis>>

\* The hash is read after the check of its key, and is empty if the key is gone.
ReadCache(r) ==
  /\ At(r, "get", "hgetall")
  /\ \E result \in {"ok", "error"} :
       /\ Ends("hgetall", result)
       /\ IF result = "error" THEN Goes(r, "load")
          ELSE Becomes(r, [request[r] EXCEPT !.pc = "reply", !.cart = cache])
  /\ UNCHANGED <<table, redis, calls>>

LoadCart(r) ==
  /\ At(r, "get", "load")
  /\ \E result \in {"ok", "error"} :
       /\ Ends("load", result)
       /\ IF result = "error" THEN Return(r)
          ELSE Becomes(r, [request[r] EXCEPT !.pc = "del", !.cart = rows])
  /\ UNCHANGED <<table, redis, calls>>

\* SetCart: the key is deleted, then each item set, in the order of the query's
\* rows, which is any order. An error ends it and is only logged.
DropCached(r) ==
  /\ At(r, "get", "del")
  /\ \E result \in Results :
       /\ Ends("del", result)
       /\ Runs(result, Del)
       /\ Becomes(r, [request[r] EXCEPT !.left = In(request[r].cart),
                         !.pc = IF result = "ok" THEN "fill" ELSE "reply"])
  /\ UNCHANGED <<table, calls>>

FillItem(r) ==
  /\ At(r, "get", "fill")
  /\ \E result \in Results, i \in request[r].left :
       /\ Ends("fill", result)
       /\ Runs(result, HSet(i, request[r].cart[i]))
       /\ Becomes(r, [request[r] EXCEPT !.left = @ \ {i},
                         !.pc = IF result = "ok" THEN "fill" ELSE "reply"])
  /\ UNCHANGED <<table, calls>>

FillExpiry(r) ==
  /\ At(r, "get", "fill")
  /\ request[r].left = {}
  /\ \E result \in Results :
       /\ Ends("fill", result)
       /\ Runs(result, Expire)
       /\ Goes(r, "reply")
  /\ UNCHANGED <<table, calls>>

\* The answer of GetCart, or the error of AddToCart.
Answer(r) ==
  /\ At(r, "get", "reply") \/ At(r, "add", "failed")
  /\ Return(r)
  /\ UNCHANGED <<table, redis, calls, faults>>

-----------------------------------------------------------------------------
(* AddToCart: a transaction that creates the cart if the user has none and *)
(* inserts a row, then the item is added to the cached cart.               *)

AddToCart(r, quantity) ==
  /\ Starts(r, "add")
  /\ \E result \in {"ok", "error"} :
       /\ Ends("check", result)
       /\ Becomes(r, [call |-> "add", quantity |-> quantity, found |-> hasCart,
                      pc |-> IF result = "ok" THEN "insert" ELSE "failed"])
  /\ UNCHANGED <<table, redis>>

\* A cart that another call has created since the check breaks the primary key
\* of carts, and with it the transaction; so does running out of ids.
RefuseItem(r) ==
  /\ At(r, "add", "insert")
  /\ (hasCart /\ ~request[r].found) \/ issued = Items
  /\ Goes(r, "failed")
  /\ UNCHANGED <<table, redis, calls, faults>>

InsertItem(r) ==
  /\ At(r, "add", "insert")
  /\ hasCart => request[r].found
  /\ \E result \in Results, i \in Items \ issued :
       /\ Ends("insert", result)
       /\ IF result = "error" THEN UNCHANGED table
          ELSE /\ hasCart' = TRUE
               /\ rows' = [rows EXCEPT ![i] = request[r].quantity]
               /\ issued' = issued \union {i}
       /\ IF result # "ok" THEN Goes(r, "failed")
          ELSE Becomes(r, [call |-> "add", pc |-> "hset", item |-> i,
                           quantity |-> request[r].quantity])
  /\ UNCHANGED <<redis, calls>>

CacheItem(r) ==
  /\ At(r, "add", "hset")
  /\ \E result \in Results :
       /\ Ends("hset", result)
       /\ Runs(result, HSet(request[r].item, request[r].quantity))
       /\ Goes(r, IF result = "ok" THEN "expire" ELSE "invalidate")
  /\ UNCHANGED <<table, calls>>

CacheExpiry(r) ==
  /\ At(r, "add", "expire")
  /\ \E result \in Results :
       /\ Ends("expire", result)
       /\ Runs(result, Expire)
       /\ IF result = "ok" THEN Return(r) ELSE Goes(r, "invalidate")
  /\ UNCHANGED <<table, calls>>

\* The cached cart is dropped when it could not be brought up to date, and
\* always by ClearCart. An error is only logged.
Invalidate(r) ==
  /\ request[r].pc = "invalidate"
  /\ \E result \in Results :
       /\ Ends("invalidate", result)
       /\ Runs(result, Del)
  /\ Return(r)
  /\ UNCHANGED <<table, calls>>

-----------------------------------------------------------------------------
(* UpdateCartItemQuantity, RemoveFromCart and ClearCart: the rows first. A *)
(* row that is not there is an error, and so is a failure to touch the     *)
(* cart's updated_at after the rows have changed: "lost" stands for both.  *)

ChangeRows(r, step, changed, next) ==
  \E result \in Results :
    /\ Ends(step, result)
    /\ rows' = IF result = "error" THEN rows ELSE changed
    /\ IF result = "ok" THEN Becomes(r, next) ELSE Return(r)
    /\ UNCHANGED <<hasCart, issued, redis>>

UpdateQuantity(r, i, quantity) ==
  /\ Starts(r, "update")
  /\ rows[i] # 0
  /\ ChangeRows(r, "update", [rows EXCEPT ![i] = quantity],
                [call |-> "update", pc |-> "hget", item |-> i, quantity |-> quantity])

\* An item that is not cached is taken for an error of the cache.
ReadCachedItem(r) ==
  /\ At(r, "update", "hget")
  /\ \E result \in {"ok", "error"} :
       /\ Ends("hget", result)
       /\ Goes(r, IF result = "ok" /\ cache[request[r].item] # 0
                  THEN "hset" ELSE "invalidate")
  /\ UNCHANGED <<table, redis, calls>>

WriteCachedItem(r) ==
  /\ At(r, "update", "hset")
  /\ \E result \in Results :
       /\ Ends("hset", result)
       /\ Runs(result, HSet(request[r].item, request[r].quantity))
       /\ IF result = "ok" THEN Return(r) ELSE Goes(r, "invalidate")
  /\ UNCHANGED <<table, calls>>

RemoveFromCart(r, i) ==
  /\ Starts(r, "remove")
  /\ rows[i] # 0
  /\ ChangeRows(r, "delete", [rows EXCEPT ![i] = 0],
                [call |-> "remove", pc |-> "hdel", item |-> i])

\* Mutant: the item is removed from the rows only.
KeepCachedItem(r) ==
  /\ At(r, "remove", "hdel")
  /\ Return(r)
  /\ UNCHANGED <<table, redis, calls, faults>>

DropCachedItem(r) ==
  /\ At(r, "remove", "hdel")
  /\ \E result \in Results :
       /\ Ends("hdel", result)
       /\ Runs(result, HDel(request[r].item))
       /\ IF result = "ok" THEN Return(r) ELSE Goes(r, "invalidate")
  /\ UNCHANGED <<table, calls>>

ClearCart(r) ==
  /\ Starts(r, "clear")
  /\ ChangeRows(r, "clear", Empty, [call |-> "clear", pc |-> "invalidate"])

-----------------------------------------------------------------------------
Call(r) ==
  \/ GetCart(r)
  \/ \E quantity \in Quantities : AddToCart(r, quantity)
  \/ \E i \in Items, quantity \in Quantities : UpdateQuantity(r, i, quantity)
  \/ \E i \in Items : RemoveFromCart(r, i)
  \/ ClearCart(r)

Step(r) ==
  \/ ReadCache(r) \/ LoadCart(r) \/ DropCached(r) \/ FillItem(r) \/ FillExpiry(r)
  \/ Answer(r)
  \/ RefuseItem(r) \/ InsertItem(r) \/ CacheItem(r) \/ CacheExpiry(r) \/ Invalidate(r)
  \/ ReadCachedItem(r) \/ WriteCachedItem(r)
  \/ DropCachedItem(r)

Next ==
  \/ \E r \in Requests : Call(r) \/ Step(r)
  \/ KeyExpires

Spec == Init /\ [][Next]_vars

\* Requests run on and Redis expires what has an expiry. Nobody has to call.
Fairness ==
  /\ \A r \in Requests : WF_vars(Step(r))
  /\ WF_vars(KeyExpires)

FairSpec == Spec /\ Fairness

-----------------------------------------------------------------------------
(* What must hold.                                                         *)

\* While nobody changes the cart, GetCart answers with all of it, from the cache
\* or not ("GetCart | get all items of the cart", README.md of the service).
AnswersAreComplete ==
  \A r \in Requests :
    (/\ At(r, "get", "reply")
     /\ \A s \in Requests : request[s] # Idle => request[s].call = "get")
    => request[r].cart = rows

\* A key that no request is busy with has an expiry, so that whatever went wrong
\* with the copy is forgotten in time ("we set a TTL for the cart", redis.go).
CachedIsBounded == Quiet /\ KeyExists => ttl

\* However requests, errors and expiry overlap, once calls stop the cached cart
\* is the cart, or there is none.
EventuallyCoherent == <>[](cache \in {Empty, rows})
=============================================================================
