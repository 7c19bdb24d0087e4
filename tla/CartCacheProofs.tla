---------------------------- MODULE CartCacheProofs ----------------------------
(***************************************************************************)
(* Theorems about CartCache, for every set of items, any number of         *)
(* overlapping requests, and any number of errors.                         *)
(***************************************************************************)
EXTENDS CartCache, TLAPS

-----------------------------------------------------------------------------
(* Calls and their faults.                                                 *)

\* How a step ends never takes the fault counter out of its range.
LEMMA EndsCounts ==
  ASSUME MaxFaults \in Nat, faults \in 0..MaxFaults, NEW step, NEW result,
         Ends(step, result)
  PROVE  faults' \in 0..MaxFaults
BY DEF Ends, Fault

\* A new call never takes the call counter out of its range.
LEMMA StartsCounts ==
  ASSUME MaxCalls \in Nat, calls \in 0..MaxCalls, NEW r, NEW call, Starts(r, call)
  PROVE  calls' \in 0..MaxCalls
BY DEF Starts

\* A goroutine that goes on to a state of a set leaves all of them in it.
LEMMA BecomesStays ==
  ASSUME NEW States, request \in [Requests -> States], NEW r \in Requests,
         NEW next \in States, Becomes(r, next)
  PROVE  request' \in [Requests -> States]
BY DEF Becomes

\* A goroutine that goes on is in its new state, and no other one moves.
LEMMA BecomesOnly ==
  ASSUME NEW States, request \in [Requests -> States], NEW r \in Requests, NEW next,
         Becomes(r, next)
  PROVE  /\ request'[r] = next
         /\ \A s \in Requests : s # r => request'[s] = request[s]
BY DEF Becomes

-----------------------------------------------------------------------------
(* Type correctness.                                                       *)

\* The kinds of requests are told by where they are.
LEMMA Kinds ==
  ASSUME TypeOK, NEW r \in Requests
  PROVE  /\ At(r, "get", "hgetall") \/ At(r, "get", "load") \/ At(r, "get", "del")
              \/ At(r, "get", "fill")
            => request[r] \in GetRequest
         /\ At(r, "add", "insert") => request[r] \in NewRequest
         /\ At(r, "add", "hset") \/ At(r, "add", "expire") => request[r] \in AddRequest
         /\ At(r, "update", "hget") \/ At(r, "update", "hset")
            => request[r] \in UpdateRequest
         /\ At(r, "remove", "hdel") => request[r] \in RemoveRequest
<1>1. request[r] \in RequestStates
  BY DEF TypeOK
<1>2. QED
  BY <1>1 DEF RequestStates, At, GetRequest, NewRequest, AddRequest, UpdateRequest,
              RemoveRequest, ClearRequest

\* Steps of a GetCart call.
LEMMA GetGoes ==
  ASSUME NEW q \in GetRequest, NEW cart \in Carts, NEW left \in SUBSET Items,
         NEW pc \in {"hgetall", "load", "del", "fill", "reply"}
  PROVE  /\ [q EXCEPT !.pc = pc] \in RequestStates
         /\ [q EXCEPT !.pc = pc, !.cart = cart] \in RequestStates
         /\ [q EXCEPT !.left = left, !.pc = pc] \in RequestStates
BY DEF GetRequest, RequestStates

\* Steps of the other calls.
LEMMA OtherGoes ==
  /\ \A q \in NewRequest : [q EXCEPT !.pc = "failed"] \in RequestStates
  /\ \A q \in AddRequest, pc \in {"expire", "invalidate"} :
       [q EXCEPT !.pc = pc] \in RequestStates
  /\ \A q \in UpdateRequest, pc \in {"hset", "invalidate"} :
       [q EXCEPT !.pc = pc] \in RequestStates
  /\ \A q \in RemoveRequest : [q EXCEPT !.pc = "invalidate"] \in RequestStates
<1>1. \A q \in NewRequest : [q EXCEPT !.pc = "failed"] \in NewRequest
  BY DEF NewRequest
<1>2. \A q \in AddRequest, pc \in {"expire", "invalidate"} :
        [q EXCEPT !.pc = pc] \in AddRequest
  BY DEF AddRequest
<1>3. \A q \in UpdateRequest, pc \in {"hset", "invalidate"} :
        [q EXCEPT !.pc = pc] \in UpdateRequest
  BY DEF UpdateRequest
<1>4. \A q \in RemoveRequest : [q EXCEPT !.pc = "invalidate"] \in RemoveRequest
  BY DEF RemoveRequest
<1>5. QED
  BY <1>1, <1>2, <1>3, <1>4 DEF RequestStates

\* How calls begin and end.
LEMMA NewKinds ==
  /\ Idle \in RequestStates
  /\ \A cart \in Carts, pc \in {"hgetall", "load"} :
       [call |-> "get", cart |-> cart, left |-> {}, pc |-> pc] \in RequestStates
  /\ \A quantity \in Quantities, found \in BOOLEAN, pc \in {"insert", "failed"} :
       [call |-> "add", quantity |-> quantity, found |-> found, pc |-> pc]
         \in RequestStates
  /\ \A i \in Items, quantity \in Quantities :
       [call |-> "add", pc |-> "hset", item |-> i, quantity |-> quantity]
         \in RequestStates
  /\ \A i \in Items, quantity \in Quantities :
       [call |-> "update", pc |-> "hget", item |-> i, quantity |-> quantity]
         \in RequestStates
  /\ \A i \in Items : [call |-> "remove", pc |-> "hdel", item |-> i] \in RequestStates
  /\ [call |-> "clear", pc |-> "invalidate"] \in RequestStates
<1>1. \A cart \in Carts, pc \in {"hgetall", "load"} :
        [call |-> "get", cart |-> cart, left |-> {}, pc |-> pc] \in GetRequest
  BY DEF GetRequest
<1>2. \A quantity \in Quantities, found \in BOOLEAN, pc \in {"insert", "failed"} :
        [call |-> "add", quantity |-> quantity, found |-> found, pc |-> pc]
          \in NewRequest
  BY DEF NewRequest
<1>3. \A i \in Items, quantity \in Quantities :
        [call |-> "add", pc |-> "hset", item |-> i, quantity |-> quantity] \in AddRequest
  BY DEF AddRequest
<1>4. \A i \in Items, quantity \in Quantities :
        [call |-> "update", pc |-> "hget", item |-> i, quantity |-> quantity]
          \in UpdateRequest
  BY DEF UpdateRequest
<1>5. \A i \in Items : [call |-> "remove", pc |-> "hdel", item |-> i] \in RemoveRequest
  BY DEF RemoveRequest
<1>6. [call |-> "clear", pc |-> "invalidate"] \in ClearRequest
  BY DEF ClearRequest
<1>7. QED
  BY <1>1, <1>2, <1>3, <1>4, <1>5, <1>6 DEF RequestStates

\* Carts stay carts when an item is set or removed.
LEMMA CartSet ==
  /\ Empty \in Carts
  /\ Quantities \subseteq 0..MaxQuantity
  /\ 0 \in 0..MaxQuantity
  /\ \A cart \in Carts, i \in Items, quantity \in 0..MaxQuantity :
       [cart EXCEPT ![i] = quantity] \in Carts
BY CallAssumption DEF Empty, Carts, Quantities

\* A command of Redis leaves a cart in the cache.
LEMMA RedisType ==
  ASSUME TypeOK, NEW i \in Items, NEW quantity \in 0..MaxQuantity,
         Del \/ Expire \/ HSet(i, quantity) \/ HDel(i) \/ UNCHANGED redis
  PROVE  cache' \in Carts /\ ttl' \in BOOLEAN
<1>1. cache \in Carts /\ ttl \in BOOLEAN
  BY DEF TypeOK
<1>2. CASE Del
  BY <1>2, CartSet DEF Del
<1>3. CASE Expire
  BY <1>1, <1>3 DEF Expire, KeyExists
<1>4. CASE HSet(i, quantity)
  BY <1>1, <1>4, CartSet DEF HSet
<1>5. CASE HDel(i)
  BY <1>1, <1>5, CartSet DEF HDel
<1>6. CASE UNCHANGED redis
  BY <1>1, <1>6 DEF redis
<1>7. QED
  BY <1>2, <1>3, <1>4, <1>5, <1>6

\* What a step must show for the types to be kept, if it leaves the rows alone and goes
\* on to `next`.
LEMMA StepType ==
  ASSUME TypeOK, NEW r \in Requests, NEW next \in RequestStates, Becomes(r, next),
         NEW step, NEW result, Ends(step, result) \/ UNCHANGED faults,
         UNCHANGED <<table, calls>>, cache' \in Carts, ttl' \in BOOLEAN
  PROVE  TypeOK'
<1>1. request' \in [Requests -> RequestStates]
  BY BecomesStays DEF TypeOK
<1>2. faults' \in 0..MaxFaults
  <2>1. CASE Ends(step, result)
    BY <2>1, FaultAssumption, EndsCounts DEF TypeOK
  <2>2. CASE UNCHANGED faults
    BY <2>2 DEF TypeOK
  <2>3. QED
    BY <2>1, <2>2
<1>3. QED
  BY <1>1, <1>2 DEF TypeOK, table

\* A step of GetCart keeps the types.
LEMMA GetTypes ==
  ASSUME TypeOK, NEW r \in Requests,
         ReadCache(r) \/ LoadCart(r) \/ DropCached(r) \/ FillItem(r) \/ FillExpiry(r)
  PROVE  TypeOK'
<1>t. cache \in Carts /\ rows \in Carts /\ ttl \in BOOLEAN
  BY DEF TypeOK
<1>q. request[r] \in GetRequest
  BY Kinds DEF ReadCache, LoadCart, DropCached, FillItem, FillExpiry
<1>1. CASE ReadCache(r)
  <2>1. PICK result \in {"ok", "error"} :
          /\ Ends("hgetall", result)
          /\ \/ Goes(r, "load")
             \/ Becomes(r, [request[r] EXCEPT !.pc = "reply", !.cart = cache])
    BY <1>1 DEF ReadCache
  <2>2. PICK next \in RequestStates : Becomes(r, next)
    BY <2>1, <1>q, <1>t, GetGoes DEF Goes
  <2>3. QED
    BY <1>1, <1>t, <2>1, <2>2, StepType DEF ReadCache, redis
<1>2. CASE LoadCart(r)
  <2>1. PICK result \in {"ok", "error"} :
          /\ Ends("load", result)
          /\ \/ Return(r)
             \/ Becomes(r, [request[r] EXCEPT !.pc = "del", !.cart = rows])
    BY <1>2 DEF LoadCart
  <2>2. UNCHANGED <<table, calls>> /\ cache' \in Carts /\ ttl' \in BOOLEAN
    BY <1>2, <1>t DEF LoadCart, redis
  <2>3. CASE Return(r)
    BY <2>1, <2>2, <2>3, NewKinds, StepType DEF Return
  <2>4. CASE Becomes(r, [request[r] EXCEPT !.pc = "del", !.cart = rows])
    <3>1. [request[r] EXCEPT !.pc = "del", !.cart = rows] \in RequestStates
      BY <1>q, <1>t, GetGoes
    <3>2. QED
      BY <2>1, <2>2, <2>4, <3>1, StepType
  <2>5. QED
    BY <2>1, <2>3, <2>4
<1>3. CASE DropCached(r)
  <2>1. PICK result \in Results, pc \in {"fill", "reply"} :
          /\ Ends("del", result)
          /\ Runs(result, Del)
          /\ Becomes(r, [request[r] EXCEPT !.left = In(request[r].cart), !.pc = pc])
    BY <1>3 DEF DropCached
  <2>2. In(request[r].cart) \in SUBSET Items
    BY DEF In
  <2>3. [request[r] EXCEPT !.left = In(request[r].cart), !.pc = pc] \in RequestStates
    <3>1. pc \in {"hgetall", "load", "del", "fill", "reply"}
      BY <2>1
    <3>2. QED
      BY <2>2, <3>1, <1>q, GetGoes, CartSet
  <2>4. cache' \in Carts /\ ttl' \in BOOLEAN
    BY <2>1, <1>t, CartSet DEF Runs, Del, redis
  <2>5. QED
    BY <1>3, <2>1, <2>3, <2>4, StepType DEF DropCached
<1>4. CASE FillItem(r)
  <2>1. PICK result \in Results, i \in request[r].left, pc \in {"fill", "reply"} :
          /\ Ends("fill", result)
          /\ Runs(result, HSet(i, request[r].cart[i]))
          /\ Becomes(r, [request[r] EXCEPT !.left = request[r].left \ {i}, !.pc = pc])
    BY <1>4 DEF FillItem
  <2>2. /\ request[r].left \ {i} \in SUBSET Items
        /\ i \in Items
        /\ request[r].cart[i] \in 0..MaxQuantity
    BY <1>q DEF GetRequest, Carts
  <2>3. [request[r] EXCEPT !.left = request[r].left \ {i}, !.pc = pc] \in RequestStates
    <3>1. pc \in {"hgetall", "load", "del", "fill", "reply"}
      BY <2>1
    <3>2. QED
      BY <2>2, <3>1, <1>q, GetGoes, CartSet
  <2>4. cache' \in Carts /\ ttl' \in BOOLEAN
    BY <2>1, <2>2, RedisType DEF Runs
  <2>5. QED
    BY <1>4, <2>1, <2>3, <2>4, StepType DEF FillItem
<1>5. CASE FillExpiry(r)
  <2>1. PICK result \in Results :
          /\ Ends("fill", result)
          /\ Runs(result, Expire)
          /\ Goes(r, "reply")
    BY <1>5 DEF FillExpiry
  <2>2. [request[r] EXCEPT !.pc = "reply"] \in RequestStates
    BY <1>q, GetGoes, CartSet
  <2>3. cache' \in Carts /\ ttl' \in BOOLEAN
    BY <2>1, <1>t DEF Runs, Expire, KeyExists, redis
  <2>4. QED
    BY <1>5, <2>1, <2>2, <2>3, StepType DEF FillExpiry, Goes
<1>6. QED
  BY <1>1, <1>2, <1>3, <1>4, <1>5

\* A step of one of the other calls keeps the types.
LEMMA OtherTypes ==
  ASSUME TypeOK, NEW r \in Requests,
         \/ Answer(r) \/ RefuseItem(r) \/ CacheItem(r) \/ CacheExpiry(r)
         \/ Invalidate(r) \/ ReadCachedItem(r) \/ WriteCachedItem(r) \/ DropCachedItem(r)
  PROVE  TypeOK'
<1>t. cache \in Carts /\ ttl \in BOOLEAN
  BY DEF TypeOK
<1>1. CASE Answer(r)
  BY <1>1, <1>t, NewKinds, StepType DEF Answer, Return, redis
<1>2. CASE RefuseItem(r)
  <2>1. [request[r] EXCEPT !.pc = "failed"] \in RequestStates
    BY <1>2, Kinds, OtherGoes DEF RefuseItem
  <2>2. QED
    BY <1>2, <2>1, <1>t, StepType DEF RefuseItem, Goes, redis
<1>3. CASE CacheItem(r)
  <2>1. request[r] \in AddRequest
    BY <1>3, Kinds DEF CacheItem
  <2>2. PICK result \in Results, pc \in {"expire", "invalidate"} :
          /\ Ends("hset", result)
          /\ Runs(result, HSet(request[r].item, request[r].quantity))
          /\ Goes(r, pc)
    BY <1>3 DEF CacheItem
  <2>3. [request[r] EXCEPT !.pc = pc] \in RequestStates
    BY <2>1, OtherGoes
  <2>4. request[r].item \in Items /\ request[r].quantity \in 0..MaxQuantity
    BY <2>1, CartSet DEF AddRequest
  <2>5. cache' \in Carts /\ ttl' \in BOOLEAN
    BY <2>2, <2>4, RedisType DEF Runs
  <2>6. QED
    BY <1>3, <2>2, <2>3, <2>5, StepType DEF CacheItem, Goes
<1>4. CASE CacheExpiry(r)
  <2>1. request[r] \in AddRequest
    BY <1>4, Kinds DEF CacheExpiry
  <2>2. PICK result \in Results :
          /\ Ends("expire", result)
          /\ Runs(result, Expire)
          /\ Return(r) \/ Goes(r, "invalidate")
    BY <1>4 DEF CacheExpiry
  <2>3. [request[r] EXCEPT !.pc = "invalidate"] \in RequestStates
    BY <2>1, OtherGoes
  <2>4. cache' \in Carts /\ ttl' \in BOOLEAN
    BY <2>2, <1>t DEF Runs, Expire, KeyExists, redis
  <2>5. QED
    BY <1>4, <2>2, <2>3, <2>4, NewKinds, StepType DEF CacheExpiry, Goes, Return
<1>5. CASE Invalidate(r)
  <2>1. PICK result \in Results : Ends("invalidate", result) /\ Runs(result, Del)
    BY <1>5 DEF Invalidate
  <2>2. cache' \in Carts /\ ttl' \in BOOLEAN
    BY <2>1, <1>t, CartSet DEF Runs, Del, redis
  <2>3. QED
    BY <1>5, <2>1, <2>2, NewKinds, StepType DEF Invalidate, Return
<1>6. CASE ReadCachedItem(r)
  <2>1. request[r] \in UpdateRequest
    BY <1>6, Kinds DEF ReadCachedItem
  <2>2. PICK result \in {"ok", "error"}, pc \in {"hset", "invalidate"} :
          Ends("hget", result) /\ Goes(r, pc)
    BY <1>6 DEF ReadCachedItem
  <2>3. [request[r] EXCEPT !.pc = pc] \in RequestStates
    BY <2>1, OtherGoes
  <2>4. QED
    BY <1>6, <1>t, <2>2, <2>3, StepType DEF ReadCachedItem, Goes, redis
<1>7. CASE WriteCachedItem(r)
  <2>1. request[r] \in UpdateRequest
    BY <1>7, Kinds DEF WriteCachedItem
  <2>2. PICK result \in Results :
          /\ Ends("hset", result)
          /\ Runs(result, HSet(request[r].item, request[r].quantity))
          /\ Return(r) \/ Goes(r, "invalidate")
    BY <1>7 DEF WriteCachedItem
  <2>3. [request[r] EXCEPT !.pc = "invalidate"] \in RequestStates
    BY <2>1, OtherGoes
  <2>4. request[r].item \in Items /\ request[r].quantity \in 0..MaxQuantity
    BY <2>1, CartSet DEF UpdateRequest
  <2>5. cache' \in Carts /\ ttl' \in BOOLEAN
    BY <2>2, <2>4, RedisType DEF Runs
  <2>6. QED
    BY <1>7, <2>2, <2>3, <2>5, NewKinds, StepType DEF WriteCachedItem, Goes, Return
<1>8. CASE DropCachedItem(r)
  <2>1. request[r] \in RemoveRequest
    BY <1>8, Kinds DEF DropCachedItem
  <2>2. PICK result \in Results :
          /\ Ends("hdel", result)
          /\ Runs(result, HDel(request[r].item))
          /\ Return(r) \/ Goes(r, "invalidate")
    BY <1>8 DEF DropCachedItem
  <2>3. [request[r] EXCEPT !.pc = "invalidate"] \in RequestStates
    BY <2>1, OtherGoes
  <2>4. request[r].item \in Items
    BY <2>1 DEF RemoveRequest
  <2>5. cache' \in Carts /\ ttl' \in BOOLEAN
    BY <2>2, <2>4, CartSet, RedisType DEF Runs
  <2>6. QED
    BY <1>8, <2>2, <2>3, <2>5, NewKinds, StepType DEF DropCachedItem, Goes, Return
<1>9. QED
  BY <1>1, <1>2, <1>3, <1>4, <1>5, <1>6, <1>7, <1>8

\* A new row keeps the types.
LEMMA InsertTypes ==
  ASSUME TypeOK, NEW r \in Requests, InsertItem(r)
  PROVE  TypeOK'
<1>1. request[r] \in NewRequest
  BY Kinds DEF InsertItem
<1>2. PICK result \in Results, i \in Items \ issued :
        /\ Ends("insert", result)
        /\ IF result = "error" THEN UNCHANGED table
           ELSE /\ hasCart' = TRUE
                /\ rows' = [rows EXCEPT ![i] = request[r].quantity]
                /\ issued' = issued \union {i}
        /\ IF result # "ok" THEN Goes(r, "failed")
           ELSE Becomes(r, [call |-> "add", pc |-> "hset", item |-> i,
                            quantity |-> request[r].quantity])
  BY DEF InsertItem
<1>3. request[r].quantity \in Quantities
  BY <1>1 DEF NewRequest
<1>4. request' \in [Requests -> RequestStates]
  <2>1. [request[r] EXCEPT !.pc = "failed"] \in RequestStates
    BY <1>1, OtherGoes
  <2>2. [call |-> "add", pc |-> "hset", item |-> i, quantity |-> request[r].quantity]
          \in RequestStates
    BY <1>3, NewKinds
  <2>3. QED
    BY <1>2, <2>1, <2>2, BecomesStays DEF TypeOK, Goes
<1>5. rows' \in Carts /\ hasCart' \in BOOLEAN /\ issued' \subseteq Items
  <2>1. rows \in Carts /\ hasCart \in BOOLEAN /\ issued \subseteq Items
    BY DEF TypeOK
  <2>2. [rows EXCEPT ![i] = request[r].quantity] \in Carts
    BY <1>3, <2>1, CartSet
  <2>3. QED
    BY <1>2, <2>1, <2>2 DEF table
<1>6. faults' \in 0..MaxFaults
  BY <1>2, FaultAssumption, EndsCounts DEF TypeOK
<1>7. QED
  BY <1>4, <1>5, <1>6 DEF TypeOK, InsertItem, redis

\* A new call keeps the types.
LEMMA CallTypes ==
  ASSUME TypeOK, NEW r \in Requests, Call(r)
  PROVE  TypeOK'
<1>t. /\ cache \in Carts /\ rows \in Carts /\ ttl \in BOOLEAN
      /\ hasCart \in BOOLEAN /\ issued \subseteq Items
  BY DEF TypeOK
<1>c. \A call : Starts(r, call) => calls' \in 0..MaxCalls
  BY CallAssumption, StartsCounts DEF TypeOK
<1>f. \A step, result : Ends(step, result) => faults' \in 0..MaxFaults
  BY FaultAssumption, EndsCounts DEF TypeOK
<1>b. \A next \in RequestStates : Becomes(r, next) => request' \in [Requests -> RequestStates]
  BY BecomesStays DEF TypeOK
<1>1. CASE GetCart(r)
  <2>1. PICK result \in {"ok", "error"}, pc \in {"hgetall", "load"} :
          /\ Ends("exists", result)
          /\ Becomes(r, [call |-> "get", cart |-> Empty, left |-> {}, pc |-> pc])
    BY <1>1 DEF GetCart
  <2>2. [call |-> "get", cart |-> Empty, left |-> {}, pc |-> pc] \in RequestStates
    BY CartSet, NewKinds
  <2>3. QED
    BY <1>1, <1>t, <1>c, <1>f, <1>b, <2>1, <2>2 DEF TypeOK, GetCart, table, redis
<1>2. ASSUME NEW quantity \in Quantities, AddToCart(r, quantity)
      PROVE  TypeOK'
  <2>1. PICK result \in {"ok", "error"}, pc \in {"insert", "failed"} :
          /\ Ends("check", result)
          /\ Becomes(r, [call |-> "add", quantity |-> quantity, found |-> hasCart,
                         pc |-> pc])
    BY <1>2 DEF AddToCart
  <2>2. [call |-> "add", quantity |-> quantity, found |-> hasCart, pc |-> pc]
          \in RequestStates
    BY <1>t, NewKinds
  <2>3. QED
    BY <1>2, <1>t, <1>c, <1>f, <1>b, <2>1, <2>2 DEF TypeOK, AddToCart, table, redis
<1>3. ASSUME NEW call, Starts(r, call), NEW step, NEW changed \in Carts,
             NEW next \in RequestStates, ChangeRows(r, step, changed, next)
      PROVE  TypeOK'
  <2>1. PICK result \in Results :
          /\ Ends(step, result)
          /\ rows' = IF result = "error" THEN rows ELSE changed
          /\ Becomes(r, next) \/ Return(r)
          /\ UNCHANGED <<hasCart, issued, redis>>
    BY <1>3 DEF ChangeRows
  <2>2. request' \in [Requests -> RequestStates]
    BY <1>3, <1>b, <2>1, NewKinds DEF Return
  <2>3. rows' \in Carts
    BY <1>3, <1>t, <2>1
  <2>4. QED
    BY <1>3, <1>t, <1>c, <1>f, <2>1, <2>2, <2>3 DEF TypeOK, redis
<1>4. ASSUME NEW i \in Items, NEW quantity \in Quantities, UpdateQuantity(r, i, quantity)
      PROVE  TypeOK'
  <2>1. [rows EXCEPT ![i] = quantity] \in Carts
    BY <1>t, CartSet
  <2>2. [call |-> "update", pc |-> "hget", item |-> i, quantity |-> quantity]
          \in RequestStates
    BY NewKinds
  <2>3. QED
    BY <1>3, <1>4, <2>1, <2>2 DEF UpdateQuantity
<1>5. ASSUME NEW i \in Items, RemoveFromCart(r, i)
      PROVE  TypeOK'
  <2>1. [rows EXCEPT ![i] = 0] \in Carts
    BY <1>t, CartSet
  <2>2. [call |-> "remove", pc |-> "hdel", item |-> i] \in RequestStates
    BY NewKinds
  <2>3. QED
    BY <1>3, <1>5, <2>1, <2>2 DEF RemoveFromCart
<1>6. CASE ClearCart(r)
  BY <1>3, <1>6, CartSet, NewKinds DEF ClearCart
<1>7. QED
  BY <1>1, <1>2, <1>4, <1>5, <1>6 DEF Call

\* Every step keeps the types.
LEMMA TypePreserved == TypeOK /\ [Next]_vars => TypeOK'
<1> SUFFICES ASSUME TypeOK, [Next]_vars PROVE TypeOK'
  OBVIOUS
<1>1. CASE UNCHANGED vars
  BY <1>1 DEF TypeOK, vars, table, redis
<1>2. CASE KeyExpires
  BY <1>2, CartSet DEF TypeOK, KeyExpires, Del, table
<1>3. ASSUME NEW r \in Requests, Step(r)
      PROVE  TypeOK'
  BY <1>3, GetTypes, OtherTypes, InsertTypes DEF Step
<1>4. QED
  BY <1>1, <1>2, <1>3, CallTypes DEF Next

\* The variables keep their types, for any number of requests, calls and errors.
THEOREM TypeCorrect == Spec => []TypeOK
<1>1. Init => TypeOK
  <2>1. Idle \in RequestStates /\ Empty \in Carts
    BY NewKinds, CartSet
  <2>2. 0 \in 0..MaxCalls /\ 0 \in 0..MaxFaults
    BY CallAssumption, FaultAssumption
  <2>3. QED
    BY <2>1, <2>2 DEF Init, TypeOK
<1>2. QED
  BY <1>1, TypePreserved, PTL DEF Spec

-----------------------------------------------------------------------------
(* No key is left without an expiry.                                       *)

\* What the service does not cover: updates, which write to a key that may have been
\* lost, and errors of a fill, or of the DEL that makes other errors good.
ExpiryIsSet ==
  /\ "update" \notin Calls
  /\ {"fill", "invalidate"} \intersect (Failing \union Losing) = {}

NoUpdates == \A r \in Requests : request[r] # Idle => request[r].call # "update"

\* r is about to set the expiry of the key, or to drop it.
Settles(r) == At(r, "get", "fill") \/ At(r, "add", "expire") \/ request[r].pc = "invalidate"

\* The inductive invariant: a key without an expiry is being settled.
ExpiryComes ==
  /\ NoUpdates
  /\ KeyExists /\ ~ttl => \E r \in Requests : Settles(r)

\* A call keeps its name.
LEMMA CallStays ==
  ASSUME TypeOK, NEW r \in Requests, request[r] # Idle, NEW pc, NEW cart, NEW left
  PROVE  /\ [request[r] EXCEPT !.pc = pc].call = request[r].call
         /\ [request[r] EXCEPT !.pc = pc, !.cart = cart].call = request[r].call
         /\ [request[r] EXCEPT !.left = left, !.pc = pc].call = request[r].call
<1>1. request[r] \in RequestStates \ {Idle}
  BY DEF TypeOK
<1>2. QED
  BY <1>1 DEF RequestStates, GetRequest, NewRequest, AddRequest, UpdateRequest,
              RemoveRequest, ClearRequest

\* No call turns into an update.
LEMMA NoUpdatesPreserved ==
  ASSUME ExpiryIsSet, TypeOK, NoUpdates, [Next]_vars
  PROVE  NoUpdates'
<1>t. request \in [Requests -> RequestStates]
  BY DEF TypeOK
<1>a. ASSUME NEW r \in Requests, NEW next, Becomes(r, next),
             next = Idle \/ next.call # "update"
      PROVE  NoUpdates'
  <2>1. request'[r] = next /\ \A s \in Requests : s # r => request'[s] = request[s]
    BY <1>a, <1>t, BecomesOnly
  <2>2. QED
    BY <2>1, <1>a DEF NoUpdates
<1>b. ASSUME NEW r \in Requests, Return(r)
      PROVE  NoUpdates'
  BY <1>a, <1>b DEF Return
<1>g. ASSUME NEW r \in Requests, request[r] # Idle, NEW pc, Goes(r, pc)
      PROVE  NoUpdates'
  BY <1>a, <1>g, CallStays DEF Goes, NoUpdates
<1>h. ASSUME NEW r \in Requests, request[r] # Idle, NEW pc, NEW cart,
             Becomes(r, [request[r] EXCEPT !.pc = pc, !.cart = cart])
      PROVE  NoUpdates'
  <2>1. [request[r] EXCEPT !.pc = pc, !.cart = cart].call # "update"
    BY <1>h, CallStays DEF NoUpdates
  <2>2. QED
    BY <2>1, <1>h, <1>a
<1>i. ASSUME NEW r \in Requests, request[r] # Idle, NEW pc, NEW left,
             Becomes(r, [request[r] EXCEPT !.left = left, !.pc = pc])
      PROVE  NoUpdates'
  <2>1. [request[r] EXCEPT !.left = left, !.pc = pc].call # "update"
    BY <1>i, CallStays DEF NoUpdates
  <2>2. QED
    BY <2>1, <1>i, <1>a
<1>1. CASE UNCHANGED request
  BY <1>1 DEF NoUpdates
<1>2. ASSUME NEW r \in Requests, Call(r)
      PROVE  NoUpdates'
  <2>1. CASE GetCart(r)
    <3>1. PICK pc : Becomes(r, [call |-> "get", cart |-> Empty, left |-> {}, pc |-> pc])
      BY <2>1 DEF GetCart
    <3>2. QED
      BY <3>1, <1>a
  <2>2. ASSUME NEW quantity \in Quantities, AddToCart(r, quantity)
        PROVE  NoUpdates'
    <3>1. PICK pc : Becomes(r, [call |-> "add", quantity |-> quantity,
                                found |-> hasCart, pc |-> pc])
      BY <2>2 DEF AddToCart
    <3>2. QED
      BY <3>1, <1>a
  <2>3. ASSUME NEW i \in Items, NEW quantity \in Quantities, UpdateQuantity(r, i, quantity)
        PROVE  FALSE
    BY <2>3 DEF UpdateQuantity, Starts, ExpiryIsSet
  <2>4. ASSUME NEW i \in Items, RemoveFromCart(r, i)
        PROVE  NoUpdates'
    <3>1. Becomes(r, [call |-> "remove", pc |-> "hdel", item |-> i]) \/ Return(r)
      BY <2>4 DEF RemoveFromCart, ChangeRows
    <3>2. QED
      BY <3>1, <1>a, <1>b
  <2>5. CASE ClearCart(r)
    <3>1. Becomes(r, [call |-> "clear", pc |-> "invalidate"]) \/ Return(r)
      BY <2>5 DEF ClearCart, ChangeRows
    <3>2. QED
      BY <3>1, <1>a, <1>b
  <2>6. QED
    BY <1>2, <2>1, <2>2, <2>3, <2>4, <2>5 DEF Call
<1>3. ASSUME NEW r \in Requests, Step(r)
      PROVE  NoUpdates'
  <2>0. request[r] # Idle
    <3>1. CASE Invalidate(r)
      BY <3>1 DEF Invalidate, Idle
    <3>2. CASE ~Invalidate(r)
      <4>1. (\E call, pc : At(r, call, pc))
        BY <1>3, <3>2 DEF Step, ReadCache, LoadCart, DropCached, FillItem, FillExpiry,
              Answer, RefuseItem, InsertItem, CacheItem, CacheExpiry, ReadCachedItem,
              WriteCachedItem, DropCachedItem
      <4>2. QED
        BY <4>1 DEF At
    <3>3. QED
      BY <3>1, <3>2
  <2>1. CASE ReadCache(r)
    <3>1. \/ Goes(r, "load")
          \/ Becomes(r, [request[r] EXCEPT !.pc = "reply", !.cart = cache])
      BY <2>1 DEF ReadCache
    <3>2. QED
      BY <3>1, <2>0, <1>g, <1>h
  <2>2. CASE LoadCart(r)
    <3>1. \/ Return(r)
          \/ Becomes(r, [request[r] EXCEPT !.pc = "del", !.cart = rows])
      BY <2>2 DEF LoadCart
    <3>2. QED
      BY <3>1, <2>0, <1>b, <1>h
  <2>3. CASE DropCached(r)
    <3>1. PICK result \in Results :
            Becomes(r, [request[r] EXCEPT !.left = In(request[r].cart),
                          !.pc = IF result = "ok" THEN "fill" ELSE "reply"])
      BY <2>3 DEF DropCached
    <3>2. QED
      BY <3>1, <2>0, <1>i
  <2>4. CASE FillItem(r)
    <3>1. PICK result \in Results, i \in request[r].left :
            Becomes(r, [request[r] EXCEPT !.left = @ \ {i},
                          !.pc = IF result = "ok" THEN "fill" ELSE "reply"])
      BY <2>4 DEF FillItem
    <3>2. QED
      BY <3>1, <2>0, <1>i
  <2>5. CASE InsertItem(r)
    <3>1. \/ Goes(r, "failed")
          \/ \E i \in Items : Becomes(r, [call |-> "add", pc |-> "hset", item |-> i,
                                          quantity |-> request[r].quantity])
      BY <2>5 DEF InsertItem
    <3>2. QED
      BY <3>1, <2>0, <1>a, <1>g
  <2>6. CASE \/ FillExpiry(r) \/ Answer(r) \/ RefuseItem(r) \/ CacheItem(r)
             \/ CacheExpiry(r) \/ Invalidate(r) \/ ReadCachedItem(r)
             \/ WriteCachedItem(r) \/ DropCachedItem(r)
    <3>1. Return(r) \/ \E pc : Goes(r, pc)
      BY <2>6 DEF FillExpiry, Answer, RefuseItem, CacheItem, CacheExpiry, Invalidate,
                  ReadCachedItem, WriteCachedItem, DropCachedItem
    <3>2. QED
      BY <3>1, <2>0, <1>b, <1>g
  <2>7. QED
    BY <1>3, <2>1, <2>2, <2>3, <2>4, <2>5, <2>6 DEF Step
<1>4. QED
  BY <1>1, <1>2, <1>3 DEF Next, KeyExpires, vars

\* Every step keeps ExpiryComes.
LEMMA ExpiryPreserved ==
  ExpiryIsSet /\ TypeOK /\ ExpiryComes /\ [Next]_vars => ExpiryComes'
<1> SUFFICES ASSUME ExpiryIsSet, TypeOK, ExpiryComes, [Next]_vars
             PROVE  ExpiryComes'
  OBVIOUS
<1>n. NoUpdates'
  BY NoUpdatesPreserved DEF ExpiryComes
<1>t. request \in [Requests -> RequestStates]
  BY DEF TypeOK
\* A step of a goroutine that settles nothing and leaves every key with an expiry,
\* or none, as it was.
<1>a. ASSUME NEW r \in Requests, ~Settles(r), NEW next, Becomes(r, next),
             KeyExists' /\ ~ttl' => KeyExists /\ ~ttl
      PROVE  ExpiryComes'
  <2>1. \A s \in Requests : s # r => request'[s] = request[s]
    BY <1>a, <1>t, BecomesOnly
  <2>2. QED
    BY <2>1, <1>a, <1>n DEF ExpiryComes, Settles, At
\* A step after which there is no key, or one with an expiry.
<1>b. Del \/ Expire => ExpiryComes'
  BY <1>n DEF Del, Expire, ExpiryComes, KeyExists
\* A step after which a goroutine settles the key.
<1>c. ASSUME NEW r \in Requests, Settles(r)'
      PROVE  ExpiryComes'
  BY <1>c, <1>n DEF ExpiryComes
<1>d. ASSUME UNCHANGED redis
      PROVE  KeyExists' /\ ~ttl' => KeyExists /\ ~ttl
  BY <1>d DEF redis, KeyExists
<1>0. CASE UNCHANGED vars
  BY <1>0, <1>n DEF ExpiryComes, KeyExists, Settles, At, vars, redis
<1>1. CASE KeyExpires
  BY <1>1, <1>b DEF KeyExpires
<1>2. ASSUME NEW r \in Requests, Call(r)
      PROVE  ExpiryComes'
  <2>1. request[r] = Idle /\ UNCHANGED redis
    BY <1>2 DEF Call, GetCart, AddToCart, UpdateQuantity, RemoveFromCart, ClearCart,
                ChangeRows, Starts
  <2>2. ~Settles(r)
    BY <2>1 DEF Settles, At, Idle
  <2>3. \E next : Becomes(r, next)
    BY <1>2 DEF Call, GetCart, AddToCart, UpdateQuantity, RemoveFromCart, ClearCart,
                ChangeRows, Return
  <2>4. QED
    BY <2>1, <2>2, <2>3, <1>a, <1>d
<1>3. ASSUME NEW r \in Requests,
             \/ ReadCache(r) \/ LoadCart(r) \/ Answer(r) \/ RefuseItem(r) \/ InsertItem(r)
      PROVE  ExpiryComes'
  <2>1. ~Settles(r) /\ UNCHANGED redis
    BY <1>3 DEF ReadCache, LoadCart, Answer, RefuseItem, InsertItem, At, Settles
  <2>2. \E next : Becomes(r, next)
    BY <1>3 DEF ReadCache, LoadCart, Answer, RefuseItem, InsertItem, Return, Goes
  <2>3. QED
    BY <2>1, <2>2, <1>a, <1>d
<1>4. ASSUME NEW r \in Requests, DropCached(r)
      PROVE  ExpiryComes'
  <2>1. PICK result \in Results : Runs(result, Del)
    BY <1>4 DEF DropCached
  <2>2. ~Settles(r) /\ \E next : Becomes(r, next)
    BY <1>4 DEF DropCached, Settles, At
  <2>3. QED
    BY <2>1, <2>2, <1>a, <1>b, <1>d DEF Runs
<1>5. ASSUME NEW r \in Requests, FillItem(r)
      PROVE  ExpiryComes'
  <2>1. PICK result \in Results, i \in request[r].left :
          /\ Ends("fill", result)
          /\ Becomes(r, [request[r] EXCEPT !.left = @ \ {i},
                            !.pc = IF result = "ok" THEN "fill" ELSE "reply"])
    BY <1>5 DEF FillItem
  <2>2. result = "ok"
    BY <2>1 DEF Ends, ExpiryIsSet
  <2>3. request'[r] = [request[r] EXCEPT !.left = @ \ {i}, !.pc = "fill"]
    BY <2>1, <2>2, <1>t, BecomesOnly
  <2>4. At(r, "get", "fill")'
    BY <2>3, <1>5, Kinds DEF FillItem, At, GetRequest, Idle
  <2>5. QED
    BY <2>4, <1>c DEF Settles
<1>6. ASSUME NEW r \in Requests, FillExpiry(r)
      PROVE  ExpiryComes'
  BY <1>6, <1>b DEF FillExpiry, Ends, Runs, ExpiryIsSet
<1>7. ASSUME NEW r \in Requests, CacheItem(r)
      PROVE  ExpiryComes'
  <2>1. request[r] \in AddRequest
    BY <1>7, Kinds DEF CacheItem
  <2>2. Goes(r, "expire") \/ Goes(r, "invalidate")
    BY <1>7 DEF CacheItem
  <2>3. \/ request'[r] = [request[r] EXCEPT !.pc = "expire"]
        \/ request'[r] = [request[r] EXCEPT !.pc = "invalidate"]
    BY <2>2, <1>t, BecomesOnly DEF Goes
  <2>4. Settles(r)'
    BY <2>1, <2>3 DEF Settles, At, AddRequest, Idle
  <2>5. QED
    BY <2>4, <1>c
<1>8. ASSUME NEW r \in Requests, CacheExpiry(r)
      PROVE  ExpiryComes'
  <2>1. request[r] \in AddRequest
    BY <1>8, Kinds DEF CacheExpiry
  <2>2. Expire \/ Goes(r, "invalidate")
    BY <1>8 DEF CacheExpiry, Runs
  <2>3. CASE Goes(r, "invalidate")
    <3>1. request'[r] = [request[r] EXCEPT !.pc = "invalidate"]
      BY <2>3, <1>t, BecomesOnly DEF Goes
    <3>2. QED
      BY <3>1, <2>1, <1>c DEF Settles, AddRequest
  <2>4. QED
    BY <2>2, <2>3, <1>b
<1>9. ASSUME NEW r \in Requests, Invalidate(r)
      PROVE  ExpiryComes'
  BY <1>9, <1>b DEF Invalidate, Ends, Runs, ExpiryIsSet
<1>10. ASSUME NEW r \in Requests, ReadCachedItem(r) \/ WriteCachedItem(r)
       PROVE  FALSE
  BY <1>10 DEF ReadCachedItem, WriteCachedItem, At, ExpiryComes, NoUpdates
<1>11. ASSUME NEW r \in Requests, DropCachedItem(r)
       PROVE  ExpiryComes'
  <2>1. PICK result \in Results : Runs(result, HDel(request[r].item))
    BY <1>11 DEF DropCachedItem
  <2>2. ~Settles(r) /\ \E next : Becomes(r, next)
    BY <1>11 DEF DropCachedItem, Settles, At, Return, Goes
  <2>3. ASSUME HDel(request[r].item), KeyExists', ~ttl'
        PROVE  KeyExists /\ ~ttl
    <3>1. request[r].item \in Items /\ cache \in Carts
      BY <1>11, Kinds DEF DropCachedItem, RemoveRequest, TypeOK
    <3>2. ~ttl /\ cache' = [cache EXCEPT ![request[r].item] = 0]
      BY <2>3 DEF HDel, KeyExists
    <3>3. cache = Empty => cache' = Empty
      BY <3>1, <3>2 DEF Empty
    <3>4. QED
      BY <2>3, <3>2, <3>3 DEF KeyExists
  <2>4. QED
    BY <2>1, <2>2, <2>3, <1>a, <1>d DEF Runs
<1>12. QED
  BY <1>0, <1>1, <1>2, <1>3, <1>4, <1>5, <1>6, <1>7, <1>8, <1>9, <1>10, <1>11
  DEF Next, Step

\* However calls without updates overlap, whenever the key expires and whichever other
\* errors there are, a cached cart that no request is busy with has an expiry (SetCart
\* and AddToCartItem of redis.go, AddToCart of cart_cache_aside.go).
THEOREM KeysExpire ==
  ASSUME ExpiryIsSet
  PROVE  Spec => []CachedIsBounded
<1>1. Init => ExpiryComes
  BY DEF Init, ExpiryComes, NoUpdates, KeyExists
<1>2. ExpiryComes => CachedIsBounded
  BY DEF ExpiryComes, CachedIsBounded, Quiet, Settles, At, Idle
<1>3. TypeOK /\ ExpiryComes /\ [Next]_vars => ExpiryComes'
  BY ExpiryPreserved
<1>4. QED
  BY <1>1, <1>2, <1>3, TypeCorrect, PTL DEF Spec

-----------------------------------------------------------------------------
(* Answers to calls that come one after the other.                         *)

\* What the service does not cover: other calls in between, an expiry that leaves
\* AddToCart a key of its own item only, errors of what writes the cache, and a
\* change whose answer is lost.
NothingIntervenes ==
  /\ \A r, s \in Requests : r = s
  /\ ~MayExpire
  /\ {"fill", "hget", "hset", "expire", "hdel", "invalidate"} \intersect Failing = {}
  /\ {"fill", "hset", "expire", "hdel", "insert", "update", "delete", "clear", "del"}
       \intersect Losing = {}

\* What a call that is at work has left to do until the cached cart is the cart.
CatchesUp(q) ==
  /\ q.pc \in {"hgetall", "load", "del", "reply", "insert", "failed", "expire"} => cache = rows
  /\ q.pc \in {"del", "fill", "reply"} => q.cart = rows
  /\ q.pc = "fill" => cache = [i \in Items |-> IF i \in q.left THEN 0 ELSE rows[i]]
  /\ q.pc \in {"hget", "hset"} => rows = [cache EXCEPT ![q.item] = q.quantity]
  /\ q.pc = "hget" => cache[q.item] # 0
  /\ q.pc = "hdel" => rows = [cache EXCEPT ![q.item] = 0]
  /\ q.pc = "invalidate" => rows = Empty

\* Between calls the cached cart is the cart.
CacheFollows ==
  /\ \A r \in Requests : request[r] # Idle => CatchesUp(request[r])
  /\ Quiet => cache = rows

\* The only goroutine goes on to next, and next catches up.
LEMMA FollowsOn ==
  ASSUME NothingIntervenes, TypeOK, NEW r \in Requests, NEW next, Becomes(r, next),
         next # Idle => CatchesUp(next)',
         next = Idle => cache' = rows'
  PROVE  CacheFollows'
<1>1. request'[r] = next /\ \A s \in Requests : s = r
  BY BecomesOnly DEF TypeOK, NothingIntervenes
<1>2. ASSUME NEW s \in Requests, request'[s] # Idle
      PROVE  CatchesUp(request[s])'
  BY <1>1, <1>2 DEF CatchesUp
<1>3. Quiet' => cache' = rows'
  BY <1>1 DEF Quiet
<1>4. QED
  BY <1>2, <1>3 DEF CacheFollows

\* The rows change, and the cached cart is going to.
LEMMA ChangeFollows ==
  ASSUME NothingIntervenes, TypeOK, NEW r \in Requests,
         NEW step \in {"update", "delete", "clear"}, NEW changed, NEW next,
         ChangeRows(r, step, changed, next), cache = rows, next # Idle,
         rows' = changed /\ cache' = cache => CatchesUp(next)'
  PROVE  CacheFollows'
<1>1. PICK result \in Results :
        /\ Ends(step, result)
        /\ rows' = IF result = "error" THEN rows ELSE changed
        /\ IF result = "ok" THEN Becomes(r, next) ELSE Return(r)
  BY DEF ChangeRows
<1>2. cache' = cache
  BY DEF ChangeRows, redis
<1>3. result \in {"ok", "error"}
  BY <1>1 DEF Ends, NothingIntervenes
<1>4. CASE result = "ok"
  BY <1>1, <1>2, <1>4, FollowsOn
<1>5. CASE result = "error"
  BY <1>1, <1>2, <1>5, FollowsOn DEF Return
<1>6. QED
  BY <1>3, <1>4, <1>5

\* A new call finds the cached cart to be the cart, and so begins with it.
LEMMA CallsFollow ==
  ASSUME NothingIntervenes, TypeOK, CacheFollows, NEW r \in Requests, Call(r)
  PROVE  CacheFollows'
<1>1. request[r] = Idle /\ cache = rows /\ cache \in Carts
  <2>1. request[r] = Idle
    BY DEF Call, GetCart, AddToCart, UpdateQuantity, RemoveFromCart, ClearCart, Starts
  <2>2. Quiet
    BY <2>1 DEF Quiet, NothingIntervenes
  <2>3. QED
    BY <2>1, <2>2 DEF CacheFollows, TypeOK
<1>2. CASE GetCart(r)
  <2>0. PICK result \in {"ok", "error"} :
          Becomes(r, [call |-> "get", cart |-> Empty, left |-> {},
                      pc |-> IF result = "ok" /\ KeyExists THEN "hgetall" ELSE "load"])
    BY <1>2 DEF GetCart
  <2>1. PICK next :
          /\ next = [call |-> "get", cart |-> Empty, left |-> {},
                     pc |-> IF result = "ok" /\ KeyExists THEN "hgetall" ELSE "load"]
          /\ Becomes(r, next)
    BY <2>0
  <2>2. next.pc \in {"hgetall", "load"} /\ next # Idle
    BY <2>1 DEF Idle
  <2>3. cache' = rows'
    BY <1>1, <1>2 DEF GetCart, table, redis
  <2>4. QED
    BY <2>1, <2>2, <2>3, FollowsOn DEF CatchesUp
<1>3. ASSUME NEW quantity \in Quantities, AddToCart(r, quantity)
      PROVE  CacheFollows'
  <2>0. PICK result \in {"ok", "error"} :
          Becomes(r, [call |-> "add", quantity |-> quantity, found |-> hasCart,
                      pc |-> IF result = "ok" THEN "insert" ELSE "failed"])
    BY <1>3 DEF AddToCart
  <2>1. PICK next :
          /\ next = [call |-> "add", quantity |-> quantity, found |-> hasCart,
                     pc |-> IF result = "ok" THEN "insert" ELSE "failed"]
          /\ Becomes(r, next)
    BY <2>0
  <2>2. next.pc \in {"insert", "failed"} /\ next # Idle
    BY <2>1 DEF Idle
  <2>3. cache' = rows'
    BY <1>1, <1>3 DEF AddToCart, table, redis
  <2>4. QED
    BY <2>1, <2>2, <2>3, FollowsOn DEF CatchesUp
<1>4. ASSUME NEW i \in Items, NEW quantity \in Quantities, UpdateQuantity(r, i, quantity)
      PROVE  CacheFollows'
  <2>1. PICK next :
          next = [call |-> "update", pc |-> "hget", item |-> i, quantity |-> quantity]
    OBVIOUS
  <2>2. /\ next.pc = "hget" /\ next.item = i /\ next.quantity = quantity /\ next # Idle
    BY <2>1 DEF Idle
  <2>3. rows[i] # 0 /\ ChangeRows(r, "update", [rows EXCEPT ![i] = quantity], next)
    BY <1>4, <2>1 DEF UpdateQuantity
  <2>4. rows' = [rows EXCEPT ![i] = quantity] /\ cache' = cache => CatchesUp(next)'
    BY <1>1, <2>2, <2>3 DEF CatchesUp
  <2>5. QED
    BY <1>1, <2>2, <2>3, <2>4, ChangeFollows
<1>5. ASSUME NEW i \in Items, RemoveFromCart(r, i)
      PROVE  CacheFollows'
  <2>1. PICK next : next = [call |-> "remove", pc |-> "hdel", item |-> i]
    OBVIOUS
  <2>2. next.pc = "hdel" /\ next.item = i /\ next # Idle
    BY <2>1 DEF Idle
  <2>3. ChangeRows(r, "delete", [rows EXCEPT ![i] = 0], next)
    BY <1>5, <2>1 DEF RemoveFromCart
  <2>4. rows' = [rows EXCEPT ![i] = 0] /\ cache' = cache => CatchesUp(next)'
    BY <1>1, <2>2 DEF CatchesUp
  <2>5. QED
    BY <1>1, <2>2, <2>3, <2>4, ChangeFollows
<1>6. CASE ClearCart(r)
  <2>1. PICK next : next = [call |-> "clear", pc |-> "invalidate"]
    OBVIOUS
  <2>2. next.pc = "invalidate" /\ next # Idle
    BY <2>1 DEF Idle
  <2>3. ChangeRows(r, "clear", Empty, next)
    BY <1>6, <2>1 DEF ClearCart
  <2>4. rows' = Empty /\ cache' = cache => CatchesUp(next)'
    BY <2>2 DEF CatchesUp
  <2>5. QED
    BY <1>1, <2>2, <2>3, <2>4, ChangeFollows
<1>7. QED
  BY <1>2, <1>3, <1>4, <1>5, <1>6 DEF Call

\* A step of GetCart leaves the cached cart the cart, or fills it up to it.
LEMMA GetFollows ==
  ASSUME NothingIntervenes, TypeOK, CacheFollows, NEW r \in Requests,
         ReadCache(r) \/ LoadCart(r) \/ DropCached(r) \/ FillItem(r) \/ FillExpiry(r)
  PROVE  CacheFollows'
<1>1. PICK q \in GetRequest : q = request[r]
  BY Kinds DEF ReadCache, LoadCart, DropCached, FillItem, FillExpiry
<1>2. /\ CatchesUp(q) /\ rows' = rows
      /\ rows \in Carts /\ cache \in Carts
  BY <1>1 DEF CacheFollows, ReadCache, LoadCart, DropCached, FillItem, FillExpiry, At, table,
              TypeOK
<1>3. CASE ReadCache(r)
  <2>1. PICK next : /\ \/ next = [q EXCEPT !.pc = "load"]
                       \/ next = [q EXCEPT !.pc = "reply", !.cart = cache]
                    /\ Becomes(r, next)
    BY <1>1, <1>3 DEF ReadCache, Goes
  <2>2. /\ next # Idle
        /\ next.pc = "load" \/ (next.pc = "reply" /\ next.cart = cache)
    BY <2>1 DEF GetRequest, Idle
  <2>3. cache = rows /\ cache' = cache
    BY <1>1, <1>2, <1>3 DEF ReadCache, At, CatchesUp, redis
  <2>4. QED
    BY <1>2, <2>1, <2>2, <2>3, FollowsOn DEF CatchesUp
<1>4. CASE LoadCart(r)
  <2>1. cache = rows /\ cache' = cache
    BY <1>1, <1>2, <1>4 DEF LoadCart, At, CatchesUp, redis
  <2>2. CASE Becomes(r, Idle)
    BY <1>2, <2>1, <2>2, FollowsOn
  <2>3. CASE Becomes(r, [q EXCEPT !.pc = "del", !.cart = rows])
    <3>1. PICK next : next = [q EXCEPT !.pc = "del", !.cart = rows]
      OBVIOUS
    <3>2. next # Idle /\ next.pc = "del" /\ next.cart = rows
      BY <3>1 DEF GetRequest, Idle
    <3>3. QED
      BY <1>2, <2>1, <2>3, <3>1, <3>2, FollowsOn DEF CatchesUp
  <2>4. QED
    BY <1>1, <1>4, <2>2, <2>3 DEF LoadCart, Return
<1>5. CASE DropCached(r)
  <2>1. PICK result \in Results :
          /\ Ends("del", result)
          /\ Runs(result, Del)
          /\ Becomes(r, [q EXCEPT !.left = In(q.cart),
                           !.pc = IF result = "ok" THEN "fill" ELSE "reply"])
    BY <1>1, <1>5 DEF DropCached
  <2>2. q.cart = rows /\ cache = rows /\ result \in {"ok", "error"}
    BY <1>1, <1>2, <1>5, <2>1 DEF DropCached, At, CatchesUp, Ends, NothingIntervenes
  <2>3. CASE result = "ok"
    <3>1. PICK next : /\ next = [q EXCEPT !.left = In(q.cart), !.pc = "fill"]
                      /\ Becomes(r, next)
      BY <2>1, <2>3
    <3>2. next # Idle /\ next.pc = "fill" /\ next.cart = rows /\ next.left = In(rows)
      BY <2>2, <3>1 DEF GetRequest, Idle
    <3>3. cache' = Empty
      BY <2>1, <2>3 DEF Runs, Del
    <3>4. Empty = [i \in Items |-> IF i \in In(rows) THEN 0 ELSE rows[i]]
      BY DEF Empty, In
    <3>5. cache' = [i \in Items |-> IF i \in next.left THEN 0 ELSE rows[i]]
      BY <3>2, <3>3, <3>4
    <3>6. CatchesUp(next)'
      BY <1>2, <3>2, <3>5 DEF CatchesUp
    <3>7. QED
      BY <3>1, <3>2, <3>6, FollowsOn
  <2>4. CASE result = "error"
    <3>1. PICK next : /\ next = [q EXCEPT !.left = In(q.cart), !.pc = "reply"]
                      /\ Becomes(r, next)
      BY <2>1, <2>4
    <3>2. next # Idle /\ next.pc = "reply" /\ next.cart = rows
      BY <2>2, <3>1 DEF GetRequest, Idle
    <3>3. cache' = cache
      BY <2>1, <2>4 DEF Runs, redis
    <3>4. CatchesUp(next)'
      BY <1>2, <2>2, <3>2, <3>3 DEF CatchesUp
    <3>5. QED
      BY <3>1, <3>2, <3>4, FollowsOn
  <2>5. QED
    BY <2>2, <2>3, <2>4
<1>6. CASE FillItem(r)
  <2>1. PICK result \in Results, i \in q.left :
          /\ Ends("fill", result)
          /\ Runs(result, HSet(i, q.cart[i]))
          /\ Becomes(r, [q EXCEPT !.left = @ \ {i},
                           !.pc = IF result = "ok" THEN "fill" ELSE "reply"])
    BY <1>1, <1>6 DEF FillItem
  <2>2. result = "ok"
    BY <2>1 DEF Ends, NothingIntervenes
  <2>3. PICK next : next = [q EXCEPT !.left = @ \ {i}, !.pc = "fill"] /\ Becomes(r, next)
    BY <2>1, <2>2
  <2>4. /\ next # Idle /\ next.pc = "fill" /\ next.cart = q.cart /\ next.left = q.left \ {i}
    BY <2>3 DEF GetRequest, Idle
  <2>5. /\ q.cart = rows
        /\ cache = [j \in Items |-> IF j \in q.left THEN 0 ELSE rows[j]]
    BY <1>1, <1>2, <1>6 DEF FillItem, At, CatchesUp
  <2>6. cache' = [cache EXCEPT ![i] = rows[i]]
    BY <2>1, <2>2, <2>5 DEF Runs, HSet
  <2>7. cache' = [j \in Items |-> IF j \in q.left \ {i} THEN 0 ELSE rows[j]]
    BY <2>5, <2>6
  <2>8. QED
    BY <1>2, <2>3, <2>4, <2>5, <2>7, FollowsOn DEF CatchesUp
<1>7. CASE FillExpiry(r)
  <2>1. PICK next : next = [q EXCEPT !.pc = "reply"] /\ Becomes(r, next)
    BY <1>1, <1>7 DEF FillExpiry, Goes
  <2>2. next # Idle /\ next.pc = "reply" /\ next.cart = q.cart
    BY <2>1 DEF GetRequest, Idle
  <2>3. q.left = {} /\ q.cart = rows /\ cache' = cache
    BY <1>1, <1>2, <1>7 DEF FillExpiry, At, CatchesUp, Runs, Expire, redis
  <2>4. cache = [i \in Items |-> IF i \in q.left THEN 0 ELSE rows[i]]
    BY <1>1, <1>2, <1>7 DEF FillExpiry, At, CatchesUp
  <2>5. cache = rows
    BY <1>2, <2>3, <2>4 DEF Carts
  <2>6. QED
    BY <1>2, <2>1, <2>2, <2>3, <2>5, FollowsOn DEF CatchesUp
<1>8. QED
  BY <1>3, <1>4, <1>5, <1>6, <1>7

\* A step of one of the other calls keeps the cached cart catching up.
LEMMA OthersFollow ==
  ASSUME NothingIntervenes, TypeOK, CacheFollows, NEW r \in Requests,
         \/ Answer(r) \/ RefuseItem(r) \/ InsertItem(r) \/ CacheItem(r) \/ CacheExpiry(r)
         \/ Invalidate(r) \/ ReadCachedItem(r) \/ WriteCachedItem(r) \/ DropCachedItem(r)
  PROVE  CacheFollows'
<1>0. PICK q : q = request[r]
  OBVIOUS
<1>1. CatchesUp(q)
  <2>1. request[r] # Idle
    BY DEF Idle, Answer, RefuseItem, InsertItem, CacheItem, CacheExpiry, Invalidate,
           ReadCachedItem, WriteCachedItem, DropCachedItem, At
  <2>2. QED
    BY <1>0, <2>1 DEF CacheFollows
<1>2. rows \in Carts /\ cache \in Carts
  BY DEF TypeOK
<1>3. CASE Answer(r)
  <2>1. cache' = rows'
    BY <1>0, <1>1, <1>3 DEF Answer, At, CatchesUp, table, redis
  <2>2. QED
    BY <1>3, <2>1, FollowsOn DEF Answer, Return
<1>4. CASE RefuseItem(r)
  <2>1. PICK next : next = [q EXCEPT !.pc = "failed"] /\ Becomes(r, next)
    BY <1>0, <1>4 DEF RefuseItem, Goes
  <2>2. q \in NewRequest
    BY <1>0, <1>4, Kinds DEF RefuseItem
  <2>3. next # Idle /\ next.pc = "failed"
    BY <2>1, <2>2 DEF NewRequest, Idle
  <2>4. cache' = rows'
    BY <1>0, <1>1, <1>4 DEF RefuseItem, At, CatchesUp, table, redis
  <2>5. QED
    BY <2>1, <2>3, <2>4, FollowsOn DEF CatchesUp
<1>5. CASE InsertItem(r)
  <2>0. q \in NewRequest /\ cache = rows /\ cache' = cache
    BY <1>0, <1>1, <1>5, Kinds DEF InsertItem, At, CatchesUp, redis
  <2>1. PICK result \in Results, i \in Items \ issued :
          /\ Ends("insert", result)
          /\ IF result = "error" THEN UNCHANGED table
             ELSE rows' = [rows EXCEPT ![i] = q.quantity]
          /\ IF result # "ok" THEN Goes(r, "failed")
             ELSE Becomes(r, [call |-> "add", pc |-> "hset", item |-> i,
                              quantity |-> q.quantity])
    BY <1>0, <1>5 DEF InsertItem
  <2>2. result \in {"ok", "error"}
    BY <2>1 DEF Ends, NothingIntervenes
  <2>3. CASE result = "error"
    <3>1. PICK next : next = [q EXCEPT !.pc = "failed"] /\ Becomes(r, next)
      BY <1>0, <2>1, <2>3 DEF Goes
    <3>2. next # Idle /\ next.pc = "failed"
      BY <2>0, <3>1 DEF NewRequest, Idle
    <3>3. cache' = rows'
      BY <2>0, <2>1, <2>3 DEF table
    <3>4. QED
      BY <3>1, <3>2, <3>3, FollowsOn DEF CatchesUp
  <2>4. CASE result = "ok"
    <3>1. PICK next : /\ next = [call |-> "add", pc |-> "hset", item |-> i,
                                quantity |-> q.quantity]
                      /\ Becomes(r, next)
      BY <2>1, <2>4
    <3>2. next # Idle /\ next.pc = "hset" /\ next.item = i /\ next.quantity = q.quantity
      BY <3>1 DEF Idle
    <3>3. rows' = [cache' EXCEPT ![next.item] = next.quantity]
      BY <2>0, <2>1, <2>4, <3>2
    <3>4. CatchesUp(next)'
      BY <3>2, <3>3 DEF CatchesUp
    <3>5. QED
      BY <3>1, <3>2, <3>4, FollowsOn
  <2>5. QED
    BY <2>2, <2>3, <2>4
<1>6. CASE CacheItem(r)
  <2>0. q \in AddRequest /\ rows = [cache EXCEPT ![q.item] = q.quantity]
    BY <1>0, <1>1, <1>6, Kinds DEF CacheItem, At, CatchesUp
  <2>1. PICK result \in Results :
          /\ Ends("hset", result)
          /\ Runs(result, HSet(q.item, q.quantity))
          /\ Goes(r, IF result = "ok" THEN "expire" ELSE "invalidate")
    BY <1>0, <1>6 DEF CacheItem
  <2>2. result = "ok"
    BY <2>1 DEF Ends, NothingIntervenes
  <2>3. PICK next : next = [q EXCEPT !.pc = "expire"] /\ Becomes(r, next)
    BY <1>0, <2>1, <2>2 DEF Goes
  <2>4. next # Idle /\ next.pc = "expire"
    BY <2>0, <2>3 DEF AddRequest, Idle
  <2>5. cache' = rows'
    BY <1>6, <2>0, <2>1, <2>2 DEF CacheItem, Runs, HSet, table
  <2>6. QED
    BY <2>3, <2>4, <2>5, FollowsOn DEF CatchesUp
<1>7. CASE CacheExpiry(r)
  <2>1. PICK result \in Results :
          /\ Ends("expire", result)
          /\ Runs(result, Expire)
          /\ IF result = "ok" THEN Return(r) ELSE Goes(r, "invalidate")
    BY <1>7 DEF CacheExpiry
  <2>2. result = "ok"
    BY <2>1 DEF Ends, NothingIntervenes
  <2>3. cache' = rows'
    BY <1>0, <1>1, <1>7, <2>1, <2>2
    DEF CacheExpiry, Runs, Expire, At, CatchesUp, table
  <2>4. QED
    BY <2>1, <2>2, <2>3, FollowsOn DEF Return
<1>8. CASE Invalidate(r)
  <2>1. PICK result \in Results : Ends("invalidate", result) /\ Runs(result, Del)
    BY <1>8 DEF Invalidate
  <2>2. result # "error"
    BY <2>1 DEF Ends, NothingIntervenes
  <2>3. cache' = rows'
    BY <1>0, <1>1, <1>8, <2>1, <2>2 DEF Invalidate, Runs, Del, CatchesUp, table
  <2>4. QED
    BY <1>8, <2>3, FollowsOn DEF Invalidate, Return
<1>9. CASE ReadCachedItem(r)
  <2>0. /\ q \in UpdateRequest /\ cache[q.item] # 0
        /\ rows = [cache EXCEPT ![q.item] = q.quantity]
        /\ rows' = rows /\ cache' = cache
    BY <1>0, <1>1, <1>9, Kinds DEF ReadCachedItem, At, CatchesUp, table, redis
  <2>1. PICK result \in {"ok", "error"} :
          /\ Ends("hget", result)
          /\ Goes(r, IF result = "ok" /\ cache[q.item] # 0 THEN "hset" ELSE "invalidate")
    BY <1>0, <1>9 DEF ReadCachedItem
  <2>2. result = "ok"
    BY <2>1 DEF Ends, NothingIntervenes
  <2>3. PICK next : next = [q EXCEPT !.pc = "hset"] /\ Becomes(r, next)
    BY <1>0, <2>0, <2>1, <2>2 DEF Goes
  <2>4. /\ next # Idle /\ next.pc = "hset" /\ next.item = q.item
        /\ next.quantity = q.quantity
    BY <2>0, <2>3 DEF UpdateRequest, Idle
  <2>5. rows' = [cache' EXCEPT ![next.item] = next.quantity]
    BY <2>0, <2>4
  <2>6. CatchesUp(next)'
    BY <2>4, <2>5 DEF CatchesUp
  <2>7. QED
    BY <2>3, <2>4, <2>6, FollowsOn
<1>10. CASE WriteCachedItem(r)
  <2>1. PICK result \in Results :
          /\ Ends("hset", result)
          /\ Runs(result, HSet(q.item, q.quantity))
          /\ IF result = "ok" THEN Return(r) ELSE Goes(r, "invalidate")
    BY <1>0, <1>10 DEF WriteCachedItem
  <2>2. result = "ok"
    BY <2>1 DEF Ends, NothingIntervenes
  <2>3. cache' = rows'
    BY <1>0, <1>1, <1>10, <2>1, <2>2 DEF WriteCachedItem, Runs, HSet, At, CatchesUp, table
  <2>4. QED
    BY <2>1, <2>2, <2>3, FollowsOn DEF Return
<1>11. CASE DropCachedItem(r)
  <2>1. PICK result \in Results :
          /\ Ends("hdel", result)
          /\ Runs(result, HDel(q.item))
          /\ IF result = "ok" THEN Return(r) ELSE Goes(r, "invalidate")
    BY <1>0, <1>11 DEF DropCachedItem
  <2>2. result = "ok"
    BY <2>1 DEF Ends, NothingIntervenes
  <2>3. cache' = rows'
    BY <1>0, <1>1, <1>11, <2>1, <2>2 DEF DropCachedItem, Runs, HDel, At, CatchesUp, table
  <2>4. QED
    BY <2>1, <2>2, <2>3, FollowsOn DEF Return
<1>12. QED
  BY <1>3, <1>4, <1>5, <1>6, <1>7, <1>8, <1>9, <1>10, <1>11

\* While the calls of a user come one after the other and what writes the cache
\* succeeds, whatever errors its reads and the transactions have, GetCart answers
\* with all of the cart, from the cache or not (cart_cache_aside.go).
THEOREM AnswersAreTrue ==
  ASSUME NothingIntervenes
  PROVE  Spec => []AnswersAreComplete
<1>1. Init => CacheFollows
  BY DEF Init, CacheFollows
<1>2. TypeOK /\ CacheFollows => AnswersAreComplete
  <2>1. ASSUME CacheFollows, NEW r \in Requests, At(r, "get", "reply")
        PROVE  request[r].cart = rows
    BY <2>1 DEF CacheFollows, CatchesUp, At, Idle
  <2>2. QED
    BY <2>1 DEF AnswersAreComplete
<1>3. TypeOK /\ CacheFollows /\ [Next]_vars => CacheFollows'
  <2> SUFFICES ASSUME TypeOK, CacheFollows, [Next]_vars
               PROVE  CacheFollows'
    OBVIOUS
  <2>1. CASE UNCHANGED vars
    BY <2>1 DEF vars, table, redis, CacheFollows, CatchesUp, Quiet
  <2>2. CASE KeyExpires
    BY <2>2 DEF KeyExpires, NothingIntervenes
  <2>3. ASSUME NEW r \in Requests, Call(r) \/ Step(r)
        PROVE  CacheFollows'
    BY <2>3, CallsFollow, GetFollows, OthersFollow DEF Step
  <2>4. QED
    BY <2>1, <2>2, <2>3 DEF Next
<1>4. QED
  BY <1>1, <1>2, <1>3, TypeCorrect, PTL DEF Spec
=============================================================================
