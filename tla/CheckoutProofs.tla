---------------------------- MODULE CheckoutProofs ----------------------------
(***************************************************************************)
(* Theorems about Checkout, for any number of tabs, sneakers, requests,    *)
(* clicks, tries and faults: types, the orders that a click leaves, the    *)
(* refinement of Purchases, and what a tab shows that has the cart to      *)
(* itself.                                                                 *)
(***************************************************************************)
EXTENDS Checkout, FiniteSetTheorems, TLAPS

Active(r) == request[r] # Idle

-----------------------------------------------------------------------------
(* The invariants.                                                         *)

\* A request that comes to a call has that call to make.
GoodRequest(q) ==
  /\ q.pc = "write" =>
       /\ q.send \in CartCalls
       /\ \/ q.call = "add" /\ q.send.name = "AddToCart"
          \/ q.call = "change" /\ q.send.name = "UpdateCartItemQuantity"
          \/ q.call = "remove" /\ q.send.name = "RemoveFromCart"
  /\ q.pc = "written" => q.call \in {"add", "change", "remove"}
  /\ q.pc \in {"lookup", "order", "clear", "answer"} => q.call = "checkout"
  /\ q.pc = "lookup" => q.send = Idle
  /\ q.pc = "order" => q.send = CreateOrder(q.click, q.items)
  /\ q.pc = "clear" => q.send = ClearCart(q.click)

\* Each click has one request, and what was given up is a call.
RequestInv ==
  /\ \A r \in Requests : Active(r) => GoodRequest(request[r]) /\ request[r].click <= calls
  /\ \A q \in late :
       GoodRequest(q) /\ q.click <= calls /\ q.pc \in {"write", "order", "clear"}
  /\ \A r, s \in Requests :
       Active(r) /\ Active(s) /\ request[r].click = request[s].click => r = s

\* The tries of CreateOrder for click n that may still be done.
Outstanding(n) == {q \in late : q.pc = "order" /\ q.click = n}

\* The orders that click n has left, or may leave without a further try.
Expected(n) == orders[n] + Cardinality(Outstanding(n))

\* A click may leave an order for each try that was made.
CountInv ==
  /\ IsFiniteSet(late)
  /\ \A n \in Clicks : Expected(n) <= Tries /\ Expected(n) <= 1 + faults
  /\ \A n \in Clicks : n > calls => Expected(n) = 0
  /\ \A r \in Requests : Active(r) =>
       /\ request[r].pc = "lookup" => Expected(request[r].click) = 0
       /\ request[r].pc = "order" =>
            /\ Expected(request[r].click) <= request[r].tries - 1
            /\ Expected(request[r].click) <= faults

\* Whoever clears the cart, or is to confirm, has an order, and the customer has not
\* been told of it.
OrderedInv ==
  /\ \A n \in Clicks : n > calls => told[n] = "nothing"
  /\ \A r \in Requests : Active(r) =>
       LET q == request[r]
       IN /\ q.pc \in {"lookup", "order", "clear", "answer"} => told[q.click] = "nothing"
          /\ q.pc = "clear" \/ (q.pc = "answer" /\ q.result = "ok") => orders[q.click] > 0
  /\ \A q \in late : q.pc = "clear" => orders[q.click] > 0

\* Ids are given once.
RowsInv ==
  /\ \A row \in rows : row.id <= issued
  /\ \A row1, row2 \in rows : row1.id = row2.id => row1 = row2

OneLineEach(lines) == \A line1, line2 \in lines : line1.sneaker = line2.sneaker => line1 = line2

\* The tab shows the cart, or after an error a part of it.
Shows(t) ==
  /\ OneLineEach(shown[t])
  /\ view[t] = "exact" => shown[t] = rows
  /\ view[t] = "partial" => shown[t] \subseteq rows

\* The rows when the update that q asks for is done.
Updated(q) ==
  {IF row.id = q.send.id THEN [row EXCEPT !.quantity = q.send.quantity] ELSE row : row \in rows}

\* What the tab shows when the removal that q asks for is answered.
Left(t, q) ==
  {line \in shown[t] : \A item \in q.items : line.sneaker # item.sneaker}

\* What a tab on its own shows while its request q is on the way: what the cart will
\* be, unless the cart is going to be loaded anyway.
AddView(t, q) ==
  q.call = "add" /\ (q.pc = "write" \/ (q.pc = "written" /\ q.result = "error")) => Shows(t)

ChangeView(t, q) ==
  q.call = "change" =>
    /\ q.pc = "write" =>
         /\ OneLineEach(shown[t])
         /\ view[t] = "exact" => shown[t] = Updated(q)
         /\ view[t] = "partial" => shown[t] \subseteq Updated(q)
    /\ q.pc = "written" /\ q.result = "ok" => Shows(t)

RemoveView(t, q) ==
  q.call = "remove" =>
    /\ q.pc = "write" =>
         /\ OneLineEach(shown[t])
         /\ \E line \in shown[t] :
              /\ q.items = {line} /\ q.send.id = line.id
              /\ view[t] = "exact" => shown[t] = rows
              /\ view[t] = "partial" =>
                   shown[t] \ {line} \subseteq {row \in rows : row.id # line.id}
    /\ q.pc = "written" /\ q.result = "ok" =>
         /\ OneLineEach(shown[t])
         /\ view[t] = "exact" => Left(t, q) = rows
         /\ view[t] = "partial" => Left(t, q) \subseteq rows

OrderView(t, q) ==
  /\ q.pc \in {"lookup", "order", "clear"} /\ view[t] = "exact" => Shows(t) /\ q.items = shown[t]
  /\ q.pc = "answer" /\ q.result = "error" /\ view[t] = "exact" => Shows(t)

LoadView(t, q) ==
  /\ view[t] = "reading" => q.pc = "loaded"
  /\ q.pc = "loaded" =>
       /\ view[t] # "exact"
       /\ view[t] = "reading" => OneLineEach(rows) /\ q.items = rows
       /\ view[t] = "partial" => q.items = {}

Fits(t, q) ==
  AddView(t, q) /\ ChangeView(t, q) /\ RemoveView(t, q) /\ OrderView(t, q) /\ LoadView(t, q)

\* Tab t has the cart to itself.
HasItsView(t) ==
  /\ late = {}
  /\ \A r, s \in Requests : Active(r) /\ Active(s) => r = s
  /\ \A r \in Requests : Active(r) => request[r].tab = t /\ Fits(t, request[r])
  /\ (\A r \in Requests : ~Active(r)) => view[t] # "reading" /\ Shows(t)

\* A tab whose view is not stale has the cart to itself.
ViewInv == \A t \in Tabs : view[t] # "stale" => HasItsView(t)

\* A hash that nothing has come in the way of is the cart.
CopyInv == ~exposed => cached = rows

-----------------------------------------------------------------------------
(* What the services do with a call.                                       *)

Requested == CartCalls \union OrderCalls

\* The effect of a call, or none.
Done(c) == UNCHANGED services \/ (~Refuses(c) /\ Serve(c))

\* Idle is neither a request nor a call.
LEMMA IdleIsApart == Idle \notin RequestRecords /\ Idle \notin Requested
BY DEF Idle, RequestRecords, Requested, CartCalls, OrderCalls

\* A call counts as an order of its click, or empties the cart for it, or changes
\* the rows only.
LEMMA ServeCases ==
  ASSUME TypeOK, NEW c \in Requested, Serve(c)
  PROVE  /\ orders' = IF c.name = "CreateOrder" THEN [orders EXCEPT ![c.click] = @ + 1]
                      ELSE orders
         /\ emptied' = IF c.name = "ClearCart" THEN emptied \union {c.click} ELSE emptied
         /\ c.click \in Clicks
<1>1. c.click \in Clicks
  BY DEF Requested, CartCalls, OrderCalls
<1>2. QED
  BY <1>1 DEF Serve, AddItem, UpdateItem, RemoveItem, EmptyCart, PlaceOrder

LEMMA AddedTypes ==
  ASSUME TypeOK, NEW c \in Requested, ~Refuses(c), AddItem(c)
  PROVE  rows' \subseteq Rows /\ issued' \in 0..MaxRows
<1>1. c.sneaker \in Sneakers /\ c.quantity \in Quantities
  BY DEF AddItem, Requested, CartCalls, OrderCalls
<1>2. issued + 1 \in 1..MaxRows
  BY StoreAssumption DEF AddItem, Refuses, TypeOK
<1>3. [id |-> issued + 1, sneaker |-> c.sneaker, quantity |-> c.quantity] \in Rows
  BY <1>1, <1>2 DEF Rows
<1>4. QED
  BY <1>2, <1>3 DEF AddItem, TypeOK

LEMMA UpdatedTypes ==
  ASSUME TypeOK, NEW c \in Requested, UpdateItem(c)
  PROVE  rows' \subseteq Rows
<1>1. c.quantity \in Quantities
  BY DEF UpdateItem, Requested, CartCalls, OrderCalls
<1>2. ASSUME NEW row \in rows
      PROVE  (IF row.id = c.id THEN [row EXCEPT !.quantity = c.quantity] ELSE row) \in Rows
  BY <1>1 DEF TypeOK, Rows
<1>3. QED
  BY <1>2 DEF UpdateItem

\* The services keep their types.
LEMMA DoneTypes ==
  ASSUME TypeOK, NEW c \in Requested, Done(c)
  PROVE  /\ rows' \subseteq Rows
         /\ issued' \in 0..MaxRows
         /\ orders' \in [Clicks -> Nat]
         /\ emptied' \subseteq Clicks
<1>1. CASE UNCHANGED services
  BY <1>1 DEF services, TypeOK
<1>2. CASE ~Refuses(c) /\ Serve(c)
  <2>1. orders' \in [Clicks -> Nat] /\ emptied' \subseteq Clicks
    BY <1>2, ServeCases DEF TypeOK
  <2>2. CASE AddItem(c)
    BY <1>2, <2>1, <2>2, AddedTypes
  <2>3. CASE UpdateItem(c)
    BY <2>1, <2>3, UpdatedTypes DEF UpdateItem, TypeOK
  <2>4. CASE RemoveItem(c) \/ EmptyCart(c) \/ PlaceOrder(c)
    BY <2>1, <2>4 DEF RemoveItem, EmptyCart, PlaceOrder, TypeOK
  <2>5. QED
    BY <1>2, <2>2, <2>3, <2>4 DEF Serve
<1>3. QED
  BY <1>1, <1>2 DEF Done

LEMMA CopyTypes ==
  ASSUME TypeOK, NEW c \in Requested, rows' \subseteq Rows
  PROVE  Copy(c) \subseteq Rows
<1>1. CASE c.name = "UpdateCartItemQuantity"
  <2>1. c.quantity \in Quantities
    BY <1>1 DEF Requested, CartCalls, OrderCalls
  <2>2. HSet(c.id, c.quantity) \subseteq Rows
    BY <2>1 DEF HSet, TypeOK, Rows
  <2>3. QED
    BY <1>1, <2>2 DEF Copy
<1>2. CASE c.name # "UpdateCartItemQuantity"
  BY <1>2 DEF Copy, HDel, TypeOK
<1>3. QED
  BY <1>1, <1>2

\* So does the hash.
LEMMA ServesTypes ==
  ASSUME TypeOK, NEW c \in Requested, ~Refuses(c), NEW undisturbed, Serves(c, undisturbed)
  PROVE  cached' \subseteq Rows /\ exposed' \in BOOLEAN
<1>1. Done(c)
  BY DEF Serves, Done
<1>2. Copy(c) \subseteq Rows
  BY <1>1, DoneTypes, CopyTypes
<1>3. CASE UNCHANGED redis
  BY <1>3 DEF redis, TypeOK
<1>4. CASE cached' = Copy(c) /\ exposed' = (exposed /\ c.name # "ClearCart")
  BY <1>2, <1>4 DEF TypeOK
<1>5. CASE cached' \in {cached} \union SUBSET Copy(c) /\ exposed' = TRUE
  BY <1>2, <1>5 DEF TypeOK
<1>6. QED
  BY <1>3, <1>4, <1>5 DEF Serves

\* The commands of a call that nothing comes in the way of leave the hash as the cart,
\* if it was the cart.
LEMMA ServesCopies ==
  ASSUME CopyInv, NEW c \in Requested, ~Refuses(c), NEW undisturbed, Serves(c, undisturbed)
  PROVE  CopyInv'
<1>1. CASE c.name = "CreateOrder"
  BY <1>1 DEF Serves, Serve, AddItem, UpdateItem, RemoveItem, EmptyCart, PlaceOrder, CopyInv, redis
<1>2. CASE exposed' = TRUE
  BY <1>2 DEF CopyInv
<1>3. CASE cached' = Copy(c) /\ exposed' = (exposed /\ c.name # "ClearCart")
  <2>1. CASE AddItem(c)
    <3>1. rows \subseteq rows' /\ Copy(c) = cached \union (rows' \ rows)
      BY <2>1 DEF AddItem, Copy
    <3>2. QED
      BY <1>3, <2>1, <3>1 DEF CopyInv, AddItem
  <2>2. CASE UpdateItem(c)
    <3>1. \E row \in rows : row.id = c.id
      BY <2>2 DEF Refuses, UpdateItem
    <3>2. ~exposed => Copy(c) = HSet(c.id, c.quantity) /\ cached = rows
      BY <2>2, <3>1 DEF Copy, CopyInv, UpdateItem
    <3>3. ~exposed => HSet(c.id, c.quantity) = rows'
      BY <2>2, <3>2 DEF HSet, UpdateItem
    <3>4. QED
      BY <1>3, <2>2, <3>2, <3>3 DEF CopyInv, UpdateItem
  <2>3. CASE RemoveItem(c)
    BY <1>3, <2>3 DEF RemoveItem, Copy, HDel, CopyInv
  <2>4. CASE EmptyCart(c)
    BY <1>3, <2>4 DEF EmptyCart, Copy, CopyInv
  <2>5. CASE PlaceOrder(c)
    BY <1>1, <2>5 DEF PlaceOrder
  <2>6. QED
    BY <2>1, <2>2, <2>3, <2>4, <2>5 DEF Serves, Serve
<1>4. QED
  BY <1>1, <1>2, <1>3 DEF Serves

-----------------------------------------------------------------------------
(* The tries of a call.                                                    *)

\* What the services do in a try of r.
ServesTry(r) == Serves(request[r].send, Undisturbed(r) /\ faults' = faults)

\* The calls that change something.
Sends(r) == PostItem(r) \/ PutQuantity(r) \/ DeleteItem(r) \/ CallCreateOrder(r) \/ CallClearCart(r)

SendSteps == {"write", "order", "clear"}

\* How the request q goes on when its call is answered, or has failed for good.
Succeeded(q) ==
  CASE q.pc = "write" -> [q EXCEPT !.pc = "written", !.result = "ok", !.tries = 1]
    [] q.pc = "order" -> [q EXCEPT !.pc = "clear", !.tries = 1, !.send = ClearCart(q.click)]
    [] q.pc = "clear" -> [q EXCEPT !.pc = "answer", !.result = "ok", !.tries = 1]

Failed(q) ==
  CASE q.pc = "write" -> [q EXCEPT !.pc = "written", !.result = "error", !.tries = 1]
    [] q.pc = "order" -> [q EXCEPT !.pc = "answer", !.result = "error", !.tries = 1]
    [] q.pc = "clear" -> [q EXCEPT !.pc = "answer", !.result = "ok", !.tries = 1]

\* The service refuses the call.
SendRefused(r) ==
  /\ Refuses(request[r].send)
  /\ Becomes(r, Failed(request[r]))
  /\ UNCHANGED <<services, redis, faults, late>>

SendAnswered(r) ==
  /\ ~Refuses(request[r].send)
  /\ ServesTry(r)
  /\ Becomes(r, Succeeded(request[r]))
  /\ UNCHANGED <<faults, late>>

\* A fault: the call was done, was not, or may be done later, and it is tried
\* again, or has failed for good.
SendFaulted(r) ==
  /\ ~Refuses(request[r].send)
  /\ Fault
  /\ \/ ServesTry(r) /\ UNCHANGED late
     \/ UNCHANGED <<services, redis>> /\ UNCHANGED late
     \/ UNCHANGED <<services, redis>> /\ late' = late \union {request[r]}
  /\ \/ Becomes(r, Failed(request[r]))
     \/ /\ request[r].tries < Tries
        /\ Becomes(r, [request[r] EXCEPT !.tries = @ + 1])

\* A try ends in one of these ways.
LEMMA TryCases ==
  ASSUME NEW r \in Requests, NEW step,
         ~Refuses(request[r].send),
         \/ \E result \in Results :
              /\ Ends(step, result)
              /\ IF result = "error" THEN UNCHANGED <<services, redis>> ELSE ServesTry(r)
              /\ Becomes(r, IF result = "ok" THEN Succeeded(request[r]) ELSE Failed(request[r]))
              /\ UNCHANGED late
         \/ /\ GivesUp(r, step, ServesTry(r), UNCHANGED <<services, redis>>)
            /\ IF TriesAgain(r) THEN Becomes(r, [request[r] EXCEPT !.tries = @ + 1])
               ELSE Becomes(r, Failed(request[r]))
  PROVE  SendAnswered(r) \/ SendFaulted(r)
<1>1. CASE /\ GivesUp(r, step, ServesTry(r), UNCHANGED <<services, redis>>)
           /\ IF TriesAgain(r) THEN Becomes(r, [request[r] EXCEPT !.tries = @ + 1])
              ELSE Becomes(r, Failed(request[r]))
  <2>1. CASE TriesAgain(r)
    BY <1>1, <2>1 DEF GivesUp, TriesAgain, SendFaulted
  <2>2. CASE ~TriesAgain(r)
    BY <1>1, <2>2 DEF GivesUp, SendFaulted
  <2>3. QED
    BY <2>1, <2>2
<1>2. ASSUME NEW result \in Results,
             /\ Ends(step, result)
             /\ IF result = "error" THEN UNCHANGED <<services, redis>> ELSE ServesTry(r)
             /\ Becomes(r, IF result = "ok" THEN Succeeded(request[r]) ELSE Failed(request[r]))
             /\ UNCHANGED late
      PROVE  SendAnswered(r) \/ SendFaulted(r)
  <2>1. CASE result = "ok"
    BY <1>2, <2>1 DEF Ends, SendAnswered
  <2>2. CASE result # "ok"
    BY <1>2, <2>2 DEF Ends, SendFaulted
  <2>3. QED
    BY <2>1, <2>2
<1>3. QED
  BY <1>1, <1>2

\* A call of the gateway is refused, answered or meets a fault.
LEMMA SendCases ==
  ASSUME NEW r \in Requests, Sends(r), GoodRequest(request[r])
  PROVE  /\ request[r].pc \in SendSteps
         /\ Watch
         /\ UNCHANGED <<tabs, calls>>
         /\ SendRefused(r) \/ SendAnswered(r) \/ SendFaulted(r)
<1> DEFINE q == request[r]
<1>1. CASE PostItem(r) \/ PutQuantity(r) \/ DeleteItem(r)
  <2>1. /\ q.pc = "write"
        /\ Send(r, LAMBDA result : GoesWith(r, "written", result))
    BY <1>1 DEF PostItem, PutQuantity, DeleteItem, At
  <2>2. /\ GoesWith(r, "written", "ok") <=> Becomes(r, Succeeded(q))
        /\ GoesWith(r, "written", "error") <=> Becomes(r, Failed(q))
    BY <2>1 DEF GoesWith, Succeeded, Failed
  <2>3. CASE Refuses(q.send)
    BY <2>1, <2>2, <2>3 DEF Send, SendRefused, SendSteps
  <2>4. CASE ~Refuses(q.send)
    BY <2>1, <2>2, <2>4, TryCases DEF Send, Try, SendSteps, ServesTry
  <2>5. QED
    BY <2>3, <2>4
<1>2. CASE CallCreateOrder(r)
  <2>1. /\ q.pc = "order"
        /\ Send(r, LAMBDA result : IF result = "error" THEN GoesWith(r, "answer", "error")
                                 ELSE GoesTo(r, "clear", ClearCart(q.click)))
    BY <1>2 DEF CallCreateOrder
  <2>2. /\ GoesTo(r, "clear", ClearCart(q.click)) <=> Becomes(r, Succeeded(q))
        /\ GoesWith(r, "answer", "error") <=> Becomes(r, Failed(q))
    BY <2>1 DEF GoesWith, GoesTo, Succeeded, Failed
  <2>3. CASE Refuses(q.send)
    BY <2>1, <2>2, <2>3 DEF Send, SendRefused, SendSteps
  <2>4. CASE ~Refuses(q.send)
    BY <2>1, <2>2, <2>4, TryCases DEF Send, Try, SendSteps, ServesTry
  <2>5. QED
    BY <2>3, <2>4
<1>3. CASE CallClearCart(r)
  <2>1. /\ q.pc = "clear"
        /\ Send(r, LAMBDA result : GoesWith(r, "answer", "ok"))
    BY <1>3 DEF CallClearCart
  <2>2. /\ GoesWith(r, "answer", "ok") <=> Becomes(r, Succeeded(q))
        /\ GoesWith(r, "answer", "ok") <=> Becomes(r, Failed(q))
    BY <2>1 DEF GoesWith, GoesTo, Succeeded, Failed
  <2>3. CASE Refuses(q.send)
    BY <2>1, <2>2, <2>3 DEF Send, SendRefused, SendSteps
  <2>4. CASE ~Refuses(q.send)
    BY <2>1, <2>2, <2>4, TryCases DEF Send, Try, SendSteps, ServesTry
  <2>5. QED
    BY <2>3, <2>4
<1>4. QED
  BY <1>1, <1>2, <1>3 DEF Sends

-----------------------------------------------------------------------------
(* How requests go on.                                                     *)

\* A request that is at work is one of the records.
LEMMA AtWork ==
  ASSUME TypeOK, NEW r \in Requests, Active(r)
  PROVE  request[r] \in RequestRecords
BY DEF TypeOK, Active

\* A request that comes to a call has a call of a service to make.
LEMMA HasCall ==
  ASSUME NEW q \in RequestRecords, GoodRequest(q), q.pc \in SendSteps
  PROVE  q.send \in Requested
<1>1. CASE q.pc = "write"
  BY <1>1 DEF GoodRequest, Requested
<1>2. CASE q.pc = "order"
  BY <1>2 DEF GoodRequest, Requested, CreateOrder, OrderCalls, RequestRecords
<1>3. CASE q.pc = "clear"
  BY <1>3 DEF GoodRequest, Requested, ClearCart, CartCalls, RequestRecords
<1>4. QED
  BY <1>1, <1>2, <1>3 DEF SendSteps

\* A request is as good after a try as before it.
LEMMA TriedIsGood ==
  ASSUME NEW q \in RequestRecords, GoodRequest(q), q.pc \in SendSteps
  PROVE  /\ Succeeded(q) \in RequestRecords /\ GoodRequest(Succeeded(q))
         /\ Failed(q) \in RequestRecords /\ GoodRequest(Failed(q))
         /\ q.tries < Tries =>
              /\ [q EXCEPT !.tries = @ + 1] \in RequestRecords
              /\ GoodRequest([q EXCEPT !.tries = @ + 1])
<1>0. 1 \in 1..Tries
  BY TriesAssumption
<1>1. ClearCart(q.click) \in CartCalls
  BY DEF ClearCart, CartCalls, RequestRecords
<1>2. q.tries < Tries => /\ [q EXCEPT !.tries = @ + 1] \in RequestRecords
                         /\ GoodRequest([q EXCEPT !.tries = @ + 1])
  <2>1. q.tries < Tries => q.tries + 1 \in 1..Tries
    BY TriesAssumption DEF RequestRecords
  <2>2. QED
    BY <2>1 DEF GoodRequest, RequestRecords
<1>3. CASE q.pc = "write"
  BY <1>0, <1>2, <1>3 DEF Succeeded, Failed, GoodRequest, RequestRecords, RequestSteps
<1>4. CASE q.pc = "order"
  BY <1>0, <1>1, <1>2, <1>4 DEF Succeeded, Failed, GoodRequest, RequestRecords, RequestSteps
<1>5. CASE q.pc = "clear"
  BY <1>0, <1>2, <1>5 DEF Succeeded, Failed, GoodRequest, RequestRecords, RequestSteps
<1>6. QED
  BY <1>3, <1>4, <1>5 DEF SendSteps

\* A click of tab t becomes request r, as q.
Begins(r, t, q) ==
  /\ ~Active(r)
  /\ calls < MaxCalls
  /\ calls' = calls + 1
  /\ Becomes(r, q)
  /\ q \in RequestRecords
  /\ GoodRequest(q)
  /\ q.tab = t
  /\ q.click = calls'
  /\ q.pc \in {"load", "write", "lookup"}
  /\ Disturb(r, t)
  /\ UNCHANGED <<services, redis, told, faults, late>>

\* The request that a click becomes.
Asked(op, t, pc, send, items) ==
  [call |-> op, tab |-> t, click |-> calls + 1, pc |-> pc, tries |-> 1,
   send |-> send, items |-> items, result |-> "ok"]

LEMMA ClickedBegins ==
  ASSUME TypeOK, NEW r \in Requests, NEW t \in Tabs, NEW op \in Operations,
         NEW pc \in {"load", "write", "lookup"},
         NEW send \in {Idle} \union CartCalls, NEW items \in SUBSET Lines,
         Clicked(r, op, t, pc, send, items),
         GoodRequest(Asked(op, t, pc, send, items))
  PROVE  Begins(r, t, Asked(op, t, pc, send, items))
<1>1. 1 \in 1..Tries /\ calls < MaxCalls /\ calls + 1 \in Clicks
  BY TriesAssumption, CallAssumption DEF Clicked, Starts, TypeOK
<1>2. Asked(op, t, pc, send, items) \in RequestRecords
  BY <1>1 DEF Asked, RequestRecords, RequestSteps
<1>3. /\ Asked(op, t, pc, send, items).tab = t
      /\ Asked(op, t, pc, send, items).click = calls + 1
      /\ Asked(op, t, pc, send, items).pc = pc
  BY DEF Asked
<1>4. Becomes(r, Asked(op, t, pc, send, items))
  BY DEF Clicked, Asked
<1>5. QED
  BY <1>1, <1>2, <1>3, <1>4 DEF Begins, Clicked, Starts, Active

LEMMA BecomesStays ==
  ASSUME TypeOK, NEW r \in Requests, NEW next \in {Idle} \union RequestRecords,
         Becomes(r, next)
  PROVE  /\ request' \in [Requests -> {Idle} \union RequestRecords]
         /\ request'[r] = next
         /\ \A s \in Requests : s # r => request'[s] = request[s]
BY DEF TypeOK, Becomes

-----------------------------------------------------------------------------
(* The clicks.                                                             *)

LEMMA ViewTypes ==
  ASSUME TypeOK
  PROVE  /\ Watch => view' \in [Tabs -> Views]
         /\ \A r \in Requests, t \in Tabs : Disturb(r, t) => view' \in [Tabs -> Views]
<1>1. Watch => view' \in [Tabs -> Views]
  BY DEF TypeOK, Watch, Views
<1>2. ASSUME NEW r \in Requests, NEW t \in Tabs, Disturb(r, t)
      PROVE  view' \in [Tabs -> Views]
  BY <1>2 DEF TypeOK, Disturb, Views
<1>3. QED
  BY <1>1, <1>2

OpenRequest(t) == Asked("open", t, "load", Idle, {})

LEMMA OpenBegins ==
  ASSUME TypeOK, NEW r \in Requests, NEW t \in Tabs, Open(r, t)
  PROVE  Begins(r, t, OpenRequest(t)) /\ shown' \in [Tabs -> SUBSET Lines]
<1>1. GoodRequest(OpenRequest(t))
  BY DEF GoodRequest, OpenRequest, Asked
<1>2. Begins(r, t, OpenRequest(t))
  BY <1>1, ClickedBegins DEF Open, OpenRequest, Operations
<1>3. QED
  BY <1>2 DEF Open, TypeOK

NewLine(s) == [id |-> -(calls + 1), sneaker |-> s, quantity |-> 1]

AddRequest(t, s) == Asked("add", t, "write", AddToCart(calls + 1, s), {NewLine(s)})

LEMMA AddBegins ==
  ASSUME TypeOK, NEW r \in Requests, NEW t \in Tabs, NEW s \in Sneakers, Add(r, t, s)
  PROVE  Begins(r, t, AddRequest(t, s))
<1>1. calls + 1 \in Clicks
  BY CallAssumption DEF Add, Clicked, Starts, TypeOK
<1>2. 1 \in Quantities
  BY StoreAssumption DEF Quantities
<1>3. AddToCart(calls + 1, s) \in CartCalls
  BY <1>1, <1>2 DEF AddToCart, CartCalls
<1>4. {NewLine(s)} \in SUBSET Lines
  BY <1>1, <1>2 DEF NewLine, Lines
<1>5. GoodRequest(AddRequest(t, s))
  BY <1>3 DEF GoodRequest, AddRequest, Asked, AddToCart
<1>6. QED
  BY <1>3, <1>4, <1>5, ClickedBegins DEF Add, AddRequest, NewLine, Operations

\* A line with an id is that of a row.
LEMMA SavedIds ==
  ASSUME TypeOK, NEW t \in Tabs, NEW s \in Sneakers, NEW line \in Found(t, s)
  PROVE  /\ line \in shown[t] /\ line \in Lines /\ line.sneaker = s
         /\ IsSaved(line) => line.id \in 1..MaxRows
<1>1. line \in shown[t] /\ line \in Lines /\ line.sneaker = s
  BY DEF Found, LinesOf, TypeOK
<1>2. \A n \in Clicks : ~(-n > 0)
  BY StoreAssumption
<1>3. QED
  BY <1>1, <1>2 DEF IsSaved, Lines

ChangeRequest(t, line, quantity) ==
  Asked("change", t, "write", UpdateCartItemQuantity(calls + 1, line.id, quantity), {})

\* Change, of the line that it finds.
LEMMA ChangeBegins ==
  ASSUME TypeOK, NEW r \in Requests, NEW t \in Tabs, NEW s \in Sneakers,
         NEW step \in {1, -1}, Change(r, t, s, step)
  PROVE  /\ \E line \in Found(t, s) :
              /\ line.quantity + step \in Quantities
              /\ Begins(r, t, ChangeRequest(t, line, line.quantity + step))
              /\ ShowQuantity(t, s, line.quantity + step)
         /\ shown' \in [Tabs -> SUBSET Lines]
<1>1. PICK line \in Found(t, s) :
        /\ IsSaved(line)
        /\ line.quantity + step \in Quantities
        /\ Clicked(r, "change", t, "write",
                   UpdateCartItemQuantity(calls + 1, line.id, line.quantity + step), {})
        /\ ShowQuantity(t, s, line.quantity + step)
  BY DEF Change
<1> DEFINE quantity == line.quantity + step
<1>2. calls + 1 \in Clicks /\ line.id \in 1..MaxRows
  BY <1>1, SavedIds, CallAssumption DEF Clicked, Starts, TypeOK
<1>3. UpdateCartItemQuantity(calls + 1, line.id, quantity) \in CartCalls
  BY <1>1, <1>2 DEF UpdateCartItemQuantity, CartCalls
<1>4. GoodRequest(ChangeRequest(t, line, quantity))
  BY <1>3 DEF GoodRequest, ChangeRequest, Asked, UpdateCartItemQuantity
<1>5. Begins(r, t, ChangeRequest(t, line, quantity))
  BY <1>1, <1>3, <1>4, ClickedBegins DEF ChangeRequest, Operations
<1>6. ASSUME NEW other \in shown[t]
      PROVE  (IF other.sneaker = s THEN [other EXCEPT !.quantity = quantity] ELSE other) \in Lines
  BY <1>1 DEF TypeOK, Lines
<1>7. shown' \in [Tabs -> SUBSET Lines]
  BY <1>1, <1>6 DEF ShowQuantity, TypeOK
<1>8. QED
  BY <1>1, <1>5, <1>7

RemoveRequest(t, line) ==
  Asked("remove", t, "write", RemoveFromCart(calls + 1, line.id), {line})

LEMMA RemoveBegins ==
  ASSUME TypeOK, NEW r \in Requests, NEW t \in Tabs, NEW s \in Sneakers, Remove(r, t, s)
  PROVE  \E line \in Found(t, s) : Begins(r, t, RemoveRequest(t, line))
<1>1. PICK line \in Found(t, s) :
        /\ IsSaved(line)
        /\ Clicked(r, "remove", t, "write", RemoveFromCart(calls + 1, line.id), {line})
  BY DEF Remove
<1>2. calls + 1 \in Clicks /\ line.id \in 1..MaxRows /\ {line} \in SUBSET Lines
  BY <1>1, SavedIds, CallAssumption DEF Clicked, Starts, TypeOK
<1>3. RemoveFromCart(calls + 1, line.id) \in CartCalls
  BY <1>2 DEF RemoveFromCart, CartCalls
<1>4. GoodRequest(RemoveRequest(t, line))
  BY <1>3 DEF GoodRequest, RemoveRequest, Asked, RemoveFromCart
<1>5. QED
  BY <1>1, <1>2, <1>3, <1>4, ClickedBegins DEF RemoveRequest, Operations

OrderRequest(t) == Asked("checkout", t, "lookup", Idle, shown[t])

LEMMA OrderBegins ==
  ASSUME TypeOK, NEW r \in Requests, NEW t \in Tabs, PressOrder(r, t)
  PROVE  Begins(r, t, OrderRequest(t))
<1>1. GoodRequest(OrderRequest(t))
  BY DEF GoodRequest, OrderRequest, Asked
<1>2. shown[t] \in SUBSET Lines
  BY DEF TypeOK
<1>3. QED
  BY <1>1, <1>2, ClickedBegins DEF PressOrder, OrderRequest, Operations

\* Every click begins a request, and leaves the tabs as they should be.
LEMMA ClickBegins ==
  ASSUME TypeOK, NEW r \in Requests, NEW t \in Tabs, Click(r, t)
  PROVE  /\ \E q : Begins(r, t, q)
         /\ shown' \in [Tabs -> SUBSET Lines]
         /\ loading' \in [Tabs -> BOOLEAN]
         /\ creating' \in [Tabs -> BOOLEAN]
<1>1. CASE Open(r, t)
  BY <1>1, OpenBegins DEF Open, Waits, TypeOK
<1>2. ASSUME NEW s \in Sneakers, Add(r, t, s)
      PROVE  /\ \E q : Begins(r, t, q)
             /\ shown' \in [Tabs -> SUBSET Lines]
             /\ loading' \in [Tabs -> BOOLEAN]
             /\ creating' \in [Tabs -> BOOLEAN]
  BY <1>2, AddBegins DEF Add, Waits, TypeOK
<1>3. ASSUME NEW s \in Sneakers, NEW step \in {1, -1}, Change(r, t, s, step)
      PROVE  /\ \E q : Begins(r, t, q)
             /\ shown' \in [Tabs -> SUBSET Lines]
             /\ loading' \in [Tabs -> BOOLEAN]
             /\ creating' \in [Tabs -> BOOLEAN]
  <2>1. (\E q : Begins(r, t, q)) /\ shown' \in [Tabs -> SUBSET Lines]
    BY <1>3, ChangeBegins
  <2>2. QED
    BY <1>3, <2>1 DEF Change, Waits, TypeOK
<1>4. ASSUME NEW s \in Sneakers, Remove(r, t, s)
      PROVE  /\ \E q : Begins(r, t, q)
             /\ shown' \in [Tabs -> SUBSET Lines]
             /\ loading' \in [Tabs -> BOOLEAN]
             /\ creating' \in [Tabs -> BOOLEAN]
  <2>1. \E q : Begins(r, t, q)
    BY <1>4, RemoveBegins
  <2>2. QED
    BY <1>4, <2>1 DEF Remove, Waits, TypeOK
<1>5. CASE PressOrder(r, t)
  BY <1>5, OrderBegins DEF PressOrder, TypeOK
<1>6. QED
  BY <1>1, <1>2, <1>3, <1>4, <1>5 DEF Click

-----------------------------------------------------------------------------
(* The steps of a request.                                                 *)

\* What every step of a request has in common.
GoesOn(r) ==
  /\ Active(r)
  /\ \E next \in {Idle} \union RequestRecords :
       /\ Becomes(r, next)
       /\ next # Idle => /\ GoodRequest(next)
                         /\ next.click = request[r].click
                         /\ next.tab = request[r].tab
  /\ \/ late' = late
     \/ request[r].pc \in SendSteps /\ late' = late \union {request[r]}
  /\ \/ UNCHANGED services
     \/ request[r].pc \in SendSteps /\ Done(request[r].send)
  /\ late' = late \/ UNCHANGED services
  /\ faults' \in 0..MaxFaults
  /\ faults' >= faults
  /\ calls' = calls

LEMMA EndsCounts ==
  ASSUME TypeOK, NEW step, NEW result, Ends(step, result)
  PROVE  faults' \in 0..MaxFaults
BY FaultAssumption DEF TypeOK, Ends, Fault

LEMMA FaultCounts ==
  ASSUME TypeOK, Fault
  PROVE  faults' \in 0..MaxFaults /\ faults' = faults + 1 /\ faults' >= faults
BY FaultAssumption DEF TypeOK, Fault

LEMMA FaultsStay ==
  ASSUME TypeOK, UNCHANGED faults
  PROVE  faults' \in 0..MaxFaults /\ faults' >= faults
BY FaultAssumption DEF TypeOK

LEMMA PcIsActive ==
  ASSUME NEW r \in Requests, request[r].pc \in RequestSteps
  PROVE  Active(r)
BY DEF Active, Idle, RequestSteps

LEMMA RowsAreLines == Rows \subseteq Lines
BY DEF Rows, Lines

LEMMA SendGoesOn ==
  ASSUME TypeOK, RequestInv, NEW r \in Requests, Sends(r)
  PROVE  GoesOn(r) /\ request[r].pc \in SendSteps
<1> DEFINE q == request[r]
<1>1. Active(r)
  BY PcIsActive DEF Sends, PostItem, PutQuantity, DeleteItem, CallCreateOrder, CallClearCart,
                    At, RequestSteps, Active
<1>2. q \in RequestRecords /\ GoodRequest(q)
  BY <1>1, AtWork DEF RequestInv
<1>3. /\ q.pc \in SendSteps
      /\ UNCHANGED <<tabs, calls>>
      /\ SendRefused(r) \/ SendAnswered(r) \/ SendFaulted(r)
  BY <1>2, SendCases
<1>4. /\ Succeeded(q).click = q.click /\ Succeeded(q).tab = q.tab
      /\ Failed(q).click = q.click /\ Failed(q).tab = q.tab
      /\ [q EXCEPT !.tries = @ + 1].click = q.click
      /\ [q EXCEPT !.tries = @ + 1].tab = q.tab
  BY <1>2, <1>3 DEF Succeeded, Failed, SendSteps, RequestRecords
<1>5. CASE SendRefused(r)
  BY <1>1, <1>2, <1>3, <1>4, <1>5, TriedIsGood, FaultsStay DEF SendRefused, GoesOn
<1>6. CASE SendAnswered(r)
  BY <1>1, <1>2, <1>3, <1>4, <1>6, TriedIsGood, FaultsStay DEF SendAnswered, GoesOn, Done, ServesTry, Serves
<1>7. CASE SendFaulted(r)
  <2>1. faults' \in 0..MaxFaults /\ faults' >= faults
    BY <1>7, FaultCounts DEF SendFaulted
  <2>2. UNCHANGED services \/ Done(q.send)
    BY <1>7 DEF SendFaulted, Done, ServesTry, Serves
  <2>3. /\ late' = late \/ late' = late \union {q}
        /\ late' = late \/ UNCHANGED services
    BY <1>7 DEF SendFaulted
  <2>4. CASE Becomes(r, Failed(q))
    BY <1>1, <1>2, <1>3, <1>4, <2>1, <2>2, <2>3, <2>4, TriedIsGood DEF GoesOn
  <2>5. CASE q.tries < Tries /\ Becomes(r, [q EXCEPT !.tries = @ + 1])
    BY <1>1, <1>2, <1>3, <1>4, <2>1, <2>2, <2>3, <2>5, TriedIsGood DEF GoesOn
  <2>6. QED
    BY <1>7, <2>4, <2>5 DEF SendFaulted
<1>8. QED
  BY <1>3, <1>5, <1>6, <1>7

\* The request that a reading of the cart leaves.
Loaded(q, result, answer) == [q EXCEPT !.pc = "loaded", !.result = result, !.items = answer]

\* How a reading is answered: with the cart, unless the hash is exposed by then.
ReadAnswered(r) ==
  \E answer \in SUBSET Rows :
    /\ Becomes(r, Loaded(request[r], "ok", answer))
    /\ UNCHANGED faults
    /\ CopyInv /\ ~exposed' => answer = rows
    /\ view' = [view EXCEPT ![request[r].tab] =
                  IF Alone(r) /\ ~exposed' THEN "reading" ELSE "stale"]

ReadFailed(r) ==
  /\ Becomes(r, Loaded(request[r], "error", {}))
  /\ Fault
  /\ Watch

\* What a reading does to the hash.
ReadCopies == UNCHANGED redis \/ FillsCopy \/ FillsPartly

LEMMA ReadCases ==
  ASSUME TypeOK, NEW r \in Requests, ReadCart(r)
  PROVE  /\ request[r].pc = "load"
         /\ UNCHANGED <<services, tabs, calls, late>>
         /\ ReadCopies
         /\ ReadAnswered(r) \/ ReadFailed(r)
<1> DEFINE q == request[r]
           GivesError == /\ Becomes(r, Loaded(q, "error", {}))
                         /\ UNCHANGED redis \/ FillsPartly
                         /\ Watch
           GivesItems == \/ HitsCopy /\ Becomes(r, Loaded(q, "ok", cached))
                         \/ FillsCopy /\ Becomes(r, Loaded(q, "ok", rows))
                         \/ /\ FillsPartly
                            /\ \/ Becomes(r, Loaded(q, "ok", rows))
                               \/ Becomes(r, Loaded(q, "ok", cached'))
           Seen == view' = [view EXCEPT ![q.tab] =
                              IF Alone(r) /\ ~exposed' THEN "reading" ELSE "stale"]
<1>1. /\ q.pc = "load"
      /\ UNCHANGED <<services, tabs, calls, late>>
      /\ \E result \in {"ok", "error"} :
           /\ Ends("load", result)
           /\ IF result = "error" THEN GivesError ELSE GivesItems /\ Seen
  BY DEF ReadCart, Read, Loads, Loaded
<1>2. CASE Ends("load", "error") /\ GivesError
  BY <1>1, <1>2 DEF Ends, ReadFailed, ReadCopies
<1>3. CASE Ends("load", "ok") /\ GivesItems /\ Seen
  <2>1. /\ UNCHANGED faults
        /\ rows \in SUBSET Rows /\ cached \in SUBSET Rows
        /\ FillsPartly => cached' \in SUBSET Rows
    BY <1>3 DEF Ends, TypeOK, FillsPartly
  <2>2. CASE HitsCopy /\ Becomes(r, Loaded(q, "ok", cached))
    <3>1. CopyInv /\ ~exposed' => cached = rows
      BY <2>2 DEF HitsCopy, redis, CopyInv
    <3>2. QED
      BY <1>1, <1>3, <2>1, <2>2, <3>1 DEF HitsCopy, ReadCopies, ReadAnswered
  <2>3. CASE FillsCopy /\ Becomes(r, Loaded(q, "ok", rows))
    BY <1>1, <1>3, <2>1, <2>3 DEF ReadCopies, ReadAnswered
  <2>4. CASE FillsPartly /\ Becomes(r, Loaded(q, "ok", rows))
    BY <1>1, <1>3, <2>1, <2>4 DEF ReadCopies, ReadAnswered
  <2>5. CASE FillsPartly /\ Becomes(r, Loaded(q, "ok", cached'))
    <3>1. exposed' = TRUE
      BY <2>5 DEF FillsPartly
    <3>2. QED
      BY <1>1, <1>3, <2>1, <2>5, <3>1 DEF ReadCopies, ReadAnswered
  <2>6. QED
    BY <1>3, <2>2, <2>3, <2>4, <2>5
<1>4. QED
  BY <1>1, <1>2, <1>3

LEMMA ReadGoesOn ==
  ASSUME TypeOK, RequestInv, NEW r \in Requests, ReadCart(r)
  PROVE  GoesOn(r)
<1> DEFINE q == request[r]
<1>1. Active(r)
  BY PcIsActive DEF ReadCart, RequestSteps
<1>2. q \in RequestRecords
  BY <1>1, AtWork
<1>3. ASSUME NEW result \in {"ok", "error"}, NEW answer \in SUBSET Rows
      PROVE  LET next == Loaded(q, result, answer)
             IN /\ next \in RequestRecords
                /\ GoodRequest(next)
                /\ next.click = q.click
                /\ next.tab = q.tab
  BY <1>2, RowsAreLines DEF Loaded, RequestRecords, RequestSteps, GoodRequest
<1>4. UNCHANGED <<services, calls, late>>
  BY ReadCases
<1>5. CASE ReadAnswered(r)
  <2>1. PICK answer \in SUBSET Rows : Becomes(r, Loaded(q, "ok", answer))
    BY <1>5 DEF ReadAnswered
  <2>2. faults' \in 0..MaxFaults /\ faults' >= faults
    BY <1>5, FaultsStay DEF ReadAnswered
  <2>3. QED
    BY <1>1, <1>3, <1>4, <2>1, <2>2 DEF GoesOn
<1>6. CASE ReadFailed(r)
  <2>1. faults' \in 0..MaxFaults /\ faults' >= faults
    BY <1>6, FaultCounts DEF ReadFailed
  <2>2. {} \in SUBSET Rows
    OBVIOUS
  <2>3. QED
    BY <1>1, <1>3, <1>4, <1>6, <2>1, <2>2 DEF GoesOn, ReadFailed
<1>7. QED
  BY <1>5, <1>6, ReadCases

\* The request that asks for the order.
LookedUp(q) ==
  [q EXCEPT !.pc = "order", !.tries = 1, !.send = CreateOrder(q.click, q.items)]

NotLookedUp(q) == [q EXCEPT !.pc = "answer", !.result = "error", !.tries = 1]

LEMMA LookUpCases ==
  ASSUME TypeOK, NEW r \in Requests, LookUpItems(r)
  PROVE  /\ request[r].pc = "lookup"
         /\ UNCHANGED <<services, tabs, calls, late>>
         /\ Watch
         /\ \/ Becomes(r, LookedUp(request[r])) /\ UNCHANGED faults
            \/ Becomes(r, NotLookedUp(request[r])) /\ Fault
<1>1. /\ request[r].pc = "lookup"
      /\ UNCHANGED <<services, tabs, calls, late>>
      /\ Watch
      /\ \E result \in {"ok", "error"} :
           /\ Ends("lookup", result)
           /\ IF result = "error" THEN Becomes(r, NotLookedUp(request[r]))
              ELSE Becomes(r, LookedUp(request[r]))
  BY DEF LookUpItems, Read, GoesWith, GoesTo, LookedUp, NotLookedUp
<1>2. QED
  BY <1>1 DEF Ends

LEMMA LookUpGoesOn ==
  ASSUME TypeOK, RequestInv, NEW r \in Requests, LookUpItems(r)
  PROVE  GoesOn(r)
<1> DEFINE q == request[r]
<1>1. Active(r)
  BY PcIsActive DEF LookUpItems, RequestSteps
<1>2. q \in RequestRecords /\ GoodRequest(q) /\ q.pc = "lookup"
  BY <1>1, AtWork, LookUpCases DEF RequestInv
<1>3. CreateOrder(q.click, q.items) \in OrderCalls
  BY <1>2 DEF CreateOrder, OrderCalls, RequestRecords
<1>4. 1 \in 1..Tries
  BY TriesAssumption
<1>5. /\ LookedUp(q) \in RequestRecords /\ GoodRequest(LookedUp(q))
      /\ LookedUp(q).click = q.click /\ LookedUp(q).tab = q.tab
  BY <1>2, <1>3, <1>4 DEF LookedUp, RequestRecords, RequestSteps, GoodRequest
<1>6. /\ NotLookedUp(q) \in RequestRecords /\ GoodRequest(NotLookedUp(q))
      /\ NotLookedUp(q).click = q.click /\ NotLookedUp(q).tab = q.tab
  BY <1>2, <1>4 DEF NotLookedUp, RequestRecords, RequestSteps, GoodRequest
<1>7. faults' \in 0..MaxFaults /\ faults' >= faults
  BY LookUpCases, FaultCounts DEF TypeOK
<1>8. QED
  BY <1>1, <1>5, <1>6, <1>7, LookUpCases DEF GoesOn

LEMMA CutGoesOn ==
  ASSUME TypeOK, RequestInv, NEW r \in Requests, Cut(r)
  PROVE  GoesOn(r)
<1> DEFINE q == request[r]
<1>1. Active(r)
  BY PcIsActive DEF Cut, RequestSteps
<1>2. q \in RequestRecords /\ GoodRequest(q) /\ q.pc \in {"lookup", "order", "clear"}
  BY <1>1, AtWork DEF RequestInv, Cut
<1>3. 1 \in 1..Tries
  BY TriesAssumption
<1>4. /\ NotLookedUp(q) \in RequestRecords /\ GoodRequest(NotLookedUp(q))
      /\ NotLookedUp(q).click = q.click /\ NotLookedUp(q).tab = q.tab
  BY <1>2, <1>3 DEF NotLookedUp, RequestRecords, RequestSteps, GoodRequest
<1>5. q.send # Idle => q.pc \in SendSteps
  BY <1>2 DEF GoodRequest, SendSteps
<1>6. Becomes(r, NotLookedUp(q))
  BY DEF Cut, GoesWith, NotLookedUp
<1>7. faults' \in 0..MaxFaults /\ faults' >= faults
  BY FaultCounts DEF Cut
<1>8. QED
  BY <1>1, <1>4, <1>5, <1>6, <1>7 DEF GoesOn, Cut, Done, Serves

Answers(r) ==
  AddAnswered(r) \/ ChangeAnswered(r) \/ RemoveAnswered(r) \/ ShowCart(r) \/ OrderAnswered(r)

AnswerSteps == {"written", "loaded", "answer"}

\* Whatever the answer, the request ends or loads the cart.
LEMMA AnswerGoesOn ==
  ASSUME TypeOK, RequestInv, NEW r \in Requests, Answers(r)
  PROVE  /\ GoesOn(r)
         /\ request[r].pc \in AnswerSteps
         /\ Becomes(r, Idle) \/ Becomes(r, [request[r] EXCEPT !.pc = "load"])
         /\ UNCHANGED <<services, calls, faults, late>>
<1> DEFINE q == request[r]
<1>1. /\ q.pc \in AnswerSteps
      /\ Becomes(r, Idle) \/ Becomes(r, [q EXCEPT !.pc = "load"])
      /\ UNCHANGED <<services, calls, faults, late>>
  <2>1. CASE AddAnswered(r)
    BY <2>1 DEF AddAnswered, At, Finish, Reload, Return, Goes, AnswerSteps
  <2>2. CASE ChangeAnswered(r)
    BY <2>2 DEF ChangeAnswered, At, Finish, Reload, Return, Goes, AnswerSteps
  <2>3. CASE RemoveAnswered(r)
    BY <2>3 DEF RemoveAnswered, At, Finish, Reload, Return, Goes, AnswerSteps
  <2>4. CASE ShowCart(r)
    BY <2>4 DEF ShowCart, Finish, Return, AnswerSteps
  <2>5. CASE OrderAnswered(r)
    BY <2>5 DEF OrderAnswered, At, Reload, Return, Goes, AnswerSteps
  <2>6. QED
    BY <2>1, <2>2, <2>3, <2>4, <2>5 DEF Answers
<1>2. Active(r)
  BY <1>1, PcIsActive DEF AnswerSteps, RequestSteps
<1>3. q \in RequestRecords
  BY <1>2, AtWork
<1>4. LET next == [q EXCEPT !.pc = "load"]
      IN /\ next \in RequestRecords
         /\ GoodRequest(next)
         /\ next.click = q.click
         /\ next.tab = q.tab
  BY <1>3 DEF RequestRecords, RequestSteps, GoodRequest
<1>5. GoesOn(r)
  BY <1>1, <1>2, <1>4, FaultsStay DEF GoesOn
<1>6. QED
  BY <1>1, <1>5

LEMMA StepGoesOn ==
  ASSUME TypeOK, RequestInv, NEW r \in Requests, Step(r) \/ Cut(r)
  PROVE  GoesOn(r)
BY SendGoesOn, ReadGoesOn, LookUpGoesOn, CutGoesOn, AnswerGoesOn
   DEF Step, Sends, Answers

-----------------------------------------------------------------------------
(* Type correctness.                                                       *)

\* The tabs keep their types.
LEMMA TabTypes ==
  ASSUME TypeOK, RequestInv, NEW r \in Requests, Step(r) \/ Cut(r)
  PROVE  /\ shown' \in [Tabs -> SUBSET Lines]
         /\ loading' \in [Tabs -> BOOLEAN]
         /\ creating' \in [Tabs -> BOOLEAN]
         /\ told' \in [Clicks -> {"nothing", "confirmed", "failed"}]
         /\ view' \in [Tabs -> Views]
<1> DEFINE q == request[r]
<1>1. q \in RequestRecords
  BY StepGoesOn, AtWork DEF GoesOn
<1>2. q.tab \in Tabs /\ q.click \in Clicks /\ q.items \in SUBSET Lines
  BY <1>1 DEF RequestRecords
<1>3. CASE UNCHANGED tabs /\ Watch
  BY <1>3, ViewTypes DEF TypeOK, tabs
<1>4. CASE Sends(r)
  BY <1>3, <1>4 DEF Sends, PostItem, PutQuantity, DeleteItem, CallCreateOrder, CallClearCart, Send
<1>5. CASE ReadCart(r)
  <2>1. CASE ReadAnswered(r)
    BY <1>5, <2>1, ReadCases DEF ReadAnswered, TypeOK, tabs, Views
  <2>2. CASE ReadFailed(r)
    BY <1>3, <1>5, <2>2, ReadCases DEF ReadFailed
  <2>3. QED
    BY <1>5, <2>1, <2>2, ReadCases
<1>6. CASE LookUpItems(r)
  BY <1>3, <1>6, LookUpCases
<1>7. CASE Cut(r)
  BY <1>3, <1>7 DEF Cut
<1>8. CASE AddAnswered(r)
  <2>1. shown' \in [Tabs -> SUBSET Lines]
    BY <1>2, <1>8 DEF AddAnswered, TypeOK
  <2>2. loading' \in [Tabs -> BOOLEAN]
    BY <1>2, <1>8 DEF AddAnswered, TypeOK, Reload, Finish, Waits, Waited
  <2>3. QED
    BY <1>8, <2>1, <2>2 DEF AddAnswered, TypeOK
<1>9. CASE ChangeAnswered(r)
  BY <1>2, <1>9 DEF ChangeAnswered, TypeOK, Reload, Finish, Waits, Waited
<1>10. CASE RemoveAnswered(r)
  <2>1. shown' \in [Tabs -> SUBSET Lines]
    BY <1>2, <1>10 DEF RemoveAnswered, TypeOK
  <2>2. loading' \in [Tabs -> BOOLEAN]
    BY <1>2, <1>10 DEF RemoveAnswered, TypeOK, Reload, Finish, Waits, Waited
  <2>3. QED
    BY <1>10, <2>1, <2>2 DEF RemoveAnswered, TypeOK
<1>11. CASE ShowCart(r)
  <2>1. view' \in [Tabs -> Views]
    BY <1>11 DEF ShowCart, TypeOK, Views
  <2>2. creating' \in [Tabs -> BOOLEAN]
    BY <1>11 DEF ShowCart, TypeOK
  <2>3. QED
    BY <1>2, <1>11, <2>1, <2>2 DEF ShowCart, TypeOK, Finish, Waited
<1>12. CASE OrderAnswered(r)
  <2>1. view' \in [Tabs -> Views]
    BY <1>12 DEF OrderAnswered, TypeOK, Views
  <2>2. QED
    BY <1>2, <1>12, <2>1 DEF OrderAnswered, TypeOK, Reload, Waits
<1>13. QED
  BY <1>4, <1>5, <1>6, <1>7, <1>8, <1>9, <1>10, <1>11, <1>12 DEF Step, Sends

\* What every step of the store's services keeps in order: the types, and which
\* call a request is at.
Good == TypeOK /\ RequestInv

LEMMA GoesOnIsGood ==
  ASSUME Good, NEW r \in Requests, GoesOn(r)
  PROVE  /\ RequestInv'
         /\ request' \in [Requests -> {Idle} \union RequestRecords]
         /\ late' \subseteq RequestRecords
         /\ calls' \in 0..MaxCalls
         /\ faults' \in 0..MaxFaults
<1> USE DEF Good
<1>1. PICK next \in {Idle} \union RequestRecords :
        /\ Becomes(r, next)
        /\ next # Idle => /\ GoodRequest(next)
                          /\ next.click = request[r].click
                          /\ next.tab = request[r].tab
  BY DEF GoesOn
<1>2. /\ request' \in [Requests -> {Idle} \union RequestRecords]
      /\ request'[r] = next
      /\ \A s \in Requests : s # r => request'[s] = request[s]
  BY <1>1, BecomesStays
<1>3. /\ Active(r) /\ calls' = calls /\ faults' \in 0..MaxFaults
      /\ \/ late' = late
         \/ request[r].pc \in SendSteps /\ late' = late \union {request[r]}
  BY DEF GoesOn
<1>4. \A q \in late' : \/ q \in late
                       \/ q = request[r] /\ request[r].pc \in SendSteps
  BY <1>3
<1>5. late' \subseteq RequestRecords
  BY <1>3, <1>4, AtWork DEF TypeOK
<1>6. \A s \in Requests : Active(s)' =>
        GoodRequest(request'[s]) /\ request'[s].click = request[s].click /\ Active(s)
  BY <1>1, <1>2, <1>3 DEF RequestInv, Active
<1>7. \A s \in Requests : Active(s)' => GoodRequest(request[s])' /\ request'[s].click <= calls'
  BY <1>3, <1>6 DEF RequestInv, GoodRequest
<1>8. \A q \in late' :
        GoodRequest(q) /\ q.click <= calls /\ q.pc \in {"write", "order", "clear"}
  BY <1>3, <1>4 DEF RequestInv, SendSteps
<1>9. \A s1, s2 \in Requests :
        Active(s1)' /\ Active(s2)' /\ request'[s1].click = request'[s2].click => s1 = s2
  BY <1>6 DEF RequestInv
<1>10. RequestInv'
  BY <1>3, <1>7, <1>8, <1>9 DEF RequestInv, GoodRequest
<1>11. QED
  BY <1>2, <1>3, <1>5, <1>10 DEF TypeOK

LEMMA BeginsIsGood ==
  ASSUME Good, NEW r \in Requests, NEW t \in Tabs, NEW q, Begins(r, t, q)
  PROVE  /\ RequestInv'
         /\ request' \in [Requests -> {Idle} \union RequestRecords]
         /\ calls' \in 0..MaxCalls
<1> USE DEF Good
<1>1. /\ request' \in [Requests -> {Idle} \union RequestRecords]
      /\ request'[r] = q
      /\ \A s \in Requests : s # r => request'[s] = request[s]
  BY BecomesStays DEF Begins
<1>2. /\ GoodRequest(q) /\ q.click = calls' /\ calls' = calls + 1 /\ late' = late
      /\ calls \in 0..MaxCalls /\ calls' \in 0..MaxCalls
  BY CallAssumption DEF Begins, TypeOK
<1>3. \A s \in Requests : Active(s) => request[s].click \in Clicks /\ request[s].click <= calls
  BY AtWork DEF RequestInv, RequestRecords
<1>4. \A s \in Requests : Active(s)' =>
        \/ s = r /\ request'[s] = q
        \/ s # r /\ Active(s) /\ request'[s] = request[s]
  BY <1>1 DEF Active
<1>5. \A s \in Requests : Active(s)' => GoodRequest(request'[s]) /\ request'[s].click <= calls'
  <2>1. \A s \in Requests : Active(s)' => GoodRequest(request'[s])
    BY <1>2, <1>4 DEF RequestInv
  <2>2. ASSUME NEW s \in Requests, Active(s)'
        PROVE  request'[s].click <= calls'
    <3>1. CASE s = r
      BY <1>1, <1>2, <3>1
    <3>2. CASE s # r
      <4>1. request'[s] = request[s] /\ Active(s)
        BY <1>4, <2>2, <3>2
      <4>2. request[s].click \in Nat /\ request[s].click <= calls
        BY <1>3, <4>1, StoreAssumption
      <4>3. QED
        BY <1>2, <4>1, <4>2
    <3>3. QED
      BY <3>1, <3>2
  <2>3. QED
    BY <2>1, <2>2
<1>6. \A s1, s2 \in Requests :
        Active(s1)' /\ Active(s2)' /\ request'[s1].click = request'[s2].click => s1 = s2
  BY <1>2, <1>3, <1>4, StoreAssumption DEF RequestInv
<1>7. \A other \in late' :
        GoodRequest(other) /\ other.click <= calls' /\ other.pc \in {"write", "order", "clear"}
  BY <1>2, StoreAssumption DEF RequestInv, TypeOK, RequestRecords
<1>8. RequestInv'
  BY <1>5, <1>6, <1>7 DEF RequestInv, GoodRequest
<1>9. QED
  BY <1>1, <1>2, <1>8

\* What a step does to the hash.
RedisStep ==
  \/ UNCHANGED <<services, redis>>
  \/ UNCHANGED services /\ ReadCopies
  \/ \E c \in Requested, undisturbed \in BOOLEAN : ~Refuses(c) /\ Serves(c, undisturbed)

LEMMA EveryRedisStep ==
  ASSUME Good, [Next]_vars
  PROVE  RedisStep
<1> USE DEF Good
<1>1. ASSUME NEW r \in Requests, Sends(r)
      PROVE  RedisStep
  <2>1. /\ request[r].send \in Requested
        /\ SendRefused(r) \/ SendAnswered(r) \/ SendFaulted(r)
    BY <1>1, SendGoesOn, SendCases, AtWork, HasCall DEF GoesOn, RequestInv
  <2>2. (Undisturbed(r) /\ faults' = faults) \in BOOLEAN
    OBVIOUS
  <2>3. QED
    BY <2>1, <2>2 DEF SendRefused, SendAnswered, SendFaulted, ServesTry, RedisStep
<1>2. ASSUME NEW r \in Requests, Cut(r)
      PROVE  RedisStep
  <2>1. request[r] \in RequestRecords /\ GoodRequest(request[r])
    BY <1>2, CutGoesOn, AtWork DEF GoesOn, RequestInv
  <2>2. request[r].send # Idle => request[r].send \in Requested
    BY <2>1 DEF RequestRecords, Requested
  <2>3. QED
    BY <1>2, <2>2 DEF Cut, RedisStep
<1>3. ASSUME NEW q \in late, TakeEffect(q)
      PROVE  RedisStep
  <2>1. q.send \in Requested
    BY HasCall DEF TypeOK, RequestInv, SendSteps
  <2>2. QED
    BY <1>3, <2>1 DEF TakeEffect, RedisStep
<1>4. ASSUME NEW r \in Requests, ReadCart(r)
      PROVE  RedisStep
  BY <1>4, ReadCases DEF RedisStep
<1>5. ASSUME NEW r \in Requests, LookUpItems(r) \/ Answers(r)
      PROVE  RedisStep
  BY <1>5 DEF LookUpItems, Answers, AddAnswered, ChangeAnswered, RemoveAnswered, ShowCart,
              OrderAnswered, RedisStep
<1>6. ASSUME NEW r \in Requests, NEW t \in Tabs, Click(r, t)
      PROVE  RedisStep
  BY <1>6, ClickBegins DEF Begins, RedisStep
<1>7. ASSUME NEW t \in Tabs, NEW s \in Sneakers, ClickUnsaved(t, s)
      PROVE  RedisStep
  BY <1>7 DEF ClickUnsaved, RedisStep
<1>8. CASE UNCHANGED vars
  BY <1>8 DEF vars, RedisStep
<1>9. QED
  BY <1>1, <1>2, <1>3, <1>4, <1>5, <1>6, <1>7, <1>8 DEF Next, Step, Sends, Answers

LEMMA RedisTypes ==
  ASSUME Good, [Next]_vars
  PROVE  cached' \subseteq Rows /\ exposed' \in BOOLEAN
<1>1. CASE UNCHANGED <<services, redis>>
  BY <1>1 DEF redis, Good, TypeOK
<1>2. CASE ReadCopies
  BY <1>2 DEF ReadCopies, FillsCopy, FillsPartly, redis, Good, TypeOK
<1>3. ASSUME NEW c \in Requested, NEW undisturbed \in BOOLEAN, ~Refuses(c), Serves(c, undisturbed)
      PROVE  cached' \subseteq Rows /\ exposed' \in BOOLEAN
  BY <1>3, ServesTypes DEF Good
<1>4. QED
  BY <1>1, <1>2, <1>3, EveryRedisStep DEF RedisStep

\* One step keeps the types and the requests in order.
LEMMA GoodStep ==
  ASSUME Good, [Next]_vars
  PROVE  Good'
<1> USE DEF Good
<1>0. cached' \subseteq Rows /\ exposed' \in BOOLEAN
  BY RedisTypes
<1>1. ASSUME NEW r \in Requests, NEW t \in Tabs, Click(r, t)
      PROVE  Good'
  <2>1. PICK q : Begins(r, t, q)
    BY <1>1, ClickBegins
  <2>2. view' \in [Tabs -> Views] /\ UNCHANGED <<services, told, faults, late>>
    BY <2>1, ViewTypes DEF Begins
  <2>3. QED
    BY <1>0, <1>1, <2>1, <2>2, ClickBegins, BeginsIsGood DEF TypeOK, services
<1>2. ASSUME NEW t \in Tabs, NEW s \in Sneakers, ClickUnsaved(t, s)
      PROVE  Good'
  <2>1. TypeOK'
    BY <1>0, <1>2 DEF ClickUnsaved, Waited, TypeOK, services
  <2>2. RequestInv'
    BY <1>2 DEF ClickUnsaved, RequestInv, Active, GoodRequest
  <2>3. QED
    BY <2>1, <2>2
<1>3. ASSUME NEW r \in Requests, Step(r) \/ Cut(r)
      PROVE  Good'
  <2>1. GoesOn(r)
    BY <1>3, StepGoesOn
  <2>2. /\ rows' \subseteq Rows
        /\ issued' \in 0..MaxRows
        /\ orders' \in [Clicks -> Nat]
        /\ emptied' \subseteq Clicks
    <3>1. CASE UNCHANGED services
      BY <3>1 DEF services, TypeOK
    <3>2. CASE request[r].pc \in SendSteps /\ Done(request[r].send)
      BY <2>1, <3>2, AtWork, HasCall, DoneTypes DEF GoesOn, RequestInv
    <3>3. QED
      BY <2>1, <3>1, <3>2 DEF GoesOn
  <2>3. QED
    BY <1>0, <1>3, <2>1, <2>2, TabTypes, GoesOnIsGood DEF TypeOK
<1>4. ASSUME NEW q \in late, TakeEffect(q)
      PROVE  Good'
  <2>1. q \in RequestRecords /\ q.send \in Requested
    BY HasCall DEF TypeOK, RequestInv, SendSteps
  <2>2. Done(q.send) /\ late' = late \ {q} /\ UNCHANGED <<tabs, view, request, calls, faults>>
    BY <1>4 DEF TakeEffect, Done, Serves
  <2>3. TypeOK'
    BY <1>0, <2>1, <2>2, DoneTypes DEF TypeOK, tabs
  <2>4. RequestInv'
    BY <2>2 DEF RequestInv, Active, GoodRequest
  <2>5. QED
    BY <2>3, <2>4
<1>5. CASE UNCHANGED vars
  BY <1>0, <1>5 DEF vars, tabs, services, TypeOK, RequestInv, Active, GoodRequest
<1>6. QED
  BY <1>1, <1>2, <1>3, <1>4, <1>5 DEF Next

LEMMA InitIsGood == Init => Good
<1>1. Init => TypeOK
  <2>1. Init => cached \subseteq Rows /\ rows \subseteq Rows /\ exposed \in BOOLEAN
    BY DEF Init
  <2>2. QED
    BY <2>1, StoreAssumption, CallAssumption, FaultAssumption DEF Init, TypeOK, Views
<1>2. Init => RequestInv
  BY DEF Init, RequestInv, Active
<1>3. QED
  BY <1>1, <1>2 DEF Good

\* Types are kept: the quantities and ids that a tab asks for are always those that
\* the services know (CartContext.jsx, Drawer.jsx and the gateway's cart and order
\* handlers).
THEOREM TypesHold == Spec => []TypeOK
<1>1. Init => Good
  BY InitIsGood
<1>2. Good /\ [Next]_vars => Good'
  BY GoodStep
<1>3. Good => TypeOK
  BY DEF Good
<1>4. QED
  BY <1>1, <1>2, <1>3, PTL DEF Spec

-----------------------------------------------------------------------------
(* The refinement of Purchases: an order comes before the emptied cart and *)
(* the confirmation.                                                       *)

\* The calls of a click on the order button.
Ordering(q) == q.pc \in {"lookup", "order", "clear", "answer"}

\* A request that clears the cart, or confirms, owes it to an order.
OwesOrder(q) == q.pc = "clear" \/ (q.pc = "answer" /\ q.result = "ok")

\* Orders are never taken back.
LEMMA OrdersStay ==
  ASSUME TypeOK, NEW c \in Requested, Done(c)
  PROVE  \A n \in Clicks : orders'[n] >= orders[n]
<1>1. CASE UNCHANGED services
  BY <1>1 DEF services, TypeOK
<1>2. CASE Serve(c)
  BY <1>2, ServeCases DEF TypeOK
<1>3. QED
  BY <1>1, <1>2 DEF Done

LEMMA GoesOnOrders ==
  ASSUME Good, NEW r \in Requests, GoesOn(r)
  PROVE  /\ \A n \in Clicks : orders[n] \in Nat /\ orders'[n] \in Nat /\ orders'[n] >= orders[n]
         /\ request[r] \in RequestRecords
<1>1. request[r] \in RequestRecords /\ GoodRequest(request[r])
  BY AtWork DEF GoesOn, Good, RequestInv
<1>2. CASE UNCHANGED services
  BY <1>1, <1>2 DEF services, Good, TypeOK
<1>3. CASE request[r].pc \in SendSteps /\ Done(request[r].send)
  BY <1>1, <1>3, HasCall, OrdersStay, DoneTypes DEF Good, TypeOK
<1>4. QED
  BY <1>1, <1>2, <1>3 DEF GoesOn

\* A step that tells the customer nothing keeps the order, if the request that goes
\* on is at work on an order only if it was before.
LEMMA OrderedStays ==
  ASSUME Good, OrderedInv, NEW r \in Requests, GoesOn(r), told' = told,
         Active(r)' =>
           /\ Ordering(request'[r]) => Ordering(request[r])
           /\ OwesOrder(request'[r]) => orders'[request[r].click] > 0
  PROVE  OrderedInv'
<1> USE DEF Good
<1>1. PICK next \in {Idle} \union RequestRecords :
        /\ Becomes(r, next)
        /\ next # Idle => next.click = request[r].click
  BY DEF GoesOn
<1>2. /\ request'[r] = next
      /\ \A s \in Requests : s # r => request'[s] = request[s]
  BY <1>1, BecomesStays
<1>3. Active(r) /\ request[r] \in RequestRecords /\ request[r].click \in Clicks /\ calls' = calls
  BY GoesOnOrders DEF GoesOn, RequestRecords
<1>4. \A n \in Clicks : orders[n] > 0 => orders'[n] > 0
  BY GoesOnOrders
<1>5. \A n \in Clicks : n > calls' => told'[n] = "nothing"
  BY <1>3 DEF OrderedInv
<1>6. ASSUME NEW s \in Requests, Active(s)'
      PROVE  /\ Ordering(request'[s]) => told'[request'[s].click] = "nothing"
             /\ OwesOrder(request'[s]) => orders'[request'[s].click] > 0
  <2>1. CASE s = r
    BY <1>1, <1>2, <1>3, <1>6, <2>1 DEF OrderedInv, Ordering, Active
  <2>2. CASE s # r
    <3>1. request'[s] = request[s] /\ Active(s) /\ request[s].click \in Clicks
      BY <1>2, <1>6, <2>2, AtWork DEF Active, RequestRecords
    <3>2. QED
      BY <1>4, <3>1 DEF OrderedInv, Ordering, OwesOrder
  <2>3. QED
    BY <2>1, <2>2
<1>7. ASSUME NEW q \in late', q.pc = "clear"
      PROVE  orders'[q.click] > 0
  <2>1. q.click \in Clicks /\ orders[q.click] > 0
    BY <1>3, <1>7 DEF GoesOn, OrderedInv, TypeOK, RequestRecords
  <2>2. QED
    BY <1>4, <2>1
<1>8. QED
  BY <1>5, <1>6, <1>7 DEF OrderedInv, Ordering, OwesOrder

\* What a call may do to the promise.
LEMMA ServePromises ==
  ASSUME TypeOK, NEW c \in Requested, Serve(c), told' = told,
         c.name = "ClearCart" => orders[c.click] > 0
  PROVE  [Promise!Next]_Promise!vars
<1>1. /\ orders' = IF c.name = "CreateOrder" THEN [orders EXCEPT ![c.click] = @ + 1]
                   ELSE orders
      /\ emptied' = IF c.name = "ClearCart" THEN emptied \union {c.click} ELSE emptied
      /\ c.click \in Clicks
  BY ServeCases
<1>2. CASE c.name = "CreateOrder"
  <2>1. {n \in Clicks : orders'[n] > 0} = {n \in Clicks : orders[n] > 0} \union {c.click}
    BY <1>1, <1>2 DEF TypeOK
  <2>2. CASE orders[c.click] > 0
    BY <1>1, <1>2, <2>1, <2>2 DEF Promise!vars
  <2>3. CASE ~(orders[c.click] > 0)
    BY <1>1, <1>2, <2>1, <2>3 DEF Promise!Next, Promise!Order
  <2>4. QED
    BY <2>2, <2>3
<1>3. CASE c.name = "ClearCart"
  <2>1. CASE c.click \in emptied
    BY <1>1, <1>3, <2>1 DEF Promise!vars
  <2>2. CASE c.click \notin emptied
    BY <1>1, <1>3, <2>2 DEF Promise!Next, Promise!Empty
  <2>3. QED
    BY <2>1, <2>2
<1>4. CASE c.name \notin {"CreateOrder", "ClearCart"}
  BY <1>1, <1>4 DEF Promise!vars
<1>5. QED
  BY <1>2, <1>3, <1>4

LEMMA DonePromises ==
  ASSUME TypeOK, NEW c \in Requested, Done(c), told' = told,
         c.name = "ClearCart" => orders[c.click] > 0
  PROVE  [Promise!Next]_Promise!vars
<1>1. CASE UNCHANGED services
  BY <1>1 DEF services, Promise!vars
<1>2. CASE Serve(c)
  BY <1>2, ServePromises
<1>3. QED
  BY <1>1, <1>2 DEF Done

\* Only a request that is at "clear" empties the cart.
LEMMA ClearsForOrder ==
  ASSUME NEW q \in RequestRecords, GoodRequest(q), q.pc \in SendSteps,
         q.send.name = "ClearCart"
  PROVE  q.pc = "clear" /\ q.send.click = q.click
<1>1. q.pc # "write"
  BY DEF GoodRequest
<1>2. q.pc # "order"
  BY DEF GoodRequest, CreateOrder
<1>3. QED
  BY <1>1, <1>2 DEF SendSteps, GoodRequest, ClearCart

\* Before a step of a request that goes on (GoesOn), its record is in order.
LEMMA GoingIsGood ==
  ASSUME Good, NEW r \in Requests, GoesOn(r)
  PROVE  /\ request[r] \in RequestRecords
         /\ GoodRequest(request[r])
         /\ request[r].click \in Clicks
         /\ request[r].tab \in Tabs
         /\ request[r].tries \in 1..Tries
BY AtWork DEF GoesOn, Good, RequestInv, RequestRecords

LEMMA SendPromises ==
  ASSUME Good, OrderedInv, NEW r \in Requests, Sends(r)
  PROVE  OrderedInv' /\ [Promise!Next]_Promise!vars
<1> DEFINE q == request[r]
<1>1. GoesOn(r) /\ q.pc \in SendSteps /\ Active(r)
  BY SendGoesOn DEF Good, GoesOn
<1>2. /\ q \in RequestRecords /\ GoodRequest(q) /\ q.click \in Clicks
      /\ q.send \in Requested
  BY <1>1, GoingIsGood, HasCall
<1>3. /\ told' = told
      /\ SendRefused(r) \/ SendAnswered(r) \/ SendFaulted(r)
  BY <1>2, SendCases DEF tabs
<1>4. q.pc = "clear" => orders[q.click] > 0
  BY <1>1 DEF OrderedInv
<1>5. orders[q.click] > 0 => orders'[q.click] > 0
  BY <1>1, <1>2, GoesOnOrders
<1>6. UNCHANGED services \/ Done(q.send)
  BY <1>1 DEF GoesOn
<1>7. [Promise!Next]_Promise!vars
  <2>1. CASE UNCHANGED services
    BY <1>3, <2>1 DEF services, Promise!vars
  <2>2. CASE Done(q.send)
    BY <1>1, <1>2, <1>3, <1>4, <2>2, ClearsForOrder, DonePromises DEF Good
  <2>3. QED
    BY <1>6, <2>1, <2>2
<1>8. Ordering(Succeeded(q)) \/ Ordering(Failed(q)) \/ Ordering([q EXCEPT !.tries = @ + 1])
        => Ordering(q)
  BY <1>1, <1>2 DEF Ordering, Succeeded, Failed, SendSteps, RequestRecords
<1>9. /\ OwesOrder(Failed(q)) => q.pc = "clear"
      /\ OwesOrder([q EXCEPT !.tries = @ + 1]) => q.pc = "clear"
      /\ OwesOrder(Succeeded(q)) => q.pc \in {"order", "clear"}
  BY <1>1, <1>2 DEF OwesOrder, Succeeded, Failed, SendSteps, RequestRecords
<1>10. OrderedInv'
  <2>1. CASE SendRefused(r) \/ SendFaulted(r)
    <3>1. request'[r] = Failed(q) \/ request'[r] = [q EXCEPT !.tries = @ + 1]
      BY <2>1 DEF SendRefused, SendFaulted, Becomes, Good, TypeOK
    <3>2. QED
      BY <1>1, <1>3, <1>4, <1>5, <1>8, <1>9, <3>1, OrderedStays
  <2>2. CASE SendAnswered(r)
    <3>1. request'[r] = Succeeded(q)
      BY <2>2 DEF SendAnswered, Becomes, Good, TypeOK
    <3>2. q.pc = "order" => orders'[q.click] > 0
      BY <1>2, <2>2, ServeCases DEF SendAnswered, GoodRequest, CreateOrder, Good, TypeOK,
                                      ServesTry, Serves
    <3>3. QED
      BY <1>1, <1>3, <1>4, <1>5, <1>8, <1>9, <3>1, <3>2, OrderedStays
  <2>3. QED
    BY <1>3, <2>1, <2>2
<1>11. QED
  BY <1>7, <1>10

LEMMA CutPromises ==
  ASSUME Good, OrderedInv, NEW r \in Requests, Cut(r)
  PROVE  OrderedInv' /\ [Promise!Next]_Promise!vars
<1> DEFINE q == request[r]
<1>1. GoesOn(r) /\ Active(r) /\ told' = told
  BY CutGoesOn DEF Good, GoesOn, Cut, tabs
<1>2. /\ q \in RequestRecords /\ GoodRequest(q) /\ q.click \in Clicks
  BY <1>1, GoingIsGood
<1>3. request'[r] = NotLookedUp(q) /\ Ordering(q)
  BY <1>2 DEF Cut, GoesWith, NotLookedUp, Becomes, Good, TypeOK, Ordering
<1>4. ~OwesOrder(NotLookedUp(q))
  BY <1>2 DEF OwesOrder, NotLookedUp, RequestRecords
<1>5. OrderedInv'
  BY <1>1, <1>3, <1>4, OrderedStays
<1>6. CASE UNCHANGED services
  BY <1>1, <1>5, <1>6 DEF services, Promise!vars
<1>7. CASE q.pc \in SendSteps /\ Done(q.send)
  <2>1. q.pc = "clear" => orders[q.click] > 0
    BY <1>1 DEF OrderedInv
  <2>2. QED
    BY <1>1, <1>2, <1>5, <1>7, <2>1, HasCall, ClearsForOrder, DonePromises DEF Good
<1>8. QED
  BY <1>1, <1>6, <1>7 DEF GoesOn

LEMMA ReadPromises ==
  ASSUME Good, OrderedInv, NEW r \in Requests, ReadCart(r) \/ LookUpItems(r)
  PROVE  OrderedInv' /\ [Promise!Next]_Promise!vars
<1> DEFINE q == request[r]
<1>1. GoesOn(r)
  BY ReadGoesOn, LookUpGoesOn DEF Good
<1>2. q \in RequestRecords
  BY <1>1, GoingIsGood
<1>3. UNCHANGED <<services, tabs>>
  BY ReadCases, LookUpCases DEF Good
<1>4. CASE ReadCart(r)
  <2>1. \E result \in {"ok", "error"}, answer \in SUBSET Rows :
          request'[r] = Loaded(q, result, answer)
    BY <1>4, ReadCases DEF ReadAnswered, ReadFailed, Becomes, Good, TypeOK
  <2>2. ~Ordering(request'[r]) /\ ~OwesOrder(request'[r])
    BY <1>2, <2>1 DEF Ordering, OwesOrder, Loaded, RequestRecords
  <2>3. QED
    BY <1>1, <1>3, <2>2, OrderedStays DEF services, tabs, Promise!vars
<1>5. CASE LookUpItems(r)
  <2>1. Ordering(q) /\ (request'[r] = LookedUp(q) \/ request'[r] = NotLookedUp(q))
    BY <1>5, LookUpCases DEF Becomes, Good, TypeOK, Ordering
  <2>2. ~OwesOrder(request'[r])
    BY <1>2, <2>1 DEF OwesOrder, LookedUp, NotLookedUp, RequestRecords
  <2>3. QED
    BY <1>1, <1>3, <2>1, <2>2, OrderedStays DEF services, tabs, Promise!vars
<1>6. QED
  BY <1>4, <1>5

LEMMA AnswerPromises ==
  ASSUME Good, OrderedInv, NEW r \in Requests, Answers(r)
  PROVE  OrderedInv' /\ [Promise!Next]_Promise!vars
<1> DEFINE q == request[r]
<1>1. /\ GoesOn(r)
      /\ Becomes(r, Idle) \/ Becomes(r, [q EXCEPT !.pc = "load"])
      /\ UNCHANGED <<services, calls, faults, late>>
  BY AnswerGoesOn DEF Good
<1>2. q \in RequestRecords /\ GoodRequest(q) /\ q.click \in Clicks /\ Active(r)
  BY <1>1, GoingIsGood DEF GoesOn
<1>3. request'[r] = Idle \/ request'[r] = [q EXCEPT !.pc = "load"]
  BY <1>1 DEF Becomes, Good, TypeOK
<1>4. Active(r)' => ~Ordering(request'[r]) /\ ~OwesOrder(request'[r])
  BY <1>2, <1>3 DEF Ordering, OwesOrder, Active, RequestRecords
<1>5. CASE told' = told
  BY <1>1, <1>4, <1>5, OrderedStays DEF services, Promise!vars
<1>6. CASE OrderAnswered(r)
  <2>1. /\ q.pc = "answer"
        /\ told' = [told EXCEPT ![q.click] = IF q.result = "ok" THEN "confirmed" ELSE "failed"]
    BY <1>6 DEF OrderAnswered, At
  <2>2. told[q.click] = "nothing" /\ (q.result = "ok" => orders[q.click] > 0)
    BY <1>2, <2>1 DEF OrderedInv
  <2>3. [Promise!Next]_Promise!vars
    BY <1>1, <1>2, <2>1, <2>2 DEF services, Promise!Next, Promise!Confirm, Promise!Fail
  <2>4. \A n \in Clicks : n > calls' => told'[n] = "nothing"
    <3>1. q.click <= calls
      BY <1>2 DEF Good, RequestInv
    <3>2. \A n \in Clicks : n > calls => n # q.click
      BY <1>2, <3>1, StoreAssumption DEF Good, TypeOK
    <3>3. QED
      BY <1>1, <2>1, <3>2 DEF OrderedInv, Good, TypeOK
  <2>5. ASSUME NEW s \in Requests, Active(s)'
        PROVE  /\ Ordering(request'[s]) => told'[request'[s].click] = "nothing"
               /\ OwesOrder(request'[s]) => orders'[request'[s].click] > 0
    <3>1. CASE s = r
      BY <1>4, <2>5, <3>1
    <3>2. CASE s # r
      <4>1. request'[s] = request[s] /\ Active(s) /\ request[s].click \in Clicks
        BY <1>1, <2>5, <3>2, AtWork DEF Becomes, Active, Good, TypeOK, RequestRecords
      <4>2. request[s].click # q.click
        BY <1>2, <3>2, <4>1 DEF Good, RequestInv
      <4>3. QED
        BY <1>1, <2>1, <4>1, <4>2 DEF OrderedInv, Ordering, OwesOrder, services, Good, TypeOK
    <3>3. QED
      BY <3>1, <3>2
  <2>6. OrderedInv'
    BY <1>1, <2>4, <2>5 DEF OrderedInv, Ordering, OwesOrder, services
  <2>7. QED
    BY <2>3, <2>6
<1>7. QED
  BY <1>5, <1>6 DEF Answers, AddAnswered, ChangeAnswered, RemoveAnswered, ShowCart

LEMMA ClickPromises ==
  ASSUME Good, OrderedInv, NEW r \in Requests, NEW t \in Tabs, Click(r, t)
  PROVE  OrderedInv' /\ [Promise!Next]_Promise!vars
<1>1. PICK q : Begins(r, t, q)
  BY ClickBegins DEF Good
<1>2. /\ UNCHANGED <<services, told, late>> /\ calls' = calls + 1
      /\ request'[r] = q /\ q.click = calls' /\ q.click \in Clicks
      /\ \A s \in Requests : s # r => request'[s] = request[s]
      /\ ~OwesOrder(q)
  BY <1>1, BecomesStays DEF Begins, Good, RequestRecords, OwesOrder
<1>3. [Promise!Next]_Promise!vars
  BY <1>2 DEF services, Promise!vars
<1>4. \A n \in Clicks : n > calls => told[n] = "nothing"
  BY DEF OrderedInv
<1>5. \A n \in Clicks : n > calls' => told'[n] = "nothing"
  <2>1. calls \in Nat /\ Clicks \subseteq Nat
    BY StoreAssumption, CallAssumption DEF Good, TypeOK
  <2>2. \A n \in Clicks : n > calls' => n > calls
    BY <1>2, <2>1
  <2>3. QED
    BY <1>2, <1>4, <2>2
<1>6. told[q.click] = "nothing"
  BY <1>2, <1>4, StoreAssumption DEF Good, TypeOK
<1>7. OrderedInv'
  BY <1>2, <1>5, <1>6 DEF OrderedInv, OwesOrder, Active, services
<1>8. QED
  BY <1>3, <1>7

LEMMA LatePromises ==
  ASSUME Good, OrderedInv, NEW q \in late, TakeEffect(q)
  PROVE  OrderedInv' /\ [Promise!Next]_Promise!vars
<1>1. /\ q \in RequestRecords /\ GoodRequest(q) /\ q.pc \in SendSteps
      /\ q.send \in Requested
  BY HasCall DEF Good, TypeOK, RequestInv, SendSteps
<1>2. /\ Done(q.send) /\ late' = late \ {q}
      /\ UNCHANGED <<told, request, calls>>
  BY DEF TakeEffect, Done, Serves, tabs
<1>3. [Promise!Next]_Promise!vars
  BY <1>1, <1>2, ClearsForOrder, DonePromises DEF OrderedInv, Good
<1>4. \A n \in Clicks : orders[n] > 0 => orders'[n] > 0
  BY <1>1, <1>2, OrdersStay, DoneTypes DEF Good, TypeOK
<1>5. \A s \in Requests : Active(s) => request[s].click \in Clicks
  BY AtWork DEF Good, RequestRecords
<1>6. \A other \in late : other.click \in Clicks
  BY DEF Good, TypeOK, RequestRecords
<1>7. OrderedInv'
  BY <1>2, <1>4, <1>5, <1>6 DEF OrderedInv, Active
<1>8. QED
  BY <1>3, <1>7

\* Every step keeps the order before the clearing and the confirmation, and is one
\* step of Purchases, or none.
LEMMA OrderedStep ==
  ASSUME Good, OrderedInv, [Next]_vars
  PROVE  OrderedInv' /\ [Promise!Next]_Promise!vars
<1>1. ASSUME NEW t \in Tabs, NEW s \in Sneakers, ClickUnsaved(t, s)
      PROVE  OrderedInv' /\ [Promise!Next]_Promise!vars
  BY <1>1 DEF ClickUnsaved, OrderedInv, Active, services, Promise!vars
<1>2. CASE UNCHANGED vars
  BY <1>2 DEF vars, tabs, services, OrderedInv, Active, Promise!vars
<1>3. QED
  BY <1>1, <1>2, ClickPromises, SendPromises, CutPromises, ReadPromises, AnswerPromises,
     LatePromises DEF Next, Step, Sends, Answers

LEMMA InitIsOrdered == Init => OrderedInv /\ Promise!Init
<1>1. Init => OrderedInv
  BY DEF Init, OrderedInv, Active
<1>2. Init => Promise!Init
  BY DEF Init, Promise!Init
<1>3. QED
  BY <1>1, <1>2

\* The customer is told of an order, and the cart is emptied for it, only when the
\* order exists, whatever calls fail, are given up, tried again, done late or cut off
\* (CreateOrder of the gateway's order/handler.go): Checkout implements Purchases.
THEOREM CheckoutImplementsPurchases == Spec => ImplementsPurchases
<1>1. Init => Good /\ OrderedInv /\ Promise!Init
  BY InitIsGood, InitIsOrdered
<1>2. Good /\ OrderedInv /\ [Next]_vars => /\ (Good /\ OrderedInv)'
                                           /\ [Promise!Next]_Promise!vars
  BY GoodStep, OrderedStep
<1>3. QED
  BY <1>1, <1>2, PTL DEF Spec, ImplementsPurchases, Promise!Spec

-----------------------------------------------------------------------------
(* The orders of a click.                                                  *)

LEMMA OutstandingCount ==
  ASSUME IsFiniteSet(late), NEW n
  PROVE  IsFiniteSet(Outstanding(n)) /\ Cardinality(Outstanding(n)) \in Nat
<1>1. Outstanding(n) \in SUBSET late
  BY DEF Outstanding
<1>2. QED
  BY <1>1, FS_Subset, FS_CardinalityType

LEMMA ExpectedIsNat ==
  ASSUME TypeOK, IsFiniteSet(late), NEW n \in Clicks
  PROVE  Expected(n) \in Nat /\ orders[n] <= Expected(n)
BY OutstandingCount DEF Expected, TypeOK

\* A step of a request adds one to what is expected of its click, at most, and nothing
\* if it is not at work on an order.
LEMMA GoesOnExpects ==
  ASSUME Good, IsFiniteSet(late), NEW r \in Requests, GoesOn(r),
         NEW n0, n0 = request[r].click
  PROVE  /\ IsFiniteSet(late')
         /\ \A n \in Clicks : Expected(n)' \in Nat
         /\ \A n \in Clicks : n # n0 => Expected(n)' = Expected(n)
         /\ request[r].pc # "order" => Expected(n0)' = Expected(n0)
         /\ Expected(n0)' <= Expected(n0) + 1
<1> DEFINE q == request[r]
<1>1. q \in RequestRecords /\ GoodRequest(q) /\ n0 \in Clicks
  BY GoingIsGood
<1>2. /\ late' = late \/ (late' = late \union {q} /\ UNCHANGED services)
      /\ UNCHANGED services \/ (q.pc \in SendSteps /\ Done(q.send))
  BY DEF GoesOn
<1>3. IsFiniteSet(late')
  BY <1>2, FS_AddElement
<1>4. \A n \in Clicks : /\ Expected(n) \in Nat
                        /\ Cardinality(Outstanding(n)) \in Nat
                        /\ IsFiniteSet(Outstanding(n))
                        /\ orders[n] \in Nat
  BY ExpectedIsNat, OutstandingCount DEF Good, TypeOK
<1>5. CASE late' = late /\ UNCHANGED services
  <2>1. \A n \in Clicks : Expected(n)' = Expected(n)
    BY <1>5 DEF Expected, Outstanding, services
  <2>2. QED
    BY <1>1, <1>3, <1>4, <2>1
<1>6. CASE late' = late \union {q} /\ UNCHANGED services
  <2>1. ASSUME NEW n \in Clicks
        PROVE  /\ n # n0 \/ q.pc # "order" => Outstanding(n)' = Outstanding(n)
               /\ n = n0 /\ q.pc = "order" => Outstanding(n)' = Outstanding(n) \union {q}
    BY <1>6 DEF Outstanding
  <2>2. ASSUME NEW n \in Clicks
        PROVE  /\ n # n0 \/ q.pc # "order" => Expected(n)' = Expected(n)
               /\ Expected(n)' \in Nat
               /\ Expected(n)' <= Expected(n) + 1
    <3>1. orders'[n] = orders[n]
      BY <1>6 DEF services
    <3>2. CASE n # n0 \/ q.pc # "order"
      BY <1>4, <2>1, <3>1, <3>2 DEF Expected
    <3>3. CASE n = n0 /\ q.pc = "order"
      <4>1. Outstanding(n)' = Outstanding(n) \union {q}
        BY <2>1, <3>3
      <4>2. IsFiniteSet(Outstanding(n)) /\ Cardinality(Outstanding(n)) \in Nat /\ orders[n] \in Nat
        BY <1>4
      <4>3. Cardinality(Outstanding(n) \union {q}) =
              IF q \in Outstanding(n) THEN Cardinality(Outstanding(n))
              ELSE Cardinality(Outstanding(n)) + 1
        BY <4>2, FS_AddElement
      <4>4. QED
        BY <3>1, <3>3, <4>1, <4>2, <4>3 DEF Expected
    <3>4. QED
      BY <3>2, <3>3
  <2>3. QED
    BY <1>1, <1>3, <2>2
<1>7. CASE late' = late /\ q.pc \in SendSteps /\ Serve(q.send)
  <2>1. q.send \in Requested
    BY <1>1, <1>7, HasCall
  <2>2. \A n \in Clicks : Outstanding(n)' = Outstanding(n)
    BY <1>7 DEF Outstanding
  <2>3. /\ orders' = IF q.send.name = "CreateOrder" THEN [orders EXCEPT ![q.send.click] = @ + 1]
                     ELSE orders
    BY <1>7, <2>1, ServeCases DEF Good
  <2>4. q.send.name = "CreateOrder" => q.pc = "order" /\ q.send.click = n0
    BY <1>1, <1>7 DEF GoodRequest, SendSteps, CreateOrder, ClearCart
  <2>5. ASSUME NEW n \in Clicks
        PROVE  /\ n # n0 \/ q.pc # "order" => orders'[n] = orders[n]
               /\ orders'[n] \in Nat
               /\ orders'[n] <= orders[n] + 1
    BY <1>1, <1>4, <2>3, <2>4 DEF Good, TypeOK
  <2>6. QED
    BY <1>1, <1>3, <1>4, <2>2, <2>5 DEF Expected
<1>8. QED
  BY <1>2, <1>5, <1>6, <1>7 DEF Done

\* What is expected stays in its bounds, if it does for the request that goes on.
LEMMA CountStays ==
  ASSUME Good, CountInv, NEW r \in Requests, GoesOn(r),
         NEW n0, n0 = request[r].click,
         Expected(n0)' <= Tries,
         Expected(n0)' <= 1 + faults',
         Active(r)' =>
           /\ request'[r].pc # "lookup"
           /\ request'[r].pc = "order" =>
                /\ Expected(n0)' <= request'[r].tries - 1
                /\ Expected(n0)' <= faults'
  PROVE  CountInv'
<1>1. /\ IsFiniteSet(late')
      /\ \A n \in Clicks : Expected(n)' \in Nat
      /\ \A n \in Clicks : n # n0 => Expected(n)' = Expected(n)
  BY GoesOnExpects DEF CountInv
<1>2. /\ n0 \in Clicks /\ n0 <= calls /\ calls' = calls /\ calls \in Nat /\ Clicks \subseteq Nat
      /\ faults \in Nat /\ faults' \in Nat /\ faults' >= faults
  BY GoingIsGood, CallAssumption, FaultAssumption, StoreAssumption
     DEF GoesOn, Good, RequestInv, TypeOK
<1>3. ASSUME NEW n \in Clicks
      PROVE  /\ Expected(n)' <= Tries
             /\ Expected(n)' <= 1 + faults'
             /\ n > calls' => Expected(n)' = 0
  <2>1. CASE n = n0
    BY <1>2, <2>1
  <2>2. CASE n # n0
    <3>1. Expected(n)' = Expected(n) /\ Expected(n) \in Nat
      BY <1>1, <2>2
    <3>2. Expected(n) <= Tries /\ Expected(n) <= 1 + faults /\ (n > calls => Expected(n) = 0)
      BY DEF CountInv
    <3>3. QED
      BY <1>2, <3>1, <3>2
  <2>3. QED
    BY <2>1, <2>2
<1>4. ASSUME NEW s \in Requests, Active(s)'
      PROVE  /\ request'[s].pc = "lookup" => Expected(request[s].click)' = 0
             /\ request'[s].pc = "order" =>
                  /\ Expected(request[s].click)' <= request'[s].tries - 1
                  /\ Expected(request[s].click)' <= faults'
  <2>1. PICK next \in {Idle} \union RequestRecords :
          /\ Becomes(r, next)
          /\ next # Idle => next.click = n0
    BY DEF GoesOn
  <2>2. CASE s = r
    <3>1. request'[s].click = n0
      BY <1>4, <2>1, <2>2, BecomesStays DEF Active, Good
    <3>2. Expected(request[s].click)' = Expected(n0)'
      BY <3>1 DEF Expected, Outstanding
    <3>3. QED
      BY <1>4, <2>2, <3>2
  <2>3. CASE s # r
    <3>1. request'[s] = request[s] /\ Active(s) /\ request[s].click \in Clicks
      BY <1>4, <2>1, <2>3, BecomesStays, AtWork DEF Active, Good, RequestRecords
    <3>2. request[s].click # n0
      BY <2>3, <3>1 DEF GoesOn, Good, RequestInv
    <3>3. PICK n \in Clicks : n = request[s].click
      BY <3>1
    <3>4. /\ Expected(n)' = Expected(n)
          /\ Expected(n)' \in Nat
          /\ Expected(request[s].click)' = Expected(n)'
          /\ Expected(request[s].click) = Expected(n)
      <4>1. Expected(n)' = Expected(n) /\ Expected(n)' \in Nat
        BY <1>1, <3>2, <3>3
      <4>2. QED
        BY <3>1, <3>3, <4>1 DEF Expected, Outstanding
    <3>5. /\ request[s].pc = "lookup" => Expected(request[s].click) = 0
          /\ request[s].pc = "order" =>
               /\ Expected(request[s].click) <= request[s].tries - 1
               /\ Expected(request[s].click) <= faults
      BY <3>1 DEF CountInv
    <3>6. QED
      BY <1>2, <3>1, <3>4, <3>5
  <2>4. QED
    BY <2>2, <2>3
<1>5. QED
  BY <1>1, <1>3, <1>4 DEF CountInv

LEMMA SendCounts ==
  ASSUME Good, CountInv, NEW r \in Requests, Sends(r)
  PROVE  CountInv'
<1> DEFINE q == request[r]
<1>1. GoesOn(r) /\ q.pc \in SendSteps /\ Active(r)
  BY SendGoesOn DEF Good, GoesOn
<1>2. /\ q \in RequestRecords /\ GoodRequest(q) /\ q.tries \in 1..Tries
      /\ SendRefused(r) \/ SendAnswered(r) \/ SendFaulted(r)
  BY <1>1, GoingIsGood, SendCases
<1>3. PICK n0 \in Clicks : n0 = q.click
  BY <1>1, GoingIsGood
<1>4. /\ q.pc # "order" => Expected(n0)' = Expected(n0)
      /\ Expected(n0)' <= Expected(n0) + 1
      /\ Expected(n0)' \in Nat
      /\ Expected(n0) \in Nat
  BY <1>1, <1>3, GoesOnExpects, ExpectedIsNat DEF CountInv, Good
<1>5. /\ Expected(n0) <= Tries /\ Expected(n0) <= 1 + faults
      /\ q.pc = "order" => Expected(n0) <= q.tries - 1 /\ Expected(n0) <= faults
  <2>1. Expected(n0) <= Tries /\ Expected(n0) <= 1 + faults
    BY DEF CountInv
  <2>2. Expected(q.click) = Expected(n0)
    BY <1>3
  <2>3. QED
    BY <1>1, <2>1, <2>2 DEF CountInv
<1>6. faults \in Nat /\ faults' \in Nat /\ faults' >= faults /\ Tries \in Nat
  BY <1>1, FaultAssumption, TriesAssumption DEF GoesOn, Good, TypeOK
<1>7. Failed(q).pc \notin {"lookup", "order"} /\ Succeeded(q).pc \notin {"lookup", "order"}
  BY <1>1, <1>2 DEF Failed, Succeeded, SendSteps, RequestRecords
<1>8. Expected(n0)' <= Tries
  BY <1>1, <1>2, <1>4, <1>5, <1>6
<1>9. CASE SendRefused(r) \/ SendAnswered(r)
  <2>1. request'[r] = Failed(q) \/ request'[r] = Succeeded(q)
    BY <1>9 DEF SendRefused, SendAnswered, Becomes, Good, TypeOK
  <2>2. Expected(n0)' <= 1 + faults'
    BY <1>4, <1>5, <1>6
  <2>3. QED
    BY <1>1, <1>3, <1>7, <1>8, <2>1, <2>2, CountStays
<1>10. CASE SendFaulted(r)
  <2>1. faults' = faults + 1
    BY <1>10 DEF SendFaulted, Fault
  <2>2. Expected(n0)' <= 1 + faults' /\ (q.pc = "order" => Expected(n0)' <= faults')
    BY <1>4, <1>5, <1>6, <2>1
  <2>3. CASE request'[r] = Failed(q)
    BY <1>1, <1>3, <1>7, <1>8, <2>2, <2>3, CountStays
  <2>4. CASE request'[r] = [q EXCEPT !.tries = @ + 1]
    <3>1. /\ request'[r].pc = q.pc /\ request'[r].tries = q.tries + 1 /\ q.pc # "lookup"
          /\ q.tries \in Nat
      BY <1>1, <1>2, <2>4 DEF RequestRecords, SendSteps
    <3>2. q.pc = "order" => Expected(n0)' <= request'[r].tries - 1
      BY <1>4, <1>5, <3>1
    <3>3. QED
      BY <1>1, <1>3, <1>8, <2>2, <3>1, <3>2, CountStays
  <2>5. QED
    BY <1>10, <2>3, <2>4 DEF SendFaulted, Becomes, Good, TypeOK
<1>11. QED
  BY <1>2, <1>9, <1>10

\* The other steps of a request.
LEMMA OthersCount ==
  ASSUME Good, CountInv, NEW r \in Requests,
         ReadCart(r) \/ LookUpItems(r) \/ Answers(r) \/ Cut(r)
  PROVE  CountInv'
<1> DEFINE q == request[r]
<1>1. GoesOn(r) /\ Active(r)
  BY ReadGoesOn, LookUpGoesOn, AnswerGoesOn, CutGoesOn DEF Good, GoesOn
<1>2. q \in RequestRecords /\ GoodRequest(q) /\ q.tries \in 1..Tries
  BY <1>1, GoingIsGood
<1>3. PICK n0 \in Clicks : n0 = q.click
  BY <1>1, GoingIsGood
<1>4. /\ q.pc # "order" => Expected(n0)' = Expected(n0)
      /\ Expected(n0)' <= Expected(n0) + 1
      /\ Expected(n0)' \in Nat
      /\ Expected(n0) \in Nat
  BY <1>1, <1>3, GoesOnExpects, ExpectedIsNat DEF CountInv, Good
<1>5. /\ Expected(n0) <= Tries /\ Expected(n0) <= 1 + faults
      /\ q.pc = "order" => Expected(n0) <= q.tries - 1 /\ Expected(n0) <= faults
      /\ q.pc = "lookup" => Expected(n0) = 0
  <2>1. Expected(n0) <= Tries /\ Expected(n0) <= 1 + faults
    BY DEF CountInv
  <2>2. Expected(q.click) = Expected(n0)
    BY <1>3
  <2>3. QED
    BY <1>1, <2>1, <2>2 DEF CountInv
<1>6. faults \in Nat /\ faults' \in Nat /\ faults' >= faults /\ Tries \in Nat
  BY <1>1, FaultAssumption, TriesAssumption DEF GoesOn, Good, TypeOK
<1>7. Expected(n0)' <= Tries
  BY <1>2, <1>4, <1>5, <1>6
<1>8. Expected(n0)' <= 1 + faults'
  BY <1>4, <1>5, <1>6
<1>9. CASE LookUpItems(r)
  <2>1. /\ request'[r] = LookedUp(q) \/ request'[r] = NotLookedUp(q)
        /\ q.pc = "lookup"
    BY <1>9, LookUpCases DEF Becomes, Good, TypeOK
  <2>2. /\ request'[r].pc # "lookup"
        /\ request'[r].pc = "order" => request'[r].tries = 1
    BY <1>2, <2>1 DEF LookedUp, NotLookedUp, RequestRecords
  <2>3. Expected(n0)' = 0
    BY <1>4, <1>5, <2>1
  <2>4. QED
    BY <1>1, <1>3, <1>6, <1>7, <1>8, <2>2, <2>3, CountStays
<1>10. ASSUME Active(r)' => request'[r].pc \notin {"lookup", "order"}
       PROVE  CountInv'
  BY <1>1, <1>3, <1>7, <1>8, <1>10, CountStays
<1>11. CASE ReadCart(r)
  <2>1. \E result \in {"ok", "error"}, answer \in SUBSET Rows :
          request'[r] = Loaded(q, result, answer)
    BY <1>11, ReadCases DEF ReadAnswered, ReadFailed, Becomes, Good, TypeOK
  <2>2. QED
    BY <1>2, <1>10, <2>1 DEF Loaded, RequestRecords
<1>12. CASE Answers(r)
  <2>1. request'[r] = Idle \/ request'[r] = [q EXCEPT !.pc = "load"]
    BY <1>12, AnswerGoesOn DEF Becomes, Good, TypeOK
  <2>2. QED
    BY <1>2, <1>10, <2>1 DEF Active, RequestRecords
<1>13. CASE Cut(r)
  <2>1. request'[r] = NotLookedUp(q)
    BY <1>13 DEF Cut, GoesWith, NotLookedUp, Becomes, Good, TypeOK
  <2>2. QED
    BY <1>2, <1>10, <2>1 DEF NotLookedUp, RequestRecords
<1>14. QED
  BY <1>9, <1>11, <1>12, <1>13

LEMMA ClickCounts ==
  ASSUME Good, CountInv, NEW r \in Requests, NEW t \in Tabs, Click(r, t)
  PROVE  CountInv'
<1>1. PICK q : Begins(r, t, q)
  BY ClickBegins DEF Good
<1>2. /\ orders' = orders /\ late' = late /\ faults' = faults /\ calls' = calls + 1
      /\ request'[r] = q /\ q.click = calls' /\ q.click \in Clicks
      /\ q.pc # "order"
      /\ \A s \in Requests : s # r => request'[s] = request[s]
  BY <1>1, BecomesStays DEF Begins, Good, RequestRecords, services
<1>3. \A n : Expected(n)' = Expected(n)
  BY <1>2 DEF Expected, Outstanding
<1>4. calls \in Nat /\ Clicks \subseteq Nat
  BY CallAssumption, StoreAssumption DEF Good, TypeOK
<1>5. \A n \in Clicks : n > calls => Expected(n) = 0
  BY DEF CountInv
<1>6. \A n \in Clicks : n > calls' => Expected(n)' = 0
  BY <1>2, <1>3, <1>4, <1>5
<1>7. ASSUME NEW s \in Requests, Active(s)'
      PROVE  /\ request'[s].pc = "lookup" => Expected(request'[s].click) = 0
             /\ request'[s].pc = "order" =>
                  /\ Expected(request'[s].click) <= request'[s].tries - 1
                  /\ Expected(request'[s].click) <= faults
  <2>1. CASE s = r
    <3>1. PICK n \in Clicks : n = request'[s].click /\ n > calls
      BY <1>2, <1>4, <2>1
    <3>2. Expected(n) = 0
      BY <1>5, <3>1
    <3>3. QED
      BY <1>2, <2>1, <3>1, <3>2
  <2>2. CASE s # r
    BY <1>2, <1>7, <2>2 DEF CountInv, Active
  <2>3. QED
    BY <2>1, <2>2
<1>8. QED
  BY <1>2, <1>3, <1>6, <1>7 DEF CountInv

LEMMA LateCounts ==
  ASSUME Good, CountInv, NEW q \in late, TakeEffect(q)
  PROVE  CountInv'
<1>1. /\ q \in RequestRecords /\ GoodRequest(q) /\ q.pc \in SendSteps
      /\ q.send \in Requested /\ q.click \in Clicks
  BY HasCall DEF Good, TypeOK, RequestInv, SendSteps, RequestRecords
<1>2. /\ Done(q.send) /\ late' = late \ {q}
      /\ UNCHANGED <<request, calls, faults>>
  BY DEF TakeEffect, Done, Serves
<1>3. IsFiniteSet(late')
  BY <1>2, FS_RemoveElement DEF CountInv
<1>4. \A n \in Clicks : /\ Expected(n) \in Nat
                        /\ IsFiniteSet(Outstanding(n))
                        /\ Cardinality(Outstanding(n)) \in Nat
                        /\ orders[n] \in Nat
  BY ExpectedIsNat, OutstandingCount DEF Good, TypeOK, CountInv
<1>5. ASSUME NEW n \in Clicks
      PROVE  Expected(n)' \in Nat /\ Expected(n)' <= Expected(n)
  <2>1. IsFiniteSet(Outstanding(n)) /\ Cardinality(Outstanding(n)) \in Nat /\ orders[n] \in Nat
    BY <1>4
  <2>2. Cardinality(Outstanding(n) \ {q}) =
          IF q \in Outstanding(n) THEN Cardinality(Outstanding(n)) - 1
          ELSE Cardinality(Outstanding(n))
    BY <2>1, FS_RemoveElement
  <2>3. Outstanding(n)' = Outstanding(n) \ {q}
    BY <1>2 DEF Outstanding
  <2>4. Cardinality(Outstanding(n) \ {q}) \in Nat
    BY <1>3, <2>3, FS_Subset, FS_CardinalityType, <2>1
  <2>5. q.send.name = "CreateOrder" => q.pc = "order" /\ q.send.click = q.click
    BY <1>1 DEF GoodRequest, SendSteps, CreateOrder, ClearCart
  <2>6. /\ orders'[n] \in Nat
        /\ orders'[n] <= orders[n] + 1
        /\ orders'[n] > orders[n] => q.pc = "order" /\ n = q.click
    <3>1. CASE UNCHANGED services
      BY <2>1, <3>1 DEF services
    <3>2. CASE Serve(q.send)
      BY <1>1, <2>1, <2>5, <3>2, ServeCases DEF Good, TypeOK
    <3>3. QED
      BY <1>2, <3>1, <3>2 DEF Done
  <2>7. CASE q \in Outstanding(n)
    BY <2>1, <2>2, <2>3, <2>4, <2>6, <2>7 DEF Expected
  <2>8. CASE q \notin Outstanding(n)
    <3>1. orders'[n] <= orders[n]
      BY <2>1, <2>6, <2>8 DEF Outstanding
    <3>2. QED
      BY <2>1, <2>2, <2>3, <2>6, <2>8, <3>1 DEF Expected
  <2>9. QED
    BY <2>7, <2>8
<1>6. faults \in Nat /\ Tries \in Nat /\ faults' = faults /\ calls' = calls
  BY <1>2, FaultAssumption, TriesAssumption DEF Good, TypeOK
<1>7. ASSUME NEW n \in Clicks
      PROVE  /\ Expected(n)' <= Tries /\ Expected(n)' <= 1 + faults'
             /\ n > calls' => Expected(n)' = 0
  <2>1. Expected(n) <= Tries /\ Expected(n) <= 1 + faults /\ (n > calls => Expected(n) = 0)
    BY DEF CountInv
  <2>2. QED
    BY <1>4, <1>5, <1>6, <2>1
<1>8. ASSUME NEW s \in Requests, Active(s)
      PROVE  /\ request[s].pc = "lookup" => Expected(request[s].click)' = 0
             /\ request[s].pc = "order" =>
                  /\ Expected(request[s].click)' <= request[s].tries - 1
                  /\ Expected(request[s].click)' <= faults'
  <2>1. PICK n \in Clicks : n = request[s].click
    BY <1>8, AtWork DEF Good, RequestRecords
  <2>2. request'[s] = request[s] /\ request[s].tries \in Nat
    BY <1>2, <1>8, AtWork DEF Good, RequestRecords
  <2>3. /\ request[s].pc = "lookup" => Expected(n) = 0
        /\ request[s].pc = "order" => Expected(n) <= request[s].tries - 1 /\ Expected(n) <= faults
    <3>1. Expected(request[s].click) = Expected(n)
      BY <2>1
    <3>2. QED
      BY <1>8, <3>1 DEF CountInv
  <2>4. Expected(request[s].click)' = Expected(n)'
    BY <2>1, <2>2 DEF Expected, Outstanding
  <2>5. Expected(n)' \in Nat /\ Expected(n)' <= Expected(n) /\ Expected(n) \in Nat
    BY <1>4, <1>5
  <2>6. QED
    BY <1>6, <2>2, <2>3, <2>4, <2>5
<1>9. QED
  BY <1>2, <1>3, <1>7, <1>8 DEF CountInv, Active

LEMMA CountStep ==
  ASSUME Good, CountInv, [Next]_vars
  PROVE  CountInv'
<1>1. ASSUME UNCHANGED <<services, request, late, calls, faults>>
      PROVE  CountInv'
  BY <1>1 DEF services, CountInv, Expected, Outstanding, Active
<1>2. ASSUME NEW t \in Tabs, NEW s \in Sneakers, ClickUnsaved(t, s)
      PROVE  CountInv'
  BY <1>1, <1>2 DEF ClickUnsaved
<1>3. CASE UNCHANGED vars
  BY <1>1, <1>3 DEF vars
<1>4. QED
  BY <1>2, <1>3, ClickCounts, SendCounts, OthersCount, LateCounts
     DEF Next, Step, Sends, Answers

LEMMA InitCounts == Init => CountInv
<1>1. ASSUME Init
      PROVE  CountInv
  <2>1. \A n \in Clicks : Outstanding(n) = {} /\ orders[n] = 0
    BY <1>1 DEF Init, Outstanding
  <2>2. \A n \in Clicks : Expected(n) = 0
    BY <2>1, FS_EmptySet DEF Expected
  <2>3. QED
    BY <1>1, <2>2, FS_EmptySet, TriesAssumption DEF Init, CountInv, Active
<1>2. QED
  BY <1>1

\* A click leaves one order, and one more for every try of CreateOrder that was given
\* up, but never more than the client tries, also when tries are done after the
\* answer (order.New of the gateway's client, which retries a call that knows no
\* idempotency key).
THEOREM OrdersAreCounted == Spec => []AnOrderPerTry
<1>1. Init => Good /\ CountInv
  BY InitIsGood, InitCounts
<1>2. Good /\ CountInv /\ [Next]_vars => (Good /\ CountInv)'
  BY GoodStep, CountStep
<1>3. Good /\ CountInv => AnOrderPerTry
  <2>1. ASSUME Good, CountInv, NEW n \in Clicks
        PROVE  orders[n] <= Tries /\ orders[n] <= 1 + faults
    <3>1. /\ Expected(n) \in Nat /\ orders[n] <= Expected(n) /\ orders[n] \in Nat
          /\ Expected(n) <= Tries /\ Expected(n) <= 1 + faults
      BY <2>1, ExpectedIsNat DEF Good, CountInv, TypeOK
    <3>2. faults \in Nat /\ Tries \in Nat
      BY <2>1, FaultAssumption, TriesAssumption DEF Good, TypeOK
    <3>3. QED
      BY <3>1, <3>2
  <2>2. QED
    BY <2>1 DEF AnOrderPerTry
<1>4. QED
  BY <1>1, <1>2, <1>3, PTL DEF Spec

-----------------------------------------------------------------------------
(* The rows of the cart.                                                   *)

\* A call leaves rows with ids of their own.
LEMMA DoneRows ==
  ASSUME Good, RowsInv, NEW c \in Requested, Done(c)
  PROVE  RowsInv'
<1>1. issued \in Nat /\ \A row \in rows : row.id \in Nat
  BY DEF Good, TypeOK, Rows
<1>2. CASE AddItem(c)
  <2>1. PICK new : new.id = issued + 1 /\ rows' = rows \union {new} /\ issued' = issued + 1
    BY <1>2 DEF AddItem
  <2>2. \A row \in rows : row.id < new.id
    BY <1>1, <2>1 DEF RowsInv
  <2>3. \A row \in rows' : row.id <= issued'
    BY <1>1, <2>1, <2>2
  <2>4. ASSUME NEW row1 \in rows', NEW row2 \in rows', row1.id = row2.id
        PROVE  row1 = row2
    BY <1>1, <2>1, <2>2, <2>4 DEF RowsInv
  <2>5. QED
    BY <2>3, <2>4 DEF RowsInv
<1>3. CASE UpdateItem(c)
  <2> DEFINE To(row) == IF row.id = c.id THEN [row EXCEPT !.quantity = c.quantity] ELSE row
  <2>1. rows' = {To(row) : row \in rows} /\ issued' = issued
    BY <1>3 DEF UpdateItem
  <2>2. \A row \in rows : To(row).id = row.id
    BY DEF Good, TypeOK, Rows
  <2> HIDE DEF To
  <2>3. \A row \in rows' : row.id <= issued'
    BY <2>1, <2>2 DEF RowsInv
  <2>4. ASSUME NEW row1 \in rows', NEW row2 \in rows', row1.id = row2.id
        PROVE  row1 = row2
    BY <2>1, <2>2, <2>4 DEF RowsInv
  <2>5. QED
    BY <2>3, <2>4 DEF RowsInv
<1>4. CASE RemoveItem(c) \/ EmptyCart(c) \/ PlaceOrder(c) \/ UNCHANGED services
  <2>1. rows' \subseteq rows /\ issued' = issued
    BY <1>4 DEF RemoveItem, EmptyCart, PlaceOrder, services
  <2>2. QED
    BY <2>1 DEF RowsInv
<1>5. QED
  BY <1>2, <1>3, <1>4 DEF Done, Serve

\* Whatever a step does to the rows, it does it by a call.
LEMMA RowsStep ==
  ASSUME Good, RowsInv, [Next]_vars
  PROVE  RowsInv'
<1>1. CASE UNCHANGED services
  BY <1>1 DEF RowsInv, services
<1>2. ASSUME NEW r \in Requests, Step(r) \/ Cut(r)
      PROVE  RowsInv'
  <2>1. GoesOn(r)
    BY <1>2, StepGoesOn DEF Good
  <2>2. CASE request[r].pc \in SendSteps /\ Done(request[r].send)
    <3>1. request[r] \in RequestRecords /\ GoodRequest(request[r])
      BY <2>1, GoingIsGood
    <3>2. QED
      BY <2>2, <3>1, HasCall, DoneRows
  <2>3. QED
    BY <1>1, <2>1, <2>2 DEF GoesOn
<1>3. ASSUME NEW q \in late, TakeEffect(q)
      PROVE  RowsInv'
  <2>1. q \in RequestRecords /\ GoodRequest(q) /\ q.pc \in SendSteps
    BY DEF Good, TypeOK, RequestInv, SendSteps
  <2>2. Done(q.send)
    BY <1>3 DEF TakeEffect, Done, Serves
  <2>3. QED
    BY <2>1, <2>2, HasCall, DoneRows
<1>4. ASSUME NEW r \in Requests, NEW t \in Tabs, Click(r, t)
      PROVE  UNCHANGED services
  BY <1>4, ClickBegins DEF Begins, Good
<1>5. ASSUME NEW t \in Tabs, NEW s \in Sneakers, ClickUnsaved(t, s)
      PROVE  UNCHANGED services
  BY <1>5 DEF ClickUnsaved
<1>6. CASE UNCHANGED vars
  BY <1>1, <1>6 DEF vars
<1>7. QED
  BY <1>1, <1>2, <1>3, <1>4, <1>5, <1>6 DEF Next

-----------------------------------------------------------------------------
(* What a tab shows that has the cart to itself.                           *)

\* When the only request goes on to next, and the tab's view fits it, the tab still
\* has the cart to itself; no other tab has.
LEMMA ViewStays ==
  ASSUME Good, ViewInv, NEW r \in Requests, GoesOn(r),
         NEW t \in Tabs, t = request[r].tab,
         NEW next \in {Idle} \union RequestRecords, Becomes(r, next),
         next # Idle => next.tab = t,
         \A u \in Tabs \ {t} : view'[u] # "stale" => view[u] # "stale",
         view'[t] # "stale" =>
           /\ view[t] # "stale" \/ Alone(r)
           /\ late' = {}
           /\ next # Idle => Fits(t, next)'
           /\ next = Idle => view'[t] # "reading" /\ Shows(t)'
  PROVE  ViewInv'
<1>1. Active(r)
  BY DEF GoesOn
<1>2. request'[r] = next /\ \A s \in Requests : s # r => request'[s] = request[s]
  BY BecomesStays DEF Good
<1>3. ASSUME NEW u \in Tabs \ {t}
      PROVE  view'[u] = "stale"
  BY <1>1, <1>3 DEF ViewInv, HasItsView
<1>4. ASSUME view'[t] # "stale"
      PROVE  HasItsView(t)'
  <2>1. \A s \in Requests : s # r => request[s] = Idle
    <3>1. CASE view[t] # "stale"
      BY <1>1, <3>1 DEF ViewInv, HasItsView, Active
    <3>2. CASE Alone(r)
      BY <3>2 DEF Alone, Undisturbed, OthersIdle
    <3>3. QED
      BY <1>4, <3>1, <3>2
  <2>2. \A s \in Requests : Active(s)' => s = r
    BY <1>2, <2>1 DEF Active
  <2>3. \A s \in Requests : Active(s)' => request'[s].tab = t /\ Fits(t, next)' /\ request'[s] = next
    BY <1>2, <1>4, <2>2 DEF Active
  <2>4. (\A s \in Requests : ~Active(s)') => next = Idle
    BY <1>2 DEF Active
  <2>5. \A s \in Requests : Active(s)' => Fits(t, request[s])'
    <3>1. ASSUME NEW s \in Requests, Active(s)'
          PROVE  Fits(t, request[s])'
      BY <2>3, <3>1 DEF Fits, AddView, ChangeView, RemoveView, OrderView, LoadView, Shows, Left, Updated
    <3>2. QED
      BY <3>1
  <2>6. QED
    BY <1>4, <2>2, <2>3, <2>4, <2>5 DEF HasItsView
<1>5. QED
  BY <1>3, <1>4 DEF ViewInv

\* A step that nothing comes in the way of leaves the hash as the cart.
LEMMA CopyStep ==
  ASSUME Good, CopyInv, [Next]_vars
  PROVE  CopyInv'
<1>1. CASE UNCHANGED <<services, redis>>
  BY <1>1 DEF services, redis, CopyInv
<1>2. CASE UNCHANGED services /\ ReadCopies
  BY <1>2 DEF ReadCopies, FillsCopy, FillsPartly, services, redis, CopyInv
<1>3. ASSUME NEW c \in Requested, NEW undisturbed \in BOOLEAN, ~Refuses(c), Serves(c, undisturbed)
      PROVE  CopyInv'
  BY <1>3, ServesCopies
<1>4. QED
  BY <1>1, <1>2, <1>3, EveryRedisStep DEF RedisStep

\* How a call ends for a tab that is on its own.
SendEnds(t, q, next) ==
  \/ UNCHANGED services /\ Refuses(q.send) /\ next = Failed(q) /\ view'[t] = view[t]
  \/ ~Refuses(q.send) /\ Serve(q.send) /\ next = Succeeded(q) /\ view'[t] = view[t]
  \/ /\ Done(q.send) /\ view'[t] = "partial"
     /\ next = Failed(q) \/ next = [q EXCEPT !.tries = @ + 1]

\* A tab that is on its own and has not had a fault sees its call refused or done;
\* after a fault, it may be done or not.
LEMMA SendView ==
  ASSUME Good, ViewInv, NEW r \in Requests, Sends(r),
         NEW t \in Tabs, t = request[r].tab, view'[t] # "stale",
         NEW q, q = request[r]
  PROVE  /\ q \in RequestRecords /\ GoodRequest(q) /\ q.pc \in SendSteps /\ q.send \in Requested
         /\ late' = {} /\ shown' = shown
         /\ Fits(t, q)
         /\ view[t] \in {"exact", "partial"}
         /\ SendEnds(t, q, request'[r])
<1>1. /\ GoesOn(r) /\ Active(r) /\ q \in RequestRecords /\ GoodRequest(q)
      /\ q.pc \in SendSteps /\ q.send \in Requested
  BY SendGoesOn, GoingIsGood, HasCall DEF Good, GoesOn
<1>2. /\ Watch /\ UNCHANGED <<tabs, calls>>
      /\ SendRefused(r) \/ SendAnswered(r) \/ SendFaulted(r)
  BY <1>1, SendCases
<1>3. /\ late' = late /\ view[t] # "stale"
      /\ view'[t] = IF faults' # faults /\ view[t] = "exact" THEN "partial" ELSE view[t]
  BY <1>2 DEF Watch
<1>4. late = {} /\ Fits(t, q)
  BY <1>1, <1>3 DEF ViewInv, HasItsView
<1>5. view[t] \in {"exact", "partial"}
  BY <1>1, <1>3, <1>4 DEF Fits, LoadView, SendSteps, Good, TypeOK, Views
<1>6. CASE SendRefused(r)
  BY <1>1, <1>2, <1>3, <1>4, <1>5, <1>6 DEF SendRefused, Becomes, Good, TypeOK, tabs, SendEnds
<1>7. CASE SendAnswered(r)
  BY <1>1, <1>2, <1>3, <1>4, <1>5, <1>7 DEF SendAnswered, Becomes, Good, TypeOK, tabs, SendEnds,
                                               ServesTry, Serves
<1>8. CASE SendFaulted(r)
  <2>1. faults' # faults
    BY <1>8, FaultCounts, FaultAssumption DEF SendFaulted, Good, TypeOK
  <2>2. view'[t] = "partial"
    BY <1>3, <1>5, <2>1
  <2>3. Done(q.send)
    BY <1>8 DEF SendFaulted, Done, ServesTry, Serves
  <2>4. request'[r] = Failed(q) \/ request'[r] = [q EXCEPT !.tries = @ + 1]
    BY <1>8 DEF SendFaulted, Becomes, Good, TypeOK
  <2>5. QED
    BY <1>1, <1>2, <1>3, <1>4, <1>5, <2>2, <2>3, <2>4 DEF tabs, SendEnds
<1>9. QED
  BY <1>2, <1>6, <1>7, <1>8

\* While an item is added the tab shows the cart as it was.
LEMMA AddFits ==
  ASSUME Good, RowsInv, ViewInv, NEW r \in Requests, Sends(r),
         NEW t \in Tabs, t = request[r].tab, view'[t] # "stale",
         NEW q, q = request[r], q.call = "add",
         NEW next, next = request'[r]
  PROVE  Fits(t, next)'
<1>1. /\ q \in RequestRecords /\ GoodRequest(q) /\ q.pc \in SendSteps
      /\ shown' = shown /\ Fits(t, q) /\ view[t] \in {"exact", "partial"}
      /\ SendEnds(t, q, next)
  BY SendView
<1>2. q.pc = "write" /\ q.send.name = "AddToCart" /\ Shows(t)
  BY <1>1 DEF GoodRequest, SendSteps, Fits, AddView
<1>3. Succeeded(q).pc = "written" /\ Succeeded(q).result = "ok" /\ Succeeded(q).call = "add"
  BY <1>1, <1>2 DEF Succeeded, RequestRecords
<1>4. Failed(q).pc = "written" /\ Failed(q).result = "error" /\ Failed(q).call = "add"
  BY <1>1, <1>2 DEF Failed, RequestRecords
<1>5. [q EXCEPT !.tries = @ + 1].pc = "write" /\ [q EXCEPT !.tries = @ + 1].call = "add"
  BY <1>1, <1>2 DEF RequestRecords
<1>6. /\ next.pc \in {"write", "written"} /\ next.call = "add" /\ view'[t] # "reading"
      /\ next.pc = "write" \/ next.result = "error" =>
           \/ UNCHANGED services /\ view'[t] = view[t]
           \/ Done(q.send) /\ view'[t] = "partial"
  BY <1>1, <1>3, <1>4, <1>5 DEF SendEnds, Done
<1>7. Done(q.send) => rows \subseteq rows'
  BY <1>2 DEF Done, Serve, services, AddItem, UpdateItem, RemoveItem, EmptyCart, PlaceOrder
<1>8. next.pc = "write" \/ next.result = "error" => Shows(t)'
  BY <1>1, <1>2, <1>6, <1>7 DEF Shows, OneLineEach, services
<1>9. QED
  BY <1>6, <1>8 DEF Fits, AddView, ChangeView, RemoveView, OrderView, LoadView

\* While a quantity is changed the tab shows the cart that it will be.
LEMMA ChangeFits ==
  ASSUME Good, RowsInv, ViewInv, NEW r \in Requests, Sends(r),
         NEW t \in Tabs, t = request[r].tab, view'[t] # "stale",
         NEW q, q = request[r], q.call = "change",
         NEW next, next = request'[r]
  PROVE  Fits(t, next)'
<1>1. /\ q \in RequestRecords /\ GoodRequest(q) /\ q.pc \in SendSteps
      /\ shown' = shown /\ Fits(t, q) /\ view[t] \in {"exact", "partial"}
      /\ SendEnds(t, q, next)
  BY SendView
<1>2. /\ q.pc = "write" /\ q.send.name = "UpdateCartItemQuantity"
      /\ OneLineEach(shown[t])
      /\ view[t] = "exact" => shown[t] = Updated(q)
      /\ shown[t] \subseteq Updated(q)
  BY <1>1 DEF GoodRequest, SendSteps, Fits, ChangeView
<1>3. Succeeded(q).pc = "written" /\ Succeeded(q).result = "ok" /\ Succeeded(q).call = "change"
  BY <1>1, <1>2 DEF Succeeded, RequestRecords
<1>4. Failed(q).pc = "written" /\ Failed(q).result = "error" /\ Failed(q).call = "change"
  BY <1>1, <1>2 DEF Failed, RequestRecords
<1>5. /\ [q EXCEPT !.tries = @ + 1].pc = "write" /\ [q EXCEPT !.tries = @ + 1].call = "change"
      /\ [q EXCEPT !.tries = @ + 1].send = q.send
  BY <1>1, <1>2 DEF RequestRecords
<1>6. /\ next.pc \in {"write", "written"} /\ next.call = "change" /\ view'[t] # "reading"
      /\ next.pc = "write" => Done(q.send) /\ view'[t] = "partial" /\ next.send = q.send
      /\ next.pc = "written" /\ next.result = "ok" => Serve(q.send) /\ view'[t] = view[t]
  BY <1>1, <1>3, <1>4, <1>5 DEF SendEnds, Done
<1>7. Serve(q.send) => rows' = Updated(q)
  BY <1>2 DEF Serve, AddItem, UpdateItem, RemoveItem, EmptyCart, PlaceOrder, Updated
<1>8. next.pc = "written" /\ next.result = "ok" => Shows(t)'
  BY <1>1, <1>2, <1>6, <1>7 DEF Shows, OneLineEach
<1>9. ASSUME next.pc = "write"
      PROVE  shown'[t] \subseteq Updated(next)'
  <2> DEFINE To(row) == IF row.id = q.send.id THEN [row EXCEPT !.quantity = q.send.quantity] ELSE row
  <2>1. \A row \in rows : To(To(row)) = To(row)
    BY DEF Good, TypeOK, Rows
  <2>2. Updated(q) = {To(row) : row \in rows} /\ Updated(next)' = {To(row) : row \in rows'}
    BY <1>6, <1>9 DEF Updated
  <2> HIDE DEF To
  <2>3. rows' = rows \/ rows' = Updated(q)
    BY <1>6, <1>7, <1>9 DEF Done, services
  <2>4. Updated(q) \subseteq Updated(next)'
    BY <2>1, <2>2, <2>3
  <2>5. QED
    BY <1>1, <1>2, <2>4
<1>10. QED
  BY <1>1, <1>2, <1>6, <1>8, <1>9
     DEF Fits, AddView, ChangeView, RemoveView, OrderView, LoadView, OneLineEach

\* While an item is removed the tab still shows its line.
LEMMA RemoveFits ==
  ASSUME Good, RowsInv, ViewInv, NEW r \in Requests, Sends(r),
         NEW t \in Tabs, t = request[r].tab, view'[t] # "stale",
         NEW q, q = request[r], q.call = "remove",
         NEW next, next = request'[r]
  PROVE  Fits(t, next)'
<1>1. /\ q \in RequestRecords /\ GoodRequest(q) /\ q.pc \in SendSteps
      /\ shown' = shown /\ Fits(t, q) /\ view[t] \in {"exact", "partial"}
      /\ SendEnds(t, q, next)
  BY SendView
<1>2. q.pc = "write" /\ q.send.name = "RemoveFromCart" /\ OneLineEach(shown[t])
  BY <1>1 DEF GoodRequest, SendSteps, Fits, RemoveView
<1>3. PICK line \in shown[t] :
        /\ q.items = {line} /\ q.send.id = line.id
        /\ view[t] = "exact" => shown[t] = rows
        /\ view[t] = "partial" =>
             shown[t] \ {line} \subseteq {row \in rows : row.id # line.id}
  BY <1>1, <1>2 DEF Fits, RemoveView
<1>4. shown[t] \ {line} \subseteq {row \in rows : row.id # line.id}
  BY <1>1, <1>3 DEF RowsInv
<1>5. Succeeded(q).pc = "written" /\ Succeeded(q).result = "ok" /\ Succeeded(q).call = "remove"
      /\ Succeeded(q).items = q.items
  BY <1>1, <1>2 DEF Succeeded, RequestRecords
<1>6. Failed(q).pc = "written" /\ Failed(q).result = "error" /\ Failed(q).call = "remove"
  BY <1>1, <1>2 DEF Failed, RequestRecords
<1>7. /\ [q EXCEPT !.tries = @ + 1].pc = "write" /\ [q EXCEPT !.tries = @ + 1].call = "remove"
      /\ [q EXCEPT !.tries = @ + 1].send = q.send /\ [q EXCEPT !.tries = @ + 1].items = q.items
  BY <1>1, <1>2 DEF RequestRecords
<1>8. /\ next.pc \in {"write", "written"} /\ next.call = "remove" /\ view'[t] # "reading"
      /\ next.pc = "write" =>
           Done(q.send) /\ view'[t] = "partial" /\ next.send = q.send /\ next.items = q.items
      /\ next.pc = "written" /\ next.result = "ok" =>
           Serve(q.send) /\ view'[t] = view[t] /\ next.items = q.items
  BY <1>1, <1>5, <1>6, <1>7 DEF SendEnds, Done
<1>9. Serve(q.send) => rows' = {row \in rows : row.id # line.id}
  BY <1>2, <1>3 DEF Serve, AddItem, UpdateItem, RemoveItem, EmptyCart, PlaceOrder
<1>10. ASSUME next.pc = "written", next.result = "ok"
       PROVE  /\ view'[t] = "exact" => Left(t, next)' = rows'
              /\ view'[t] = "partial" => Left(t, next)' \subseteq rows'
  <2>1. Left(t, next)' = {other \in shown[t] : other.sneaker # line.sneaker}
    BY <1>1, <1>3, <1>8, <1>10 DEF Left
  <2>2. Left(t, next)' = shown[t] \ {line}
    BY <1>2, <2>1 DEF OneLineEach
  <2>3. view[t] = "exact" => {row \in rows : row.id # line.id} = shown[t] \ {line}
    BY <1>3, <1>4
  <2>4. QED
    BY <1>4, <1>8, <1>9, <1>10, <2>2, <2>3
<1>11. next.pc = "write" => {row \in rows : row.id # line.id} \subseteq
                            {row \in rows' : row.id # line.id}
  BY <1>8, <1>9 DEF Done, services
<1>12. next.pc = "write" =>
         /\ line \in shown'[t] /\ next.items = {line} /\ next.send.id = line.id
         /\ view'[t] = "partial"
         /\ shown'[t] \ {line} \subseteq {row \in rows' : row.id # line.id}
  BY <1>1, <1>3, <1>4, <1>8, <1>11
<1>13. RemoveView(t, next)'
  BY <1>1, <1>2, <1>8, <1>10, <1>12 DEF RemoveView, OneLineEach
<1>14. QED
  BY <1>8, <1>13 DEF Fits, AddView, ChangeView, OrderView, LoadView

\* While an order is created, and until the cart has been emptied for it, the tab
\* shows the cart that is ordered.
LEMMA OrderFits ==
  ASSUME Good, RowsInv, ViewInv, NEW r \in Requests, Sends(r),
         NEW t \in Tabs, t = request[r].tab, view'[t] # "stale",
         NEW q, q = request[r], q.pc \in {"order", "clear"},
         NEW next, next = request'[r]
  PROVE  Fits(t, next)'
<1>1. /\ q \in RequestRecords /\ GoodRequest(q)
      /\ shown' = shown /\ Fits(t, q) /\ view[t] \in {"exact", "partial"}
      /\ SendEnds(t, q, next)
  BY SendView
<1>2. q.call = "checkout"
  BY <1>1 DEF GoodRequest
<1>3. /\ Succeeded(q).call = "checkout" /\ Succeeded(q).items = q.items
      /\ q.pc = "order" => Succeeded(q).pc = "clear"
      /\ q.pc = "clear" => Succeeded(q).pc = "answer" /\ Succeeded(q).result = "ok"
  BY <1>1, <1>2 DEF Succeeded, RequestRecords
<1>4. /\ Failed(q).call = "checkout" /\ Failed(q).pc = "answer"
      /\ q.pc = "clear" => Failed(q).result = "ok"
  BY <1>1, <1>2 DEF Failed, RequestRecords
<1>5. /\ [q EXCEPT !.tries = @ + 1].pc = q.pc /\ [q EXCEPT !.tries = @ + 1].call = "checkout"
      /\ [q EXCEPT !.tries = @ + 1].items = q.items
  BY <1>1, <1>2 DEF RequestRecords
<1>6. view'[t] = "exact" => Shows(t) /\ q.items = shown[t]
  BY <1>1, <1>3, <1>4, <1>5 DEF Fits, OrderView, SendEnds
<1>7. q.pc = "order" /\ (UNCHANGED services \/ Serve(q.send)) => rows' = rows
  BY <1>1 DEF GoodRequest, CreateOrder, Serve, AddItem, UpdateItem, RemoveItem, EmptyCart,
              PlaceOrder, services
<1>8. /\ next.pc \in {"order", "clear", "answer"} /\ next.call = "checkout"
      /\ view'[t] # "reading"
      /\ view'[t] = "exact" =>
           /\ next.pc = "clear" => q.pc = "order" /\ next.items = q.items
           /\ next.pc = "answer" /\ next.result = "error" => q.pc = "order"
           /\ next.pc # "order"
           /\ UNCHANGED services \/ Serve(q.send)
           /\ view[t] = "exact"
  BY <1>1, <1>3, <1>4, <1>5 DEF SendEnds, Done
<1>9. OrderView(t, next)'
  BY <1>1, <1>6, <1>7, <1>8 DEF OrderView, Shows, OneLineEach
<1>10. QED
  BY <1>8, <1>9 DEF Fits, AddView, ChangeView, RemoveView, LoadView

LEMMA SendKeepsViews ==
  ASSUME Good, RowsInv, ViewInv, NEW r \in Requests, Sends(r)
  PROVE  ViewInv'
<1>1. GoesOn(r) /\ request[r] \in RequestRecords /\ GoodRequest(request[r])
  BY SendGoesOn, GoingIsGood DEF Good
<1>2. PICK t \in Tabs : t = request[r].tab
  BY <1>1, GoingIsGood
<1>3. PICK q : q = request[r]
  OBVIOUS
<1>4. PICK next \in {Idle} \union RequestRecords :
        Becomes(r, next) /\ (next # Idle => next.tab = request[r].tab)
  BY <1>1 DEF GoesOn
<1>5. Watch /\ q.pc \in SendSteps
  BY <1>1, <1>3, SendCases
<1>6. next = request'[r]
  BY <1>4, BecomesStays DEF Good
<1>7. \A u \in Tabs : view'[u] # "stale" => view[u] # "stale"
  BY <1>5 DEF Watch
<1>8. ASSUME view'[t] # "stale"
      PROVE  Fits(t, next)' /\ next # Idle /\ late' = {}
  <2>1. late' = {}
    BY <1>2, <1>3, <1>8, SendView
  <2>2. next # Idle
    <3>1. next = Failed(q) \/ next = Succeeded(q) \/ next = [q EXCEPT !.tries = @ + 1]
      BY <1>2, <1>3, <1>6, <1>8, SendView DEF SendEnds
    <3>2. /\ "tab" \in DOMAIN Failed(q) /\ "tab" \in DOMAIN Succeeded(q)
          /\ "tab" \in DOMAIN [q EXCEPT !.tries = @ + 1]
      BY <1>1, <1>3, <1>5 DEF Failed, Succeeded, SendSteps, RequestRecords
    <3>3. "tab" \notin DOMAIN Idle
      BY DEF Idle
    <3>4. QED
      BY <3>1, <3>2, <3>3
  <2>3. q.call \in {"add", "change", "remove"} \/ q.pc \in {"order", "clear"}
    BY <1>1, <1>3, <1>5 DEF GoodRequest, SendSteps
  <2>4. Fits(t, next)'
    BY <1>2, <1>3, <1>6, <1>8, <2>3, AddFits, ChangeFits, RemoveFits, OrderFits
  <2>5. QED
    BY <2>1, <2>2, <2>4
<1>9. QED
  BY <1>1, <1>2, <1>4, <1>7, <1>8, ViewStays

LEMMA ReadKeepsViews ==
  ASSUME Good, RowsInv, CopyInv, ViewInv, NEW r \in Requests,
         ReadCart(r) \/ LookUpItems(r) \/ Cut(r)
  PROVE  ViewInv'
<1>1. GoesOn(r) /\ request[r] \in RequestRecords
  BY ReadGoesOn, LookUpGoesOn, CutGoesOn, GoingIsGood DEF Good
<1>2. PICK t \in Tabs : t = request[r].tab
  BY <1>1, GoingIsGood
<1>3. PICK q : q = request[r]
  OBVIOUS
<1>4. PICK next \in {Idle} \union RequestRecords :
        Becomes(r, next) /\ (next # Idle => next.tab = request[r].tab)
  BY <1>1 DEF GoesOn
<1>5. next = request'[r]
  BY <1>4, BecomesStays DEF Good
<1>6. shown' = shown
  BY ReadCases, LookUpCases DEF Cut, tabs, Good
<1>7. view[t] # "stale" => late = {} /\ Fits(t, q)
  BY <1>1, <1>2, <1>3 DEF ViewInv, HasItsView, GoesOn
<1>8. Fault => faults' # faults
  BY FaultCounts, FaultAssumption DEF Good, TypeOK
<1>9. Watch => /\ \A u \in Tabs : view'[u] # "stale" => view[u] # "stale" /\ late' = late
               /\ view'[t] # "stale" =>
                    view'[t] = IF faults' # faults /\ view[t] = "exact" THEN "partial" ELSE view[t]
  BY DEF Watch
<1>10. CASE ReadCart(r) /\ Watch /\ Fault /\ Becomes(r, Loaded(q, "error", {}))
  <2>1. next = Loaded(q, "error", {}) /\ q.pc = "load"
    BY <1>3, <1>5, <1>10, ReadCases DEF Becomes, Good, TypeOK
  <2>2. next.pc = "loaded" /\ next.items = {}
    BY <1>1, <1>3, <2>1 DEF Loaded, RequestRecords
  <2>3. next # Idle
    BY <2>2 DEF Idle
  <2>4. view'[t] # "stale" => Fits(t, next)'
    BY <1>7, <1>8, <1>9, <1>10, <2>1, <2>2
       DEF Fits, AddView, ChangeView, RemoveView, OrderView, LoadView
  <2>5. QED
    BY <1>1, <1>2, <1>4, <1>7, <1>9, <1>10, <2>3, <2>4, ViewStays
<1>11. ASSUME NEW answer \in SUBSET Rows,
             ReadCart(r), Becomes(r, Loaded(q, "ok", answer)), UNCHANGED <<services, late>>,
             ~exposed' => answer = rows,
             view' = [view EXCEPT ![t] = IF Alone(r) /\ ~exposed' THEN "reading" ELSE "stale"]
       PROVE  ViewInv'
  <2>1. next = Loaded(q, "ok", answer)
    BY <1>5, <1>11 DEF Becomes, Good, TypeOK
  <2>2. next.pc = "loaded" /\ next.items = answer
    BY <1>1, <1>3, <2>1 DEF Loaded, RequestRecords
  <2>3. next # Idle
    BY <2>2 DEF Idle
  <2>4. view'[t] # "stale" => Alone(r) /\ answer = rows /\ view'[t] = "reading"
    BY <1>11 DEF Good, TypeOK
  <2>5. \A u \in Tabs \ {t} : view'[u] = view[u]
    BY <1>11 DEF Good, TypeOK
  <2>6. rows' = rows /\ late' = late
    BY <1>11 DEF services
  <2>7. view'[t] # "stale" => Fits(t, next)' /\ late' = {}
    BY <2>2, <2>4, <2>6
       DEF Fits, AddView, ChangeView, RemoveView, OrderView, LoadView, Alone, Undisturbed, OneRowEach,
           OneLineEach
  <2>8. QED
    BY <1>1, <1>2, <1>4, <2>3, <2>4, <2>5, <2>7, ViewStays
<1>12. CASE LookUpItems(r) /\ Becomes(r, LookedUp(q)) /\ UNCHANGED faults
  <2>1. next = LookedUp(q) /\ q.pc = "lookup" /\ Watch /\ UNCHANGED <<services, late>>
    BY <1>3, <1>5, <1>12, LookUpCases DEF Becomes, Good, TypeOK
  <2>2. next.pc = "order" /\ next.items = q.items /\ next.call = q.call
    BY <1>1, <1>3, <2>1 DEF LookedUp, RequestRecords
  <2>3. next # Idle
    BY <2>2 DEF Idle
  <2>4. view'[t] # "stale" => view'[t] = view[t] /\ view[t] # "stale" /\ late' = {}
    BY <1>7, <1>9, <1>12, <2>1
  <2>5. rows' = rows
    BY <2>1 DEF services
  <2>6. view'[t] # "stale" => Fits(t, next)'
    BY <1>6, <1>7, <2>1, <2>2, <2>4, <2>5
       DEF Fits, AddView, ChangeView, RemoveView, OrderView, LoadView, Shows, OneLineEach
  <2>7. QED
    BY <1>1, <1>2, <1>4, <1>9, <2>1, <2>3, <2>4, <2>6, ViewStays
<1>13. CASE /\ Becomes(r, NotLookedUp(q)) /\ Watch /\ Fault
            /\ q.pc \in {"lookup", "order", "clear"}
  <2>1. next = NotLookedUp(q)
    BY <1>5, <1>13 DEF Becomes, Good, TypeOK
  <2>2. next.pc = "answer"
    BY <1>1, <1>3, <2>1 DEF NotLookedUp, RequestRecords
  <2>3. next # Idle
    BY <2>2 DEF Idle
  <2>4. view'[t] # "stale" => view'[t] = "partial" /\ view[t] # "stale" /\ late' = {}
    <3>1. view[t] # "stale" => view[t] # "reading"
      BY <1>7, <1>13 DEF Fits, LoadView
    <3>2. QED
      BY <1>7, <1>8, <1>9, <1>13, <3>1 DEF Good, TypeOK, Views
  <2>5. view'[t] # "stale" => Fits(t, next)'
    BY <2>2, <2>4 DEF Fits, AddView, ChangeView, RemoveView, OrderView, LoadView
  <2>6. QED
    BY <1>1, <1>2, <1>4, <1>9, <1>13, <2>3, <2>4, <2>5, ViewStays
<1>14. CASE ReadCart(r)
  <2>1. UNCHANGED <<services, late>> /\ (ReadAnswered(r) \/ ReadFailed(r))
    BY <1>14, ReadCases DEF Good
  <2>2. CASE ReadAnswered(r)
    BY <1>2, <1>3, <1>11, <1>14, <2>1, <2>2 DEF ReadAnswered
  <2>3. CASE ReadFailed(r)
    BY <1>3, <1>10, <1>14, <2>3 DEF ReadFailed
  <2>4. QED
    BY <2>1, <2>2, <2>3
<1>15. CASE LookUpItems(r)
  BY <1>3, <1>12, <1>13, <1>15, LookUpCases DEF Good
<1>16. CASE Cut(r)
  BY <1>3, <1>13, <1>16 DEF Cut, GoesWith, NotLookedUp
<1>17. QED
  BY <1>14, <1>15, <1>16

LEMMA AnswersKeepViews ==
  ASSUME Good, RowsInv, ViewInv, NEW r \in Requests, Answers(r)
  PROVE  ViewInv'
<1>1. /\ GoesOn(r) /\ request[r] \in RequestRecords
      /\ Becomes(r, Idle) \/ Becomes(r, [request[r] EXCEPT !.pc = "load"])
      /\ UNCHANGED <<services, late>>
  BY AnswerGoesOn, GoingIsGood DEF Good
<1>2. PICK t \in Tabs : t = request[r].tab
  BY <1>1, GoingIsGood
<1>3. PICK q : q = request[r]
  OBVIOUS
<1>4. PICK next \in {Idle} \union RequestRecords :
        Becomes(r, next) /\ (next # Idle => next.tab = request[r].tab)
  BY <1>1 DEF GoesOn
<1>5. next = request'[r] /\ rows' = rows
  BY <1>1, <1>4, BecomesStays DEF Good, services
<1>6. next # Idle => next.pc = "load"
  BY <1>1, <1>3, <1>5 DEF Becomes, Good, TypeOK, RequestRecords
<1>7. view[t] # "stale" => late' = {} /\ Fits(t, q)
  BY <1>1, <1>2, <1>3 DEF ViewInv, HasItsView, GoesOn
<1>8. ASSUME \A u \in Tabs \ {t} : view'[u] # "stale" => view[u] # "stale",
             view'[t] # "stale" =>
               /\ view[t] # "stale"
               /\ view'[t] # "reading"
               /\ next = Idle => Shows(t)'
      PROVE  ViewInv'
  <2>1. view'[t] # "stale" /\ next # Idle => Fits(t, next)'
    BY <1>6, <1>8 DEF Fits, AddView, ChangeView, RemoveView, OrderView, LoadView
  <2>2. QED
    BY <1>1, <1>2, <1>4, <1>7, <1>8, <2>1, ViewStays
<1>9. view[t] # "stale" /\ q.pc # "loaded" => view[t] # "reading"
  BY <1>7 DEF Fits, LoadView
<1>10. Becomes(r, [q EXCEPT !.pc = "load"]) => next # Idle
  <2>1. [q EXCEPT !.pc = "load"].pc = "load"
    BY <1>1, <1>3 DEF RequestRecords
  <2>2. QED
    BY <1>5, <2>1 DEF Becomes, Good, TypeOK, Idle
<1>11. CASE AddAnswered(r)
  <2>1. /\ q.call = "add" /\ q.pc = "written" /\ UNCHANGED view
        /\ next = Idle => q.result = "error" /\ UNCHANGED shown
    <3>1. q.result \in {"ok", "error"}
      BY <1>1, <1>3 DEF RequestRecords
    <3>2. QED
      BY <1>3, <1>10, <1>11, <3>1 DEF AddAnswered, At, Reload, Goes
  <2>2. view[t] # "stale" /\ next = Idle => Shows(t)
    BY <1>7, <2>1 DEF Fits, AddView
  <2>3. view[t] # "stale" /\ next = Idle => Shows(t)'
    BY <1>5, <2>1, <2>2 DEF Shows, OneLineEach
  <2>4. QED
    BY <1>8, <1>9, <2>1, <2>3
<1>12. CASE ChangeAnswered(r)
  <2>1. /\ q.call = "change" /\ q.pc = "written" /\ UNCHANGED <<view, shown>>
        /\ next = Idle => q.result = "ok"
    BY <1>3, <1>10, <1>12 DEF ChangeAnswered, At, Reload, Goes
  <2>2. view[t] # "stale" /\ next = Idle => Shows(t)
    BY <1>7, <2>1 DEF Fits, ChangeView
  <2>3. view[t] # "stale" /\ next = Idle => Shows(t)'
    BY <1>5, <2>1, <2>2 DEF Shows, OneLineEach
  <2>4. QED
    BY <1>8, <1>9, <2>1, <2>3
<1>13. CASE RemoveAnswered(r)
  <2>1. /\ q.call = "remove" /\ q.pc = "written" /\ UNCHANGED view
        /\ next = Idle =>
             q.result = "ok" /\ shown' = [shown EXCEPT ![t] = Left(t, q)]
    BY <1>2, <1>3, <1>10, <1>13 DEF RemoveAnswered, At, Reload, Goes, Left
  <2>2. next = Idle => shown'[t] = Left(t, q)
    BY <2>1 DEF Good, TypeOK
  <2>3. view[t] # "stale" /\ next = Idle =>
          /\ OneLineEach(Left(t, q))
          /\ view[t] = "exact" => Left(t, q) = rows
          /\ view[t] = "partial" => Left(t, q) \subseteq rows
    BY <1>7, <2>1 DEF Fits, RemoveView, OneLineEach, Left
  <2>4. view[t] # "stale" /\ next = Idle => Shows(t)'
    BY <1>5, <2>1, <2>2, <2>3 DEF Shows, OneLineEach
  <2>5. QED
    BY <1>8, <1>9, <2>1, <2>4
<1>14. CASE ShowCart(r)
  <2>1. /\ q.pc = "loaded"
        /\ shown'[t] = q.items
        /\ view'[t] = IF view[t] = "reading" THEN "exact" ELSE view[t]
        /\ \A u \in Tabs \ {t} : view'[u] = view[u]
    BY <1>2, <1>3, <1>14 DEF ShowCart, Good, TypeOK
  <2>2. view[t] # "stale" =>
          /\ view[t] # "exact"
          /\ view[t] = "reading" => OneLineEach(rows) /\ q.items = rows
          /\ view[t] = "partial" => q.items = {}
    BY <1>7, <2>1 DEF Fits, LoadView
  <2>3. view[t] # "stale" => Shows(t)'
    BY <1>5, <2>1, <2>2 DEF Shows, OneLineEach, Good, TypeOK, Views
  <2>4. QED
    BY <1>8, <2>1, <2>3
<1>15. CASE OrderAnswered(r)
  <2>1. CASE q.result = "ok"
    <3>1. q.pc = "answer" /\ UNCHANGED view /\ Becomes(r, [q EXCEPT !.pc = "load"])
      BY <1>3, <1>15, <2>1 DEF OrderAnswered, At, Reload, Goes
    <3>2. QED
      BY <1>8, <1>9, <1>10, <3>1
  <2>2. CASE q.result # "ok"
    <3>1. /\ q.pc = "answer" /\ UNCHANGED shown
          /\ view'[t] = IF view[t] = "exact" THEN view[t] ELSE "stale"
          /\ \A u \in Tabs \ {t} : view'[u] = view[u]
      BY <1>2, <1>3, <1>15, <2>2 DEF OrderAnswered, At, Good, TypeOK
    <3>2. q.result = "error"
      BY <1>1, <1>3, <2>2 DEF RequestRecords
    <3>3. view[t] = "exact" => Shows(t)
      BY <1>7, <3>1, <3>2 DEF Fits, OrderView
    <3>4. view[t] = "exact" => Shows(t)'
      BY <1>5, <3>1, <3>3 DEF Shows, OneLineEach
    <3>5. QED
      BY <1>8, <3>1, <3>4
  <2>3. QED
    BY <2>1, <2>2
<1>16. QED
  BY <1>11, <1>12, <1>13, <1>14, <1>15 DEF Answers

\* A click of tab t leaves no other tab a view, and t only one that it has with no
\* request at work.
LEMMA BeginsView ==
  ASSUME Good, ViewInv, NEW r \in Requests, NEW t \in Tabs, NEW q, Begins(r, t, q),
         view[t] # "stale" /\ view[t] # "reading" /\ Shows(t) /\ view'[t] = view[t] =>
           Fits(t, q)'
  PROVE  ViewInv'
<1>1. /\ request'[r] = q /\ \A s \in Requests : s # r => request'[s] = request[s]
      /\ q \in RequestRecords /\ q # Idle /\ q.tab = t /\ late' = late
      /\ view' = [u \in Tabs |-> IF u = t /\ OthersIdle(r) /\ late = {} THEN view[u] ELSE "stale"]
  BY BecomesStays, IdleIsApart DEF Begins, Disturb, Undisturbed, Good
<1>2. ASSUME view'[t] # "stale"
      PROVE  HasItsView(t)'
  <2>1. OthersIdle(r) /\ late = {} /\ view'[t] = view[t] /\ view[t] # "stale"
    BY <1>1, <1>2
  <2>2. \A s \in Requests : ~Active(s)
    BY <2>1 DEF OthersIdle, Active, Begins
  <2>3. view[t] # "reading" /\ Shows(t)
    BY <2>1, <2>2 DEF ViewInv, HasItsView
  <2>4. Fits(t, q)'
    BY <2>1, <2>3
  <2>5. \A s \in Requests : Active(s)' => s = r
    BY <1>1, <2>2 DEF Active
  <2>6. \A s \in Requests : Active(s)' => Fits(t, request[s])'
    <3>1. ASSUME NEW s \in Requests, Active(s)'
          PROVE  Fits(t, request[s])'
      BY <1>1, <2>4, <2>5, <3>1
         DEF Fits, AddView, ChangeView, RemoveView, OrderView, LoadView, Shows, Left, Updated
    <3>2. QED
      BY <3>1
  <2>7. QED
    BY <1>1, <2>1, <2>5, <2>6 DEF HasItsView, Active
<1>3. QED
  BY <1>1, <1>2 DEF ViewInv

LEMMA ChangeClicked ==
  ASSUME Good, RowsInv, ViewInv, NEW r \in Requests, NEW t \in Tabs, NEW s \in Sneakers,
         NEW step \in {1, -1}, Change(r, t, s, step)
  PROVE  ViewInv'
<1>1. PICK line \in Found(t, s) :
        /\ line.quantity + step \in Quantities
        /\ Begins(r, t, ChangeRequest(t, line, line.quantity + step))
        /\ ShowQuantity(t, s, line.quantity + step)
  BY ChangeBegins DEF Good
<1>2. PICK quantity : quantity = line.quantity + step
  OBVIOUS
<1>3. PICK q : q = ChangeRequest(t, line, quantity)
  OBVIOUS
<1>4. /\ q.call = "change" /\ q.pc = "write" /\ q.send.id = line.id
      /\ q.send.quantity = quantity
  BY <1>3 DEF ChangeRequest, Asked, UpdateCartItemQuantity
<1> DEFINE To(l) == IF l.sneaker = s THEN [l EXCEPT !.quantity = quantity] ELSE l
<1>5. shown'[t] = {To(l) : l \in shown[t]} /\ rows' = rows
  BY <1>1, <1>2 DEF ShowQuantity, Begins, services, Good, TypeOK
<1>6. line \in shown[t] /\ line.sneaker = s
  BY SavedIds DEF Good
<1>7. ASSUME Shows(t), view'[t] = view[t], view[t] # "reading", view[t] # "stale"
      PROVE  Fits(t, q)'
  <2>1. \A l \in shown[t] : To(l).sneaker = l.sneaker
    BY DEF Good, TypeOK, Lines
  <2>2. OneLineEach(shown'[t])
    <3> HIDE DEF To
    <3>1. QED
      BY <1>5, <1>7, <2>1 DEF Shows, OneLineEach
  <2>3. ASSUME NEW l \in shown[t], l \in rows, line \in rows
        PROVE  l.sneaker = s <=> l.id = line.id
    BY <1>6, <1>7, <2>3 DEF Shows, OneLineEach, RowsInv
  <2>4. Updated(q)' = {IF row.id = line.id THEN [row EXCEPT !.quantity = quantity] ELSE row : row \in rows}
    BY <1>4, <1>5 DEF Updated
  <2>5. shown[t] \subseteq rows => shown'[t] \subseteq Updated(q)'
    BY <1>5, <1>6, <2>3, <2>4
  <2>6. shown[t] = rows => Updated(q)' \subseteq shown'[t]
    BY <1>5, <1>6, <2>3, <2>4
  <2>7. ChangeView(t, q)'
    BY <1>4, <1>7, <2>2, <2>5, <2>6 DEF ChangeView, Shows, OneLineEach
  <2>8. QED
    BY <1>4, <1>7, <2>7 DEF Fits, AddView, RemoveView, OrderView, LoadView
<1>8. Begins(r, t, q)
  BY <1>1, <1>2, <1>3
<1>9. QED
  BY <1>7, <1>8, BeginsView

LEMMA RemoveClicked ==
  ASSUME Good, RowsInv, ViewInv, NEW r \in Requests, NEW t \in Tabs, NEW s \in Sneakers,
         Remove(r, t, s)
  PROVE  ViewInv'
<1>1. PICK line \in Found(t, s) : Begins(r, t, RemoveRequest(t, line))
  BY RemoveBegins DEF Good
<1>2. PICK q : q = RemoveRequest(t, line)
  OBVIOUS
<1>3. q.call = "remove" /\ q.pc = "write" /\ q.send.id = line.id /\ q.items = {line}
  BY <1>2 DEF RemoveRequest, Asked, RemoveFromCart
<1>4. rows' = rows /\ shown' = shown /\ line \in shown[t]
  BY <1>1, SavedIds DEF Begins, services, Remove, Good
<1>5. ASSUME Shows(t), view'[t] = view[t], view[t] # "reading", view[t] # "stale"
      PROVE  Fits(t, q)'
  <2>1. shown[t] \subseteq rows => shown[t] \ {line} \subseteq {row \in rows : row.id # line.id}
    BY <1>4 DEF RowsInv
  <2>2. RemoveView(t, q)'
    BY <1>3, <1>4, <1>5, <2>1 DEF RemoveView, Shows, OneLineEach
  <2>3. QED
    BY <1>3, <1>5, <2>2 DEF Fits, AddView, ChangeView, OrderView, LoadView
<1>6. QED
  BY <1>1, <1>2, <1>5, BeginsView

LEMMA ClickKeepsViews ==
  ASSUME Good, RowsInv, ViewInv, NEW r \in Requests, NEW t \in Tabs, Click(r, t)
  PROVE  ViewInv'
<1>1. CASE Open(r, t)
  <2>1. PICK q : q = OpenRequest(t)
    OBVIOUS
  <2>2. q.call = "open" /\ q.pc = "load"
    BY <2>1 DEF OpenRequest, Asked
  <2>3. view[t] # "reading" /\ view'[t] = view[t] => Fits(t, q)'
    BY <2>2 DEF Fits, AddView, ChangeView, RemoveView, OrderView, LoadView
  <2>4. QED
    BY <1>1, <2>1, <2>3, OpenBegins, BeginsView DEF Good
<1>2. ASSUME NEW s \in Sneakers, Add(r, t, s)
      PROVE  ViewInv'
  <2>1. PICK q : q = AddRequest(t, s)
    OBVIOUS
  <2>2. q.call = "add" /\ q.pc = "write"
    BY <2>1 DEF AddRequest, Asked
  <2>3. Begins(r, t, q) /\ shown' = shown
    BY <1>2, <2>1, AddBegins DEF Add, Good
  <2>4. rows' = rows
    BY <2>3 DEF Begins, services
  <2>5. Shows(t) /\ view[t] # "reading" /\ view'[t] = view[t] => Fits(t, q)'
    BY <2>2, <2>3, <2>4
       DEF Fits, AddView, ChangeView, RemoveView, OrderView, LoadView, Shows, OneLineEach
  <2>6. QED
    BY <2>3, <2>5, BeginsView
<1>3. CASE PressOrder(r, t)
  <2>1. PICK q : q = OrderRequest(t)
    OBVIOUS
  <2>2. q.call = "checkout" /\ q.pc = "lookup" /\ q.items = shown[t]
    BY <2>1 DEF OrderRequest, Asked
  <2>3. Begins(r, t, q) /\ shown' = shown
    BY <1>3, <2>1, OrderBegins DEF PressOrder, Good
  <2>4. rows' = rows
    BY <2>3 DEF Begins, services
  <2>5. Shows(t) /\ view[t] # "reading" /\ view'[t] = view[t] => Fits(t, q)'
    BY <2>2, <2>3, <2>4
       DEF Fits, AddView, ChangeView, RemoveView, OrderView, LoadView, Shows, OneLineEach
  <2>6. QED
    BY <2>3, <2>5, BeginsView
<1>4. QED
  BY <1>1, <1>2, <1>3, ChangeClicked, RemoveClicked DEF Click

LEMMA ViewStep ==
  ASSUME Good, RowsInv, CopyInv, ViewInv, [Next]_vars
  PROVE  ViewInv'
<1>1. ASSUME NEW q \in late, TakeEffect(q)
      PROVE  ViewInv'
  <2>1. view' = view
    BY <1>1 DEF TakeEffect
  <2>2. \A u \in Tabs : view[u] = "stale"
    BY DEF ViewInv, HasItsView
  <2>3. QED
    BY <2>1, <2>2 DEF ViewInv
<1>2. ASSUME UNCHANGED <<services, shown, view, request, late>>
      PROVE  ViewInv'
  BY <1>2 DEF services, ViewInv, HasItsView, Fits, AddView, ChangeView, RemoveView, OrderView,
              LoadView, Shows, OneLineEach, Left, Updated, Active
<1>3. ASSUME NEW t \in Tabs, NEW s \in Sneakers, ClickUnsaved(t, s)
      PROVE  ViewInv'
  BY <1>2, <1>3 DEF ClickUnsaved
<1>4. CASE UNCHANGED vars
  BY <1>2, <1>4 DEF vars, tabs
<1>5. QED
  BY <1>1, <1>3, <1>4, ClickKeepsViews, SendKeepsViews, ReadKeepsViews, AnswersKeepViews
     DEF Next, Step, Sends, Answers

\* Whatever is known of a tab's view: the part of the argument that both theorems
\* about it share.
LEMMA ViewsAreTrue == Spec => [](Good /\ RowsInv /\ CopyInv /\ ViewInv)
<1>1. Init => Good /\ RowsInv /\ CopyInv /\ ViewInv
  BY InitIsGood DEF Init, RowsInv, CopyInv, ViewInv, HasItsView, Active, Shows, OneLineEach
<1>2. Good /\ RowsInv /\ CopyInv /\ ViewInv /\ [Next]_vars => (Good /\ RowsInv /\ CopyInv /\ ViewInv)'
  BY GoodStep, RowsStep, CopyStep, ViewStep
<1>3. QED
  BY <1>1, <1>2, PTL DEF Spec

\* A tab that has had the cart to itself shows it when it has no request in progress:
\* all of it, or after an error nothing that is not in it (CartContext shows changes
\* before they are made, loads the cart when they fail, and gets the hash that the
\* changes were made in); but not once it was loaded from a hash that had expired, or
\* that a failed, given up or overlapping call may have left behind the rows.
THEOREM TabsShowTheCart == Spec => []TabShowsCart
<1>1. ViewInv => TabShowsCart
  BY DEF ViewInv, HasItsView, TabShowsCart, Shows, Active
<1>2. QED
  BY <1>1, ViewsAreTrue, PTL

\* A tab that has the cart to itself, had no errors and did not load it from an exposed
\* hash loses nothing that it has not ordered when the cart is emptied (CreateOrder of
\* the gateway clears all of the cart, whatever the order is of).
THEOREM OnlyTheOrderedIsCleared == Spec => []OnlyOrderedIsCleared
<1>1. Good /\ ViewInv => OnlyOrderedIsCleared
  <2>1. ASSUME Good, ViewInv, NEW r \in Requests,
               At(r, "checkout", "clear"), view[request[r].tab] = "exact"
        PROVE  rows \subseteq request[r].items
    <3>1. Active(r) /\ request[r].tab \in Tabs
      BY <2>1, AtWork DEF At, Active, Good, RequestRecords
    <3>2. Fits(request[r].tab, request[r])
      BY <2>1, <3>1 DEF ViewInv, HasItsView
    <3>3. QED
      BY <2>1, <3>2 DEF Fits, OrderView, Shows, At
  <2>2. QED
    BY <2>1 DEF OnlyOrderedIsCleared
<1>2. QED
  BY <1>1, ViewsAreTrue, PTL
=============================================================================
