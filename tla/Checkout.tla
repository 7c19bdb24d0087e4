------------------------------- MODULE Checkout -------------------------------
(***************************************************************************)
(* A customer's browser tabs, the gateway's cart and order handlers, and   *)
(* the cart and order services behind them: what a tab shows of the cart,  *)
(* and how a click on the order button becomes an order and an empty cart. *)
(*                                                                         *)
(* A request is the click of a tab with everything it does until the tab   *)
(* has its answer. Clicks of one tab overlap as well: the cart's buttons   *)
(* are not disabled while an answer is awaited.                            *)
(***************************************************************************)
EXTENDS GatewayCalls, StoreServices

CONSTANT Tabs  \* tabs of the customer's browser

Operations == {"open", "add", "change", "remove", "checkout"}

\* The calls of a request that may fail, one name each.
Steps == {"write", "load", "lookup", "order", "clear"}

ASSUME CallAssumption ==
  /\ Calls \subseteq Operations
  /\ MaxCalls \in Nat
  /\ Clicks = 1..MaxCalls
ASSUME FaultAssumption ==
  /\ Failing \subseteq Steps
  /\ Losing \subseteq Steps
  /\ TimingOut \subseteq Steps
  /\ MaxFaults \in Nat

VARIABLES
  shown,     \* the lines of the cart that each tab shows
  loading,   \* isLoading of each tab's CartContext
  creating,  \* isCreatingOrder of each tab's Drawer
  told,      \* what the customer was told about each click on the order button
  view       \* history: what is known of a tab's view of the cart

tabs == <<shown, loading, creating, told>>
vars == <<services, redis, tabs, view, request, calls, faults, late>>

RequestSteps == {"write", "written", "load", "loaded", "lookup", "order", "clear", "answer"}

RequestRecords ==
  [call : Operations, tab : Tabs, click : Clicks, pc : RequestSteps, tries : 1..Tries,
   send : {Idle} \union CartCalls \union OrderCalls, items : SUBSET Lines,
   result : {"ok", "error"}]

\* The history of a tab's view: it shows the cart, it shows part of it after a
\* call has failed, it is loading the cart with nobody else around, or others
\* may have changed the cart since, or it was loaded from an exposed hash.
Views == {"exact", "partial", "reading", "stale"}

TypeOK ==
  /\ rows \subseteq Rows
  /\ issued \in 0..MaxRows
  /\ orders \in [Clicks -> Nat]
  /\ emptied \subseteq Clicks
  /\ cached \subseteq Rows
  /\ exposed \in BOOLEAN
  /\ shown \in [Tabs -> SUBSET Lines]
  /\ loading \in [Tabs -> BOOLEAN]
  /\ creating \in [Tabs -> BOOLEAN]
  /\ told \in [Clicks -> {"nothing", "confirmed", "failed"}]
  /\ view \in [Tabs -> Views]
  /\ request \in [Requests -> {Idle} \union RequestRecords]
  /\ late \subseteq RequestRecords
  /\ calls \in 0..MaxCalls
  /\ faults \in 0..MaxFaults

Init ==
  /\ rows = {}
  /\ issued = 0
  /\ orders = [n \in Clicks |-> 0]
  /\ emptied = {}
  /\ cached = {}
  /\ exposed = FALSE
  /\ shown = [t \in Tabs |-> {}]
  /\ loading = [t \in Tabs |-> FALSE]
  /\ creating = [t \in Tabs |-> FALSE]
  /\ told = [n \in Clicks |-> "nothing"]
  /\ view = [t \in Tabs |-> "exact"]
  /\ request = [r \in Requests |-> Idle]
  /\ calls = 0
  /\ faults = 0
  /\ late = {}

-----------------------------------------------------------------------------
(* The history of the tabs' views.                                         *)

OthersIdle(r) == \A s \in Requests \ {r} : request[s] = Idle

OneRowEach == \A row1, row2 \in rows : row1.sneaker = row2.sneaker => row1 = row2

\* No call of another request can come between those of r.
Undisturbed(r) == OthersIdle(r) /\ late = {}

\* Nobody but r is at work on a cart with one row for each sneaker.
Alone(r) == Undisturbed(r) /\ OneRowEach

\* A request of tab t starts.
Disturb(r, t) ==
  view' = [u \in Tabs |-> IF u = t /\ Undisturbed(r) THEN view[u] ELSE "stale"]

\* A call of r ends, with a fault or without.
Watch ==
  view' = [u \in Tabs |-> IF late' # late THEN "stale"
                          ELSE IF faults' # faults /\ view[u] = "exact" THEN "partial"
                          ELSE view[u]]

-----------------------------------------------------------------------------
(* CartContext and Drawer: the clicks. A click is done with the lines that *)
(* the tab shows when it is made.                                          *)

Waits(t) == loading' = [loading EXCEPT ![t] = TRUE]
Waited(t) == loading' = [loading EXCEPT ![t] = FALSE]

LinesOf(t, s) == {line \in shown[t] : line.sneaker = s}

\* cartItems.find: the loaded lines come before those that were only added.
Found(t, s) ==
  LET saved == {line \in LinesOf(t, s) : IsSaved(line)}
  IN IF saved # {} THEN saved ELSE LinesOf(t, s)

ShowQuantity(t, s, quantity) ==
  shown' = [shown EXCEPT ![t] =
              {IF line.sneaker = s THEN [line EXCEPT !.quantity = quantity] ELSE line :
                 line \in @}]

\* The click of tab t that becomes request r, which first comes to pc.
Clicked(r, op, t, pc, send, items) ==
  /\ Starts(r, op)
  /\ IsNext(r)
  /\ Becomes(r, [call |-> op, tab |-> t, click |-> calls + 1, pc |-> pc, tries |-> 1,
                 send |-> send, items |-> items, result |-> "ok"])
  /\ Disturb(r, t)
  /\ UNCHANGED <<services, redis, told, faults, late>>

\* The page is loaded: no request of the tab is in progress.
Open(r, t) ==
  /\ \A s \in Requests : request[s] # Idle => request[s].tab # t
  /\ Clicked(r, "open", t, "load", Idle, {})
  /\ shown' = [shown EXCEPT ![t] = {}]
  /\ Waits(t)
  /\ creating' = [creating EXCEPT ![t] = FALSE]

\* addToCart of an item that is not shown in the cart.
Add(r, t, s) ==
  /\ LinesOf(t, s) = {}
  /\ Clicked(r, "add", t, "write", AddToCart(calls + 1, s),
             {[id |-> -(calls + 1), sneaker |-> s, quantity |-> 1]})
  /\ Waits(t)
  /\ UNCHANGED <<shown, creating>>

\* Mutant: decreaseQuantity does not remove the item at 1.
ChangeBelowOne(r, t, s, step) ==
  \E line \in Found(t, s) :
    /\ IsSaved(line)
    /\ Clicked(r, "change", t, "write",
               UpdateCartItemQuantity(calls + 1, line.id, line.quantity + step), {})
    /\ ShowQuantity(t, s, line.quantity + step)
    /\ Waits(t)
    /\ UNCHANGED creating

\* increaseQuantity and decreaseQuantity above 1: shown before it is sent.
Change(r, t, s, step) ==
  \E line \in Found(t, s) :
    /\ IsSaved(line)
    /\ line.quantity + step \in Quantities
    /\ Clicked(r, "change", t, "write",
               UpdateCartItemQuantity(calls + 1, line.id, line.quantity + step), {})
    /\ ShowQuantity(t, s, line.quantity + step)
    /\ Waits(t)
    /\ UNCHANGED creating

\* removeFromCart, by its button or as decreaseQuantity at 1.
Remove(r, t, s) ==
  \E line \in Found(t, s) :
    /\ IsSaved(line)
    /\ Clicked(r, "remove", t, "write", RemoveFromCart(calls + 1, line.id), {line})
    /\ Waits(t)
    /\ UNCHANGED <<shown, creating>>

\* A click on a line that has no id yet only ends the waiting of the others.
ClickUnsaved(t, s) ==
  /\ \E line \in Found(t, s) : ~IsSaved(line)
  /\ Waited(t)
  /\ UNCHANGED <<services, redis, shown, creating, told, view, request, calls, faults, late>>

\* Mutant: the quantities are left out of the order.
OrderOneOfEach(r, t) ==
  /\ ~loading[t]
  /\ ~creating[t]
  /\ shown[t] # {}
  /\ Clicked(r, "checkout", t, "lookup", Idle, {[line EXCEPT !.quantity = 1] : line \in shown[t]})
  /\ creating' = [creating EXCEPT ![t] = TRUE]
  /\ UNCHANGED <<shown, loading>>

\* handleCheckout of what the tab shows.
PressOrder(r, t) ==
  /\ ~loading[t]
  /\ ~creating[t]
  /\ shown[t] # {}
  /\ Clicked(r, "checkout", t, "lookup", Idle, shown[t])
  /\ creating' = [creating EXCEPT ![t] = TRUE]
  /\ UNCHANGED <<shown, loading>>

-----------------------------------------------------------------------------
(* The gateway: the cart's routes and CreateOrder of /orders.               *)

\* r goes on to pc.
GoesWith(r, pc, result) ==
  Becomes(r, [request[r] EXCEPT !.pc = pc, !.result = result, !.tries = 1])

\* r goes on to the call `send`, as step pc.
GoesTo(r, pc, send) ==
  Becomes(r, [request[r] EXCEPT !.pc = pc, !.tries = 1, !.send = send])

\* A try of the call that r has to make.
Send(r, Then(_)) ==
  /\ IF Refuses(request[r].send)
     THEN UNCHANGED <<services, redis, faults, late>> /\ Then("error")
     ELSE Try(r, request[r].pc, Serves(request[r].send, Undisturbed(r) /\ faults' = faults),
              UNCHANGED <<services, redis>>, Then)
  /\ Watch
  /\ UNCHANGED <<tabs, calls>>

\* The cart's routes: AddToCart, UpdateCartItemQuantity and RemoveFromCart.
PostItem(r) ==
  /\ At(r, "add", "write")
  /\ Send(r, LAMBDA result : GoesWith(r, "written", result))

PutQuantity(r) ==
  /\ At(r, "change", "write")
  /\ Send(r, LAMBDA result : GoesWith(r, "written", result))

DeleteItem(r) ==
  /\ At(r, "remove", "write")
  /\ Send(r, LAMBDA result : GoesWith(r, "written", result))

\* r comes to its answer: what was read is shown when it arrives.
Loads(r, result, answer) ==
  Becomes(r, [request[r] EXCEPT !.pc = "loaded", !.result = result, !.items = answer])

\* GetCart: the hash, or the rows when there is none, or what another try has left.
ReadCart(r) ==
  /\ request[r].pc = "load"
  /\ UNCHANGED <<services, tabs, calls, late>>
  /\ Read("load", LAMBDA result :
       IF result = "error"
       THEN Loads(r, "error", {}) /\ (UNCHANGED redis \/ FillsPartly) /\ Watch
       ELSE /\ \/ HitsCopy /\ Loads(r, "ok", cached)
               \/ FillsCopy /\ Undisturbed(r) /\ Loads(r, "ok", rows)
               \/ FillsPartly /\ (Loads(r, "ok", rows) \/ Loads(r, "ok", cached'))
            /\ view' = [view EXCEPT ![request[r].tab] =
                           IF Alone(r) /\ ~exposed' THEN "reading" ELSE "stale"])

\* GetSneakersByIDs: the prices of the items, which must all be known.
LookUpItems(r) ==
  /\ request[r].pc = "lookup"
  /\ UNCHANGED <<services, redis, tabs, calls, late>>
  /\ Read("lookup", LAMBDA result :
       IF result = "error" THEN GoesWith(r, "answer", "error")
       ELSE GoesTo(r, "order", CreateOrder(request[r].click, request[r].items)))
  /\ Watch

\* Mutant: the cart is cleared whether or not there is an order.
OrderAndClear(r) ==
  /\ request[r].pc = "order"
  /\ Send(r, LAMBDA result : GoesTo(r, "clear", ClearCart(request[r].click)))

CallCreateOrder(r) ==
  /\ request[r].pc = "order"
  /\ Send(r, LAMBDA result : IF result = "error" THEN GoesWith(r, "answer", "error")
                             ELSE GoesTo(r, "clear", ClearCart(request[r].click)))

\* An error is only logged: the order is confirmed either way.
CallClearCart(r) ==
  /\ request[r].pc = "clear"
  /\ Send(r, LAMBDA result : GoesWith(r, "answer", "ok"))

\* The gateway is stopped, or the tab's connection breaks, while it creates an
\* order: the call in progress may have been done, or be done later, nothing else
\* follows, and the tab has an error.
Cut(r) ==
  /\ request[r].pc \in {"lookup", "order", "clear"}
  /\ Fault
  /\ \/ UNCHANGED <<services, redis, late>>
     \/ /\ request[r].send # Idle
        /\ ~Refuses(request[r].send)
        /\ \/ Serves(request[r].send, FALSE) /\ UNCHANGED late
           \/ UNCHANGED <<services, redis>> /\ late' = late \union {request[r]}
  /\ GoesWith(r, "answer", "error")
  /\ Watch
  /\ UNCHANGED <<tabs, calls>>

\* A try that was given up takes effect after all, or is refused.
TakeEffect(q) ==
  /\ q \in late
  /\ late' = late \ {q}
  /\ IF Refuses(q.send) THEN UNCHANGED <<services, redis>> ELSE Serves(q.send, FALSE)
  /\ UNCHANGED <<tabs, view, request, calls, faults>>

-----------------------------------------------------------------------------
(* CartContext and Drawer: the answers.                                    *)

\* The answer is dealt with: fetchCart, or the end of the request.
Reload(r) == Goes(r, "load") /\ Waits(request[r].tab)
Finish(r) == Return(r) /\ Waited(request[r].tab)

\* Mutant: the catch of increaseQuantity does not load the cart again.
ChangeKept(r) ==
  /\ At(r, "change", "written")
  /\ Finish(r)
  /\ UNCHANGED <<services, redis, shown, creating, told, view, calls, faults, late>>

\* increaseQuantity and decreaseQuantity: an error loads the cart again.
ChangeAnswered(r) ==
  /\ At(r, "change", "written")
  /\ IF request[r].result = "ok" THEN Finish(r) ELSE Reload(r)
  /\ UNCHANGED <<services, redis, shown, creating, told, view, calls, faults, late>>

\* addToCart: the line is shown, and the cart loaded for its id. An error leaves
\* the lines as they are.
AddAnswered(r) ==
  LET q == request[r]
  IN /\ At(r, "add", "written")
     /\ IF q.result = "ok"
        THEN shown' = [shown EXCEPT ![q.tab] = @ \union q.items] /\ Reload(r)
        ELSE UNCHANGED shown /\ Finish(r)
     /\ UNCHANGED <<services, redis, creating, told, view, calls, faults, late>>

\* removeFromCart: all lines of the sneaker go, an error loads the cart again.
RemoveAnswered(r) ==
  LET q == request[r]
  IN /\ At(r, "remove", "written")
     /\ IF q.result = "ok"
        THEN /\ shown' = [shown EXCEPT ![q.tab] =
                             {line \in @ : \A item \in q.items :
                                              line.sneaker # item.sneaker}]
             /\ Finish(r)
        ELSE UNCHANGED shown /\ Reload(r)
     /\ UNCHANGED <<services, redis, creating, told, view, calls, faults, late>>

\* fetchCart: what was read, or an empty cart after an error. It ends the waiting,
\* and the creation of an order that it followed.
ShowCart(r) ==
  LET q == request[r]
  IN /\ q.pc = "loaded"
     /\ shown' = [shown EXCEPT ![q.tab] = q.items]
     /\ view' = [view EXCEPT ![q.tab] = IF @ = "reading" THEN "exact" ELSE @]
     /\ creating' = [creating EXCEPT ![q.tab] = @ /\ q.call # "checkout"]
     /\ Finish(r)
     /\ UNCHANGED <<services, redis, told, calls, faults, late>>

\* Mutant: the button is enabled again only after a success.
FailSilently(r) ==
  LET q == request[r]
  IN /\ At(r, "checkout", "answer")
     /\ IF q.result = "ok"
        THEN Reload(r) /\ told' = [told EXCEPT ![q.click] = "confirmed"]
        ELSE /\ Return(r)
             /\ told' = [told EXCEPT ![q.click] = "failed"]
             /\ UNCHANGED loading
     /\ UNCHANGED <<services, redis, shown, creating, view, calls, faults, late>>

\* handleCheckout: a confirmed order is followed by refreshCart, an error by a
\* message only, although the cart may have been emptied before the answer was lost.
OrderAnswered(r) ==
  LET q == request[r]
  IN /\ At(r, "checkout", "answer")
     /\ IF q.result = "ok"
        THEN /\ Reload(r)
             /\ told' = [told EXCEPT ![q.click] = "confirmed"]
             /\ UNCHANGED <<creating, view>>
        ELSE /\ Return(r)
             /\ told' = [told EXCEPT ![q.click] = "failed"]
             /\ creating' = [creating EXCEPT ![q.tab] = FALSE]
             /\ view' = [view EXCEPT ![q.tab] = IF @ = "exact" THEN @ ELSE "stale"]
             /\ UNCHANGED loading
     /\ UNCHANGED <<services, redis, shown, calls, faults, late>>

-----------------------------------------------------------------------------
Click(r, t) ==
  \/ Open(r, t)
  \/ \E s \in Sneakers :
       Add(r, t, s) \/ Change(r, t, s, 1) \/ Change(r, t, s, -1) \/ Remove(r, t, s)
  \/ PressOrder(r, t)

Step(r) ==
  \/ PostItem(r) \/ PutQuantity(r) \/ DeleteItem(r) \/ ReadCart(r)
  \/ LookUpItems(r) \/ CallCreateOrder(r) \/ CallClearCart(r)
  \/ AddAnswered(r) \/ ChangeAnswered(r) \/ RemoveAnswered(r) \/ ShowCart(r) \/ OrderAnswered(r)

Next ==
  \/ \E r \in Requests, t \in Tabs : Click(r, t)
  \/ \E t \in Tabs, s \in Sneakers : ClickUnsaved(t, s)
  \/ \E r \in Requests : Step(r) \/ Cut(r)
  \/ \E q \in late : TakeEffect(q)

Spec == Init /\ [][Next]_vars

\* A request runs on: calls have deadlines and tries an end. Nobody has to click.
FairSpec == Spec /\ \A r \in Requests : WF_vars(Step(r))

Promise == INSTANCE Purchases WITH ordered <- {n \in Clicks : orders[n] > 0}

-----------------------------------------------------------------------------
(* What must hold.                                                         *)

\* A click leaves one order, and one more for every try of CreateOrder that was
\* given up, but never more than the client tries (the order service cannot tell
\* a try from a new order).
AnOrderPerTry == \A n \in Clicks : orders[n] <= Tries /\ orders[n] <= 1 + faults

\* The customer is told of an order, and the cart emptied for it, only when the
\* order exists, whatever tries are given up, done late or cut off (CreateOrder of
\* the gateway, order/handler.go).
ImplementsPurchases == Promise!Spec

\* A tab that has had the cart to itself shows it when it has no request in
\* progress: all of it, or after an error nothing that is not in it (CartContext
\* shows changes before they are made, loads the cart when they fail, and gets the
\* hash that the changes were made in). It is not promised once the cart was loaded
\* from an exposed hash: one that had expired before an item was added, for example,
\* holds that item alone, and the tab shows it as the whole cart.
TabShowsCart ==
  \A t \in Tabs :
    (\A r \in Requests : request[r] # Idle => request[r].tab # t) =>
      /\ view[t] = "exact" => shown[t] = rows
      /\ view[t] = "partial" => shown[t] \subseteq rows

\* A tab that has the cart to itself, had no errors and did not load it from an
\* exposed hash loses nothing that it has not ordered when the cart is emptied
\* (ClearCart empties all of it, whatever the tab was shown).
OnlyOrderedIsCleared ==
  \A r \in Requests :
    At(r, "checkout", "clear") /\ view[request[r].tab] = "exact" =>
      rows \subseteq request[r].items

\* The order button always comes back: a click is answered, with a confirmation and
\* the cart loaded or with an error.
OrderButtonReturns == \A t \in Tabs : []<>~creating[t]
=============================================================================
