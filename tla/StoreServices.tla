---------------------------- MODULE StoreServices ----------------------------
(***************************************************************************)
(* The cart and order services as the gateway sees them, for one user: the *)
(* rows of cart_items, their copy in Redis and the orders placed, each     *)
(* call one step. The commands of a call and how calls overlap in the cart *)
(* service are CartCache: here, what they may leave of the copy. What      *)
(* comes after the order has been inserted is OrderPayments.               *)
(***************************************************************************)
EXTENDS Integers, FiniteSets

CONSTANTS
  Sneakers,     \* ids of products
  MaxQuantity,  \* bound on the quantities that are asked for
  OrderLimit,   \* the quantity of an item that the order service accepts (100)
  MaxRows,      \* bound on the rows ever inserted
  Clicks        \* numbers of the clicks that calls are made for

ASSUME StoreAssumption ==
  /\ MaxQuantity \in Nat \ {0}
  /\ OrderLimit \in Nat
  /\ MaxRows \in Nat
  /\ Clicks \subseteq Nat \ {0}

VARIABLES
  rows,    \* the user's rows in cart_items
  issued,  \* how many rows have been inserted; ids are never reused
  orders,  \* how many orders each click has left
  emptied, \* the clicks for which the cart was emptied
  cached,  \* the lines of the user's hash in Redis; there is no hash without a line
  exposed  \* history: whether the hash may be something else than the rows

services == <<rows, issued, orders, emptied>>
redis == <<cached, exposed>>

Quantities == 1..MaxQuantity

Rows == [id : 1..MaxRows, sneaker : Sneakers, quantity : Quantities]

\* What a tab shows and an order asks for. The line of an item that has been
\* added and not been loaded has no id of a row: minus the number of its click.
Lines == [id : 1..MaxRows \union {-n : n \in Clicks}, sneaker : Sneakers,
          quantity : Quantities]

IsSaved(line) == line.id > 0

-----------------------------------------------------------------------------
(* The calls, as the gateway's clients make them for click n.              *)

AddToCart(n, s) == [name |-> "AddToCart", click |-> n, sneaker |-> s, quantity |-> 1]

UpdateCartItemQuantity(n, i, quantity) ==
  [name |-> "UpdateCartItemQuantity", click |-> n, id |-> i, quantity |-> quantity]

RemoveFromCart(n, i) == [name |-> "RemoveFromCart", click |-> n, id |-> i]

ClearCart(n) == [name |-> "ClearCart", click |-> n]

CreateOrder(n, lines) == [name |-> "CreateOrder", click |-> n, items |-> lines]

CartCalls ==
  [name : {"AddToCart"}, click : Clicks, sneaker : Sneakers, quantity : Quantities]
  \union [name : {"UpdateCartItemQuantity"}, click : Clicks, id : 1..MaxRows,
          quantity : Quantities]
  \union [name : {"RemoveFromCart"}, click : Clicks, id : 1..MaxRows]
  \union [name : {"ClearCart"}, click : Clicks]

OrderCalls == [name : {"CreateOrder"}, click : Clicks, items : SUBSET Lines]

-----------------------------------------------------------------------------
(* What the services do with a call they accept.                           *)

\* A new row, also for a sneaker that has one.
AddItem(c) ==
  /\ c.name = "AddToCart"
  /\ rows' = rows \union {[id |-> issued + 1, sneaker |-> c.sneaker,
                           quantity |-> c.quantity]}
  /\ issued' = issued + 1
  /\ UNCHANGED <<orders, emptied>>

UpdateItem(c) ==
  /\ c.name = "UpdateCartItemQuantity"
  /\ rows' = {IF row.id = c.id THEN [row EXCEPT !.quantity = c.quantity] ELSE row :
                row \in rows}
  /\ UNCHANGED <<issued, orders, emptied>>

RemoveItem(c) ==
  /\ c.name = "RemoveFromCart"
  /\ rows' = {row \in rows : row.id # c.id}
  /\ UNCHANGED <<issued, orders, emptied>>

EmptyCart(c) ==
  /\ c.name = "ClearCart"
  /\ rows' = {}
  /\ emptied' = emptied \union {c.click}
  /\ UNCHANGED <<issued, orders>>

\* The order is inserted; it may stay without a payment.
PlaceOrder(c) ==
  /\ c.name = "CreateOrder"
  /\ orders' = [orders EXCEPT ![c.click] = @ + 1]
  /\ UNCHANGED <<rows, issued, emptied>>

Serve(c) ==
  AddItem(c) \/ UpdateItem(c) \/ RemoveItem(c) \/ EmptyCart(c) \/ PlaceOrder(c)

\* A row that is gone, a quantity that is out of range, and, for the model, a row
\* too many.
Refuses(c) ==
  \/ c.name = "AddToCart" /\ issued = MaxRows
  \/ /\ c.name \in {"UpdateCartItemQuantity", "RemoveFromCart"}
     /\ \A row \in rows : row.id # c.id
  \/ c.name = "CreateOrder" /\ \E line \in c.items : line.quantity > OrderLimit

-----------------------------------------------------------------------------
(* The hash in Redis.                                                      *)

\* Mutant: HDEL is left out.
HDelForgotten(i) == cached

HDel(i) == {line \in cached : line.id # i}

HSet(i, quantity) ==
  {IF line.id = i THEN [line EXCEPT !.quantity = quantity] ELSE line : line \in cached}

\* The hash after the commands of c: a new row is set, in a hash of its own when
\* there was none; an update rewrites a line that is there, or else deletes the hash.
Copy(c) ==
  CASE c.name = "AddToCart" -> cached \union (rows' \ rows)
    [] c.name = "UpdateCartItemQuantity" ->
         IF \E line \in cached : line.id = c.id THEN HSet(c.id, c.quantity) ELSE {}
    [] c.name = "RemoveFromCart" -> HDel(c.id)
    [] OTHER -> {}

\* The service does what c asks for. The hash may be left as it was, or in part, when
\* its 24 hours end, Redis fails a command (which is only logged), or the call is
\* disturbed.
Serves(c, undisturbed) ==
  /\ Serve(c)
  /\ \/ c.name = "CreateOrder" /\ UNCHANGED redis
     \/ /\ c.name # "CreateOrder"
        /\ undisturbed
        /\ cached' = Copy(c)
        /\ exposed' = (exposed /\ c.name # "ClearCart")
     \/ /\ c.name # "CreateOrder"
        /\ cached' \in {cached} \union SUBSET Copy(c)
        /\ exposed' = TRUE

\* GetCart finds the hash.
HitsCopy == cached # {} /\ UNCHANGED redis

\* GetCart finds none, or none any more, and sets it to the rows.
FillsCopy == cached' = rows /\ exposed' = FALSE

\* A command of GetCart fails, a try of it is given up, or another call comes between:
\* the hash is left as it was, or is set in part.
FillsPartly == cached' \in {cached} \union SUBSET rows /\ exposed' = TRUE
=============================================================================
