------------------------------- MODULE Purchases -------------------------------
(***************************************************************************)
(* What checking out promises about each click on the order button, with   *)
(* no tries, no tabs and no faults: an order before a confirmation, and an *)
(* order before the cart is emptied. A click that was answered with an     *)
(* error promises nothing: its order may exist, or come to exist.          *)
(***************************************************************************)

CONSTANT Clicks  \* the clicks on the order button

VARIABLES
  ordered,  \* the clicks that have left an order
  emptied,  \* the clicks for which the cart was emptied
  told      \* what the customer was told about each click

vars == <<ordered, emptied, told>>

Answers == {"nothing", "confirmed", "failed"}

TypeOK ==
  /\ ordered \subseteq Clicks
  /\ emptied \subseteq Clicks
  /\ told \in [Clicks -> Answers]

Init ==
  /\ ordered = {}
  /\ emptied = {}
  /\ told = [n \in Clicks |-> "nothing"]

Order(n) ==
  /\ n \notin ordered
  /\ ordered' = ordered \union {n}
  /\ UNCHANGED <<emptied, told>>

Empty(n) ==
  /\ n \in ordered \ emptied
  /\ emptied' = emptied \union {n}
  /\ UNCHANGED <<ordered, told>>

Confirm(n) ==
  /\ n \in ordered
  /\ told[n] = "nothing"
  /\ told' = [told EXCEPT ![n] = "confirmed"]
  /\ UNCHANGED <<ordered, emptied>>

Fail(n) ==
  /\ told[n] = "nothing"
  /\ told' = [told EXCEPT ![n] = "failed"]
  /\ UNCHANGED <<ordered, emptied>>

Next == \E n \in Clicks : Order(n) \/ Empty(n) \/ Confirm(n) \/ Fail(n)

Spec == Init /\ [][Next]_vars

\* The cart is emptied, and the customer told so, only for an order that exists.
EmptiedForOrders ==
  emptied \subseteq ordered /\ \A n \in Clicks : told[n] = "confirmed" => n \in ordered
=============================================================================
