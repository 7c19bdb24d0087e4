-------------------------- MODULE PaymentLifecycle --------------------------
(***************************************************************************)
(* What the order service promises about an order and its payment, with    *)
(* every operation atomic: no requests, no faults, no restarts. An order   *)
(* follows its status machine and is paid, or has failed, only as its      *)
(* payment row says; the row follows its own machine and says only what    *)
(* the provider decided. OrderPayments implements it.                      *)
(***************************************************************************)
EXTENDS OrderModels

CONSTANTS
  Orders,     \* the orders that may be placed
  RpcTargets  \* the statuses that are set from outside the payment flow

VARIABLES
  orders,     \* each order's status, "none" before it is placed
  payments,   \* the status of its payment row, "none" before it is saved
  provider    \* the status of its payment at the provider, "none" before it exists

vars == <<orders, payments, provider>>

Init ==
  /\ orders = [o \in Orders |-> "none"]
  /\ payments = [o \in Orders |-> "none"]
  /\ provider = [o \in Orders |-> "none"]

Place(o) ==
  /\ orders[o] = "none"
  /\ orders' = [orders EXCEPT ![o] = "PENDING_PAYMENT"]
  /\ UNCHANGED <<payments, provider>>

\* The provider opens a payment, for a placed order only and once.
Open(o) ==
  /\ orders[o] # "none"
  /\ provider[o] = "none"
  /\ provider' = [provider EXCEPT ![o] = "pending"]
  /\ UNCHANGED <<orders, payments>>

\* The payment row is saved, for an existing payment only and once.
Record(o) ==
  /\ provider[o] # "none"
  /\ payments[o] = "none"
  /\ payments' = [payments EXCEPT ![o] = "pending"]
  /\ UNCHANGED <<orders, provider>>

\* The provider decides.
Decide(o, status) ==
  /\ provider[o] = "pending"
  /\ provider' = [provider EXCEPT ![o] = status]
  /\ UNCHANGED <<orders, payments>>

\* The payment row takes over the provider's decision.
Settle(o) ==
  /\ ValidPaymentTransition(payments[o], provider[o])
  /\ payments' = [payments EXCEPT ![o] = provider[o]]
  /\ UNCHANGED <<orders, provider>>

\* The order takes over its payment's outcome or is moved by an operator.
Move(o, status) ==
  /\ ValidTransition(orders[o], status)
  /\ \/ payments[o] \in FinalStatuses /\ status = OrderStatusFor(payments[o])
     \/ status \in RpcTargets
  /\ orders' = [orders EXCEPT ![o] = status]
  /\ UNCHANGED <<payments, provider>>

Next ==
  \E o \in Orders :
    \/ Place(o)
    \/ Open(o)
    \/ Record(o)
    \/ \E status \in FinalStatuses : Decide(o, status)
    \/ Settle(o)
    \/ \E status \in OrderStatuses : Move(o, status)

Spec == Init /\ [][Next]_vars
=============================================================================
