----------------------------- MODULE OrderModels -----------------------------
(***************************************************************************)
(* The status machines of order_service/internal/models: which statuses an *)
(* order and a payment have, and which changes of them the code allows.    *)
(* The string "none" stands for a row that is not in its table yet.        *)
(***************************************************************************)

OrderStatuses ==
  {"PENDING_PAYMENT", "PAID", "CANCELLED", "SHIPPED", "PAYMENT_FAILED"}

PaymentStatuses == {"pending", "succeeded", "canceled"}

\* The statuses a payment ends in, the only ones the provider notifies of.
FinalStatuses == {"succeeded", "canceled"}

validTransitions ==
  {<<"PENDING_PAYMENT", "PAID">>,
   <<"PENDING_PAYMENT", "PAYMENT_FAILED">>,
   <<"PENDING_PAYMENT", "CANCELLED">>,
   <<"PAID", "SHIPPED">>,
   <<"PAID", "CANCELLED">>,
   <<"PAYMENT_FAILED", "PENDING_PAYMENT">>,
   <<"PAYMENT_FAILED", "CANCELLED">>}

ValidTransition(from, to) == <<from, to>> \in validTransitions

\* Mutant: pending may not be canceled.
OnlySucceeds(from, to) == from = "pending" /\ to = "succeeded"

ValidPaymentTransition(from, to) == from = "pending" /\ to \in FinalStatuses

\* Mutant: the payment's status is stored as the order's.
SameStatus(status) == status

\* Mutant: anything that is not pending counts as paid.
PaidUnlessPending(status) ==
  IF status = "pending" THEN "PENDING_PAYMENT" ELSE "PAID"

\* The order status ProcessWebhook derives from the payment status it stored.
OrderStatusFor(status) ==
  IF status = "succeeded" THEN "PAID" ELSE "PAYMENT_FAILED"

=============================================================================
