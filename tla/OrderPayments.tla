---------------------------- MODULE OrderPayments ----------------------------
(***************************************************************************)
(* The order service: CreateOrder, the YooKassa webhook, the manual status *)
(* update and the UpdateOrderStatus RPC, each a sequence of separately     *)
(* committed database, provider and Kafka calls that interleave with every *)
(* other request and may fail, or be cut off by a restart, in between.     *)
(*                                                                         *)
(* An order, its payment row and the provider's payment share one name: a  *)
(* CreateOrder call inserts one order and asks the provider for at most    *)
(* one payment, and both unique columns of payments are keyed by it.       *)
(***************************************************************************)
EXTENDS OrderModels, Faults, Sequences

CONSTANTS
  Orders,        \* the orders CreateOrder is called for
  Requests,      \* request goroutines: webhooks, manual updates and RPCs
  AdminReports,  \* what the manual update reports: "nothing" without ADMIN_API_KEY,
                 \* the provider's "decision", or "anything"
  RpcTargets,    \* the statuses internal callers ask UpdateOrderStatus for
  Crashes        \* may the process be restarted?

\* The calls a request makes, one step each.
Steps == {"insert", "charge", "record", "link", "announce",
          "readPayment", "settle", "readOrder", "cas", "publish"}

ASSUME AdminAssumption == AdminReports \in {"nothing", "decision", "anything"}
ASSUME RpcAssumption == RpcTargets \subseteq OrderStatuses
ASSUME FaultAssumption ==
  /\ Failing \subseteq Steps
  /\ Losing \subseteq Steps
  /\ Crashes \in BOOLEAN
  /\ MaxFaults \in Nat

VARIABLES
  orders,    \* orders.status of each order, "none" before its row exists
  linked,    \* is orders.payment_url set?
  payments,  \* payments.status of each order's payment row, or "none"
  provider,  \* the payment's status at YooKassa, "none" before it exists
  acked,     \* has YooKassa had a 200 for its notification of the outcome?
  creating,  \* where the order's CreateOrder call is
  answered,  \* did CreateOrder's caller get the confirmation URL?
  request,   \* what each request goroutine is doing
  topic      \* the Kafka events published about each order, oldest first

store == <<orders, linked, payments>>
vars == <<store, provider, acked, creating, answered, request, topic, faults>>

Event == [type : {"OrderCreated", "OrderPaymentUpdated"}, status : OrderStatuses]

CreateStates == {"idle", "inserted", "charged", "recorded", "announcing", "done"}

Idle == [pc |-> "idle"]

\* A webhook or manual update that carries a payment status.
PaymentRequest ==
  [pc : {"settle", "readOrder", "cas", "publish"}, kind : {"webhook", "manual"},
   order : Orders, status : FinalStatuses, target : OrderStatuses,
   seen : OrderStatuses \union {"none"}]

\* An UpdateOrderStatus call.
RpcRequest ==
  [pc : {"readOrder", "cas"}, kind : {"rpc"}, order : Orders,
   target : OrderStatuses, seen : OrderStatuses \union {"none"}]

RequestStates == {Idle} \union PaymentRequest \union RpcRequest

TypeOK ==
  /\ orders \in [Orders -> OrderStatuses \union {"none"}]
  /\ linked \in [Orders -> BOOLEAN]
  /\ payments \in [Orders -> PaymentStatuses \union {"none"}]
  /\ provider \in [Orders -> PaymentStatuses \union {"none"}]
  /\ acked \in [Orders -> BOOLEAN]
  /\ creating \in [Orders -> CreateStates]
  /\ answered \in [Orders -> BOOLEAN]
  /\ request \in [Requests -> RequestStates]
  /\ topic \in [Orders -> Seq(Event)]
  /\ faults \in 0..MaxFaults

Init ==
  /\ orders = [o \in Orders |-> "none"]
  /\ linked = [o \in Orders |-> FALSE]
  /\ payments = [o \in Orders |-> "none"]
  /\ provider = [o \in Orders |-> "none"]
  /\ acked = [o \in Orders |-> FALSE]
  /\ creating = [o \in Orders |-> "idle"]
  /\ answered = [o \in Orders |-> FALSE]
  /\ request = [r \in Requests |-> Idle]
  /\ topic = [o \in Orders |-> <<>>]
  /\ faults = 0

-----------------------------------------------------------------------------
Publish(o, type, status) ==
  topic' = [topic EXCEPT ![o] = Append(@, [type |-> type, status |-> status])]

-----------------------------------------------------------------------------
(* CreateOrder.                                                            *)

\* repo.Create: the order and its items in one transaction, read back after
\* the commit. An error of either ends the call.
InsertOrder(o) ==
  /\ creating[o] = "idle"
  /\ \E result \in Results :
       /\ Ends("insert", result)
       /\ orders' = IF result = "error" THEN orders
                    ELSE [orders EXCEPT ![o] = "PENDING_PAYMENT"]
       /\ creating' = [creating EXCEPT
                         ![o] = IF result = "ok" THEN "inserted" ELSE "done"]
  /\ UNCHANGED <<linked, payments, provider, acked, answered, request, topic>>

\* provider.CreatePayment. An error ends the call with the order as it is: no
\* payment row, no URL, no event.
ChargeOrder(o) ==
  /\ creating[o] = "inserted"
  /\ \E result \in Results :
       /\ Ends("charge", result)
       /\ provider' = IF result = "error" THEN provider
                      ELSE [provider EXCEPT ![o] = "pending"]
       /\ creating' = [creating EXCEPT
                         ![o] = IF result = "ok" THEN "charged" ELSE "done"]
  /\ UNCHANGED <<store, acked, answered, request, topic>>

\* paymentRepo.Create. An error is logged and the call goes on.
RecordPayment(o) ==
  /\ creating[o] = "charged"
  /\ \E result \in Results :
       /\ Ends("record", result)
       /\ payments' = IF result = "error" THEN payments
                      ELSE [payments EXCEPT ![o] = "pending"]
  /\ creating' = [creating EXCEPT ![o] = "recorded"]
  /\ UNCHANGED <<orders, linked, provider, acked, answered, request, topic>>

\* repo.UpdatePaymentURL. An error is logged and the call goes on.
LinkPayment(o) ==
  /\ creating[o] = "recorded"
  /\ \E result \in Results :
       /\ Ends("link", result)
       /\ linked' = [linked EXCEPT ![o] = (result # "error")]
  /\ creating' = [creating EXCEPT ![o] = "announcing"]
  /\ UNCHANGED <<orders, payments, provider, acked, answered, request, topic>>

\* publishEvent and the reply. An error of the event is logged and the caller
\* still gets the URL; "lost" is the event published and the reply undelivered.
AnnounceOrder(o) ==
  /\ creating[o] = "announcing"
  /\ \E result \in Results :
       /\ Ends("announce", result)
       /\ IF result = "error" THEN UNCHANGED topic
          ELSE Publish(o, "OrderCreated", "PENDING_PAYMENT")
       /\ answered' = [answered EXCEPT ![o] = (result # "lost")]
  /\ creating' = [creating EXCEPT ![o] = "done"]
  /\ UNCHANGED <<store, provider, acked, request>>

-----------------------------------------------------------------------------
(* YooKassa: the customer pays at the confirmation URL, or the payment is  *)
(* abandoned; either way its outcome is final and is notified until a 200. *)

Pay(o) ==
  /\ provider[o] = "pending"
  /\ linked[o] \/ answered[o]
  /\ provider' = [provider EXCEPT ![o] = "succeeded"]
  /\ UNCHANGED <<store, acked, creating, answered, request, topic, faults>>

Abandon(o) ==
  /\ provider[o] = "pending"
  /\ provider' = [provider EXCEPT ![o] = "canceled"]
  /\ UNCHANGED <<store, acked, creating, answered, request, topic, faults>>

-----------------------------------------------------------------------------
(* ProcessWebhook and UpdateOrderStatus, run by request r.                 *)

\* Mutant: HandleWebhook answers 200 whatever ProcessWebhook returned.
ReplyAlways200(r, kind, o, success) ==
  /\ request' = [request EXCEPT ![r] = Idle]
  /\ acked' = IF kind = "webhook" THEN [acked EXCEPT ![o] = TRUE] ELSE acked

\* The reply to r, with a 200 when `success`. A 200 to a webhook is what stops
\* the provider from sending it again.
Reply(r, kind, o, success) ==
  /\ request' = [request EXCEPT ![r] = Idle]
  /\ acked' = IF kind = "webhook" /\ success THEN [acked EXCEPT ![o] = TRUE]
              ELSE acked

\* r goes on to its next step.
Continue(r, next) ==
  /\ request' = [request EXCEPT ![r] = next]
  /\ UNCHANGED acked

\* HandleWebhook or ManualStatusUpdate accept the request, and ProcessWebhook
\* reads the payment row: no row is an error, a row that may not move to the
\* reported status is a 200 without a change.
ReadPayment(r, kind, o, status) ==
  /\ request[r].pc = "idle"
  /\ \E result \in {"ok", "error"} :
       /\ Ends("readPayment", result)
       /\ IF result = "error" \/ payments[o] = "none"
          THEN Reply(r, kind, o, FALSE)
          ELSE IF ~ValidPaymentTransition(payments[o], status)
          THEN Reply(r, kind, o, TRUE)
          ELSE Continue(r, [pc |-> "settle", kind |-> kind, order |-> o,
                            status |-> status, target |-> OrderStatusFor(status),
                            seen |-> "none"])
  /\ UNCHANGED <<store, provider, creating, answered, topic>>

\* Mutant: the webhook's event is taken for a success, its status is not read.
DeliverAsSuccess(r, o) ==
  /\ provider[o] \in FinalStatuses
  /\ ~acked[o]
  /\ ReadPayment(r, "webhook", o, "succeeded")

\* The provider notifies of the payment's outcome until it gets a 200; a late
\* repetition may overtake the request that will be answered with the 200.
DeliverWebhook(r, o) ==
  /\ provider[o] \in FinalStatuses
  /\ ~acked[o]
  /\ ReadPayment(r, "webhook", o, provider[o])

\* An administrator reports a status of a payment of the provider. The service
\* does not ask the provider for it; that it is the decision is up to them.
ManualStatusUpdate(r, o, status) ==
  /\ AdminReports # "nothing"
  /\ AdminReports = "decision" => status = provider[o]
  /\ provider[o] # "none"
  /\ ReadPayment(r, "manual", o, status)

\* Mutant: the UPDATE without `AND status != $1`.
PaymentRowExists(o, status) == payments[o] # "none"

\* The WHERE clause of UpdateStatusAndGet.
PaymentRowMoves(o, status) == payments[o] \notin {"none", status}

\* paymentRepo.UpdateStatusAndGet: the row moves unless it has the status
\* already, whatever status ReadPayment saw. No row moved is a 200.
UpdateStatusAndGet(r) ==
  LET q == request[r]
      moves == PaymentRowMoves(q.order, q.status)
  IN /\ q.pc = "settle"
     /\ \E result \in Results :
          /\ Ends("settle", result)
          /\ payments' = IF result = "error" \/ ~moves THEN payments
                         ELSE [payments EXCEPT ![q.order] = q.status]
          /\ IF result # "ok" THEN Reply(r, q.kind, q.order, FALSE)
             ELSE IF ~moves THEN Reply(r, q.kind, q.order, TRUE)
             ELSE Continue(r, [q EXCEPT !.pc = "readOrder"])
     /\ UNCHANGED <<orders, linked, provider, creating, answered, topic>>

\* The UpdateOrderStatus RPC: the handler and the check of IsValidStatus.
CallUpdateOrderStatus(r, o, target) ==
  /\ request[r].pc = "idle"
  /\ orders[o] # "none"
  /\ Continue(r, [pc |-> "readOrder", kind |-> "rpc", order |-> o,
                  target |-> target, seen |-> "none"])
  /\ UNCHANGED <<store, provider, creating, answered, topic, faults>>

\* Mutant: ProcessWebhook logs the error of UpdateOrderStatus and publishes.
LogAndPublish(r) ==
  LET q == request[r]
  IN IF q.kind = "rpc" THEN Reply(r, q.kind, q.order, FALSE)
     ELSE Continue(r, [q EXCEPT !.pc = "publish"])

\* An error of UpdateOrderStatus ends the request with an error.
Refuse(r) == Reply(r, request[r].kind, request[r].order, FALSE)

\* UpdateOrderStatus reads the order and checks the transition.
ReadOrder(r) ==
  LET q == request[r]
      seen == orders[q.order]
  IN /\ q.pc = "readOrder"
     /\ \E result \in {"ok", "error"} :
          /\ Ends("readOrder", result)
          /\ IF result = "error" \/ ~ValidTransition(seen, q.target)
             THEN Refuse(r)
             ELSE Continue(r, [q EXCEPT !.pc = "cas", !.seen = seen])
     /\ UNCHANGED <<store, provider, creating, answered, topic>>

\* Mutant: the UPDATE without `AND status = $4`.
OrderRowExists(o, expected) == orders[o] # "none"

\* The WHERE clause of UpdateStatus.
OrderRowMoves(o, expected) == orders[o] = expected

\* repo.UpdateStatus: the row moves only from the status that was read. An
\* error, also of no row moved, ends the request with an error.
UpdateStatus(r) ==
  LET q == request[r]
      moves == OrderRowMoves(q.order, q.seen)
  IN /\ q.pc = "cas"
     /\ \E result \in Results :
          /\ Ends("cas", result)
          /\ orders' = IF result = "error" \/ ~moves THEN orders
                       ELSE [orders EXCEPT ![q.order] = q.target]
          /\ IF result # "ok" \/ ~moves THEN Refuse(r)
             ELSE IF q.kind = "rpc" THEN Reply(r, q.kind, q.order, TRUE)
             ELSE Continue(r, [q EXCEPT !.pc = "publish"])
     /\ UNCHANGED <<linked, payments, provider, creating, answered, topic>>

\* publishEvent and the 200. An error of the event is only logged; "lost" is
\* the event published and the 200 undelivered.
PublishPaymentUpdate(r) ==
  LET q == request[r]
  IN /\ q.pc = "publish"
     /\ \E result \in Results :
          /\ Ends("publish", result)
          /\ IF result = "error" THEN UNCHANGED topic
             ELSE Publish(q.order, "OrderPaymentUpdated", q.target)
          /\ Reply(r, q.kind, q.order, result # "lost")
     /\ UNCHANGED <<store, provider, creating, answered>>

-----------------------------------------------------------------------------
(* A restart ends every call in progress; only the store survives it.      *)

Restart ==
  /\ Crashes
  /\ Fault
  /\ creating' = [o \in Orders |-> IF creating[o] = "idle" THEN "idle" ELSE "done"]
  /\ request' = [r \in Requests |-> Idle]
  /\ UNCHANGED <<store, provider, acked, answered, topic>>

Create(o) ==
  InsertOrder(o) \/ ChargeOrder(o) \/ RecordPayment(o) \/ LinkPayment(o) \/ AnnounceOrder(o)

Process(r) ==
  UpdateStatusAndGet(r) \/ ReadOrder(r) \/ UpdateStatus(r) \/ PublishPaymentUpdate(r)

Next ==
  \/ \E o \in Orders : Create(o) \/ Pay(o) \/ Abandon(o)
  \/ \E r \in Requests : Process(r)
  \/ \E r \in Requests, o \in Orders : DeliverWebhook(r, o)
  \/ \E r \in Requests, o \in Orders, status \in FinalStatuses :
       ManualStatusUpdate(r, o, status)
  \/ \E r \in Requests, o \in Orders, target \in RpcTargets :
       CallUpdateOrderStatus(r, o, target)
  \/ Restart

Spec == Init /\ [][Next]_vars

\* A started call runs on, and the provider repeats a notification until it is
\* answered with a 200; the server starts a goroutine per request, so one that
\* arrives does not wait for others (strong fairness: Requests is a bound of the
\* model). Nobody has to order, pay, administer or fail.
Fairness ==
  /\ \A o \in Orders : WF_vars(Create(o) /\ creating[o] # "idle")
  /\ \A r \in Requests : WF_vars(Process(r))
  /\ \A o \in Orders : SF_vars(\E r \in Requests : DeliverWebhook(r, o))

FairSpec == Spec /\ Fairness

\* The lifecycle is seen in three of the variables: the rows and the provider.
\* What requests hold, the events and the replies are not part of it.
Lifecycle == INSTANCE PaymentLifecycle
  WITH orders <- orders, payments <- payments, provider <- provider

-----------------------------------------------------------------------------
(* What must hold.                                                         *)

Shippable == {"PAID", "SHIPPED"}

\* Goods are only owed for money: an order is PAID or SHIPPED only when YooKassa
\* captured its payment, however webhooks, RPCs, faults and restarts interleave.
\* For an installation whose administrators report what YooKassa decided, if
\* anything, and without callers that set PAID themselves (order_service.go,
\* ProcessWebhook; models/order.go).
PaidOnlyIfCaptured ==
  \A o \in Orders : orders[o] \in Shippable => provider[o] = "succeeded"

\* The payment row never tells a story of its own: it is pending or it is what
\* YooKassa decided, also when late and repeated webhooks are in progress.
PaymentMirrorsProvider ==
  \A o \in Orders : payments[o] \in FinalStatuses => payments[o] = provider[o]

\* Concurrent webhooks, manual updates and RPCs never take an order along an
\* edge that models/order.go does not have, although each decided on a status it
\* read earlier (repo.UpdateStatus compares and sets).
OrderFollowsTransitions ==
  [][\A o \in Orders : \/ orders[o] = "none"
                       \/ orders'[o] = orders[o]
                       \/ ValidTransition(orders[o], orders'[o])]_orders

PaymentUpdates(o) ==
  {i \in DOMAIN topic[o] : topic[o][i].type = "OrderPaymentUpdated"}

\* Consumers see at most one payment update per order, however often YooKassa
\* repeats its webhook (UpdateStatusAndGet returns the row to one of them).
OnePaymentUpdate ==
  \A o \in Orders : \A i, j \in PaymentUpdates(o) : i = j

\* Events tell the truth: a published PAID or PAYMENT_FAILED is a payment row
\* with that outcome, and an announced PAID order is still paid, shipped or
\* cancelled (publishEvent comes after both updates).
EventsAreTrue ==
  \A o \in Orders : \A i \in PaymentUpdates(o) :
    /\ topic[o][i].status = OrderStatusFor(payments[o])
    /\ topic[o][i].status = "PAID" => orders[o] \in {"PAID", "SHIPPED", "CANCELLED"}

\* The outcomes of an order whose payment ended as `status`.
Outcomes(status) ==
  IF status = "succeeded" THEN {"PAID", "SHIPPED", "CANCELLED"}
  ELSE {"PAYMENT_FAILED", "CANCELLED"}

Quiet(o) == \A r \in Requests : request[r] = Idle \/ request[r].order # o

\* Once YooKassa has its 200, and so will not ask again, and no request for the
\* order is in progress, the order has been moved by the payment's outcome
\* ("idempotent: already processed", payment_repository.go).
AcknowledgedIsApplied ==
  \A o \in Orders : acked[o] /\ Quiet(o) => orders[o] \in Outcomes(provider[o])

\* With administrators who report only what YooKassa decided, and with callers
\* that leave payment decisions to webhooks, the service as a whole behaves as
\* PaymentLifecycle: its steps, seen through the two tables and the provider, are
\* the atomic ones of that module.
ImplementsLifecycle == Lifecycle!Spec

\* A captured payment makes its order PAID (or finds it shipped or cancelled).
CapturedIsPaid ==
  \A o \in Orders : provider[o] = "succeeded" ~> orders[o] \in Outcomes("succeeded")

\* An abandoned payment makes its order PAYMENT_FAILED (or finds it cancelled).
AbandonedIsFailed ==
  \A o \in Orders : provider[o] = "canceled" ~> orders[o] \in Outcomes("canceled")
=============================================================================
