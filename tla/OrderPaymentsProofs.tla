------------------------- MODULE OrderPaymentsProofs -------------------------
(***************************************************************************)
(* Theorems about OrderPayments, for every set of orders, any number of    *)
(* concurrent requests and any number and kind of faults. Administrators   *)
(* are called truthful when AdminReports # "anything": the manual update,  *)
(* where it is enabled, reports only what the provider decided.            *)
(***************************************************************************)
EXTENDS OrderPayments, TLAPS

-----------------------------------------------------------------------------
(* Type correctness.                                                       *)

\* What a reply and a continuation leave behind is well typed.
LEMMA ReplyType ==
  ASSUME TypeOK, NEW r \in Requests, NEW o \in Orders, NEW kind, NEW success,
         Reply(r, kind, o, success)
  PROVE  /\ request' \in [Requests -> RequestStates]
         /\ acked' \in [Orders -> BOOLEAN]
BY DEF TypeOK, Reply, RequestStates

\* A continuation keeps the types when the next record is well typed.
LEMMA ContinueType ==
  ASSUME TypeOK, NEW r \in Requests, NEW next \in RequestStates,
         Continue(r, next)
  PROVE  /\ request' \in [Requests -> RequestStates]
         /\ acked' \in [Orders -> BOOLEAN]
BY DEF TypeOK, Continue

\* How a call ends never takes the fault counter out of its range.
LEMMA EndsType ==
  ASSUME TypeOK, NEW step, NEW result, Ends(step, result)
  PROVE  faults' \in 0..MaxFaults
BY FaultAssumption DEF TypeOK, Ends, Fault

\* Publishing appends an event to one order's part of the topic.
LEMMA PublishType ==
  ASSUME TypeOK, NEW o \in Orders, NEW status \in OrderStatuses,
         NEW type \in {"OrderCreated", "OrderPaymentUpdated"},
         Publish(o, type, status)
  PROVE  topic' \in [Orders -> Seq(Event)]
<1>1. [type |-> type, status |-> status] \in Event
  BY DEF Event
<1>2. topic[o] \in Seq(Event)
  BY DEF TypeOK
<1>3. Append(topic[o], [type |-> type, status |-> status]) \in Seq(Event)
  BY <1>1, <1>2
<1>4. QED
  BY <1>3 DEF TypeOK, Publish

\* The states a request can be in, told by its pc.
LEMMA RequestKinds ==
  ASSUME TypeOK, NEW r \in Requests
  PROVE  /\ request[r].pc \in {"settle", "publish"} => request[r] \in PaymentRequest
         /\ request[r].pc \in {"readOrder", "cas"} =>
              request[r] \in PaymentRequest \union RpcRequest
<1>1. request[r] \in RequestStates
  BY DEF TypeOK
<1>2. QED
  BY <1>1 DEF RequestStates, Idle, PaymentRequest, RpcRequest

\* Reading the payment row keeps the types.
LEMMA ReadPaymentType ==
  ASSUME TypeOK, NEW r \in Requests, NEW kind \in {"webhook", "manual"},
         NEW o \in Orders, NEW status \in FinalStatuses,
         ReadPayment(r, kind, o, status)
  PROVE  TypeOK'
<1> DEFINE next == [pc |-> "settle", kind |-> kind, order |-> o,
                    status |-> status, target |-> OrderStatusFor(status),
                    seen |-> "none"]
<1>1. next \in RequestStates
  BY DEF RequestStates, PaymentRequest, OrderStatusFor, OrderStatuses
<1>2. faults' \in 0..MaxFaults
  BY EndsType DEF ReadPayment
<1>3. /\ request' \in [Requests -> RequestStates]
      /\ acked' \in [Orders -> BOOLEAN]
  <2>1. \/ Reply(r, kind, o, FALSE)
        \/ Reply(r, kind, o, TRUE)
        \/ Continue(r, next)
    BY DEF ReadPayment
  <2>2. QED
    BY <1>1, <2>1, ReplyType, ContinueType
<1>4. QED
  BY <1>2, <1>3 DEF TypeOK, ReadPayment, store

\* Updating the payment row keeps the types.
LEMMA SettleType ==
  ASSUME TypeOK, NEW r \in Requests, UpdateStatusAndGet(r)
  PROVE  TypeOK'
<1> DEFINE q == request[r]
<1>1. q \in PaymentRequest
  BY RequestKinds DEF UpdateStatusAndGet
<1>2. q.order \in Orders /\ q.status \in FinalStatuses
  BY <1>1 DEF PaymentRequest
<1>3. faults' \in 0..MaxFaults
  BY EndsType DEF UpdateStatusAndGet
<1>4. payments' \in [Orders -> PaymentStatuses \union {"none"}]
  BY <1>2 DEF TypeOK, UpdateStatusAndGet, FinalStatuses, PaymentStatuses
<1>5. /\ request' \in [Requests -> RequestStates]
      /\ acked' \in [Orders -> BOOLEAN]
  <2>1. [q EXCEPT !.pc = "readOrder"] \in RequestStates
    BY <1>1 DEF RequestStates, PaymentRequest
  <2>2. \/ Reply(r, q.kind, q.order, FALSE)
        \/ Reply(r, q.kind, q.order, TRUE)
        \/ Continue(r, [q EXCEPT !.pc = "readOrder"])
    BY DEF UpdateStatusAndGet
  <2>3. QED
    BY <1>2, <2>1, <2>2, ReplyType, ContinueType
<1>6. QED
  BY <1>3, <1>4, <1>5 DEF TypeOK, UpdateStatusAndGet

\* A new UpdateOrderStatus call keeps the types.
LEMMA CallType ==
  ASSUME TypeOK, NEW r \in Requests, NEW o \in Orders, NEW target \in RpcTargets,
         CallUpdateOrderStatus(r, o, target)
  PROVE  TypeOK'
<1> DEFINE next == [pc |-> "readOrder", kind |-> "rpc", order |-> o,
                    target |-> target, seen |-> "none"]
<1>1. next \in RequestStates
  BY RpcAssumption DEF RequestStates, RpcRequest
<1>2. Continue(r, next)
  BY DEF CallUpdateOrderStatus
<1>3. /\ request' \in [Requests -> RequestStates]
      /\ acked' \in [Orders -> BOOLEAN]
  BY <1>1, <1>2, ContinueType
<1>4. QED
  BY <1>3 DEF TypeOK, CallUpdateOrderStatus, store

\* Reading the order keeps the types.
LEMMA ReadOrderType ==
  ASSUME TypeOK, NEW r \in Requests, ReadOrder(r)
  PROVE  TypeOK'
<1> DEFINE q == request[r]
           next == [q EXCEPT !.pc = "cas", !.seen = orders[q.order]]
<1>1. q \in PaymentRequest \union RpcRequest
  BY RequestKinds DEF ReadOrder
<1>2. q.order \in Orders
  BY <1>1 DEF PaymentRequest, RpcRequest
<1>3. orders[q.order] \in OrderStatuses \union {"none"}
  BY <1>2 DEF TypeOK
<1>4. next \in RequestStates
  <2>1. CASE q \in PaymentRequest
    BY <1>3, <2>1 DEF RequestStates, PaymentRequest
  <2>2. CASE q \in RpcRequest
    BY <1>3, <2>2 DEF RequestStates, RpcRequest
  <2>3. QED
    BY <1>1, <2>1, <2>2
<1>5. faults' \in 0..MaxFaults
  BY EndsType DEF ReadOrder
<1>6. /\ request' \in [Requests -> RequestStates]
      /\ acked' \in [Orders -> BOOLEAN]
  <2>1. Reply(r, q.kind, q.order, FALSE) \/ Continue(r, next)
    BY DEF ReadOrder, Refuse
  <2>2. QED
    BY <1>2, <1>4, <2>1, ReplyType, ContinueType
<1>7. QED
  BY <1>5, <1>6 DEF TypeOK, ReadOrder, store

\* Updating the order keeps the types.
LEMMA UpdateStatusType ==
  ASSUME TypeOK, NEW r \in Requests, UpdateStatus(r)
  PROVE  TypeOK'
<1> DEFINE q == request[r]
           next == [q EXCEPT !.pc = "publish"]
<1>1. q \in PaymentRequest \union RpcRequest
  BY RequestKinds DEF UpdateStatus
<1>2. q.order \in Orders /\ q.target \in OrderStatuses
  BY <1>1 DEF PaymentRequest, RpcRequest
<1>3. faults' \in 0..MaxFaults
  BY EndsType DEF UpdateStatus
<1>4. orders' \in [Orders -> OrderStatuses \union {"none"}]
  BY <1>2 DEF TypeOK, UpdateStatus
<1>5. /\ request' \in [Requests -> RequestStates]
      /\ acked' \in [Orders -> BOOLEAN]
  <2>1. q.kind # "rpc" => next \in RequestStates
    BY <1>1 DEF RequestStates, PaymentRequest, RpcRequest
  <2>2. \/ Reply(r, q.kind, q.order, FALSE)
        \/ Reply(r, q.kind, q.order, TRUE)
        \/ q.kind # "rpc" /\ Continue(r, next)
    BY DEF UpdateStatus, Refuse
  <2>3. QED
    BY <1>2, <2>1, <2>2, ReplyType, ContinueType
<1>6. QED
  BY <1>3, <1>4, <1>5 DEF TypeOK, UpdateStatus

\* Publishing the payment update keeps the types.
LEMMA PublishPaymentUpdateType ==
  ASSUME TypeOK, NEW r \in Requests, PublishPaymentUpdate(r)
  PROVE  TypeOK'
<1> DEFINE q == request[r]
<1>1. q \in PaymentRequest
  BY RequestKinds DEF PublishPaymentUpdate
<1>2. q.order \in Orders /\ q.target \in OrderStatuses
  BY <1>1 DEF PaymentRequest
<1>3. PICK result \in Results :
        /\ Ends("publish", result)
        /\ IF result = "error" THEN UNCHANGED topic
           ELSE Publish(q.order, "OrderPaymentUpdated", q.target)
        /\ Reply(r, q.kind, q.order, result # "lost")
  BY DEF PublishPaymentUpdate
<1>4. topic' \in [Orders -> Seq(Event)]
  <2>1. CASE UNCHANGED topic
    BY <2>1 DEF TypeOK
  <2>2. CASE Publish(q.order, "OrderPaymentUpdated", q.target)
    BY <1>2, <2>2, PublishType
  <2>3. QED
    BY <1>3, <2>1, <2>2
<1>5. /\ request' \in [Requests -> RequestStates]
      /\ acked' \in [Orders -> BOOLEAN]
  BY <1>2, <1>3, ReplyType
<1>6. faults' \in 0..MaxFaults
  BY <1>3, EndsType
<1>7. QED
  BY <1>4, <1>5, <1>6 DEF TypeOK, PublishPaymentUpdate, store

\* Every step of CreateOrder keeps the types.
LEMMA CreateType ==
  ASSUME TypeOK, NEW o \in Orders, Create(o)
  PROVE  TypeOK'
<1>1. CASE InsertOrder(o)
  BY <1>1, EndsType DEF TypeOK, InsertOrder, OrderStatuses, CreateStates
<1>2. CASE ChargeOrder(o)
  BY <1>2, EndsType DEF TypeOK, ChargeOrder, store, PaymentStatuses, CreateStates
<1>3. CASE RecordPayment(o)
  BY <1>3, EndsType DEF TypeOK, RecordPayment, PaymentStatuses, CreateStates
<1>4. CASE LinkPayment(o)
  BY <1>4, EndsType DEF TypeOK, LinkPayment, CreateStates
<1>5. CASE AnnounceOrder(o)
  <2>1. PICK result \in Results :
          /\ Ends("announce", result)
          /\ IF result = "error" THEN UNCHANGED topic
             ELSE Publish(o, "OrderCreated", "PENDING_PAYMENT")
          /\ answered' = [answered EXCEPT ![o] = (result # "lost")]
    BY <1>5 DEF AnnounceOrder
  <2>2. topic' \in [Orders -> Seq(Event)]
    <3>1. CASE UNCHANGED topic
      BY <3>1 DEF TypeOK
    <3>2. CASE Publish(o, "OrderCreated", "PENDING_PAYMENT")
      BY <3>2, PublishType DEF OrderStatuses
    <3>3. QED
      BY <2>1, <3>1, <3>2
  <2>3. faults' \in 0..MaxFaults
    BY <2>1, EndsType
  <2>4. QED
    BY <1>5, <2>1, <2>2, <2>3 DEF TypeOK, AnnounceOrder, store, CreateStates
<1>6. QED
  BY <1>1, <1>2, <1>3, <1>4, <1>5 DEF Create

\* Every step keeps the types.
LEMMA NextType ==
  ASSUME TypeOK, [Next]_vars
  PROVE  TypeOK'
<1>1. CASE UNCHANGED vars
  BY <1>1 DEF TypeOK, vars, store
<1>2. ASSUME NEW o \in Orders, Create(o)
      PROVE  TypeOK'
  BY <1>2, CreateType
<1>3. ASSUME NEW o \in Orders, Pay(o) \/ Abandon(o)
      PROVE  TypeOK'
  BY <1>3 DEF TypeOK, Pay, Abandon, store, PaymentStatuses
<1>4. ASSUME NEW r \in Requests, Process(r)
      PROVE  TypeOK'
  BY <1>4, SettleType, ReadOrderType, UpdateStatusType, PublishPaymentUpdateType
  DEF Process
<1>5. ASSUME NEW r \in Requests, NEW o \in Orders, DeliverWebhook(r, o)
      PROVE  TypeOK'
  BY <1>5, ReadPaymentType DEF DeliverWebhook
<1>6. ASSUME NEW r \in Requests, NEW o \in Orders, NEW status \in FinalStatuses,
             ManualStatusUpdate(r, o, status)
      PROVE  TypeOK'
  BY <1>6, ReadPaymentType DEF ManualStatusUpdate
<1>7. ASSUME NEW r \in Requests, NEW o \in Orders, NEW target \in RpcTargets,
             CallUpdateOrderStatus(r, o, target)
      PROVE  TypeOK'
  BY <1>7, CallType
<1>8. CASE Restart
  BY <1>8, FaultAssumption
  DEF TypeOK, Restart, Fault, store, CreateStates, RequestStates
<1>9. QED
  BY <1>1, <1>2, <1>3, <1>4, <1>5, <1>6, <1>7, <1>8 DEF Next

\* The variables keep their types: request records, event records, statuses and
\* counters, whatever requests and faults come together.
THEOREM TypeCorrect == Spec => []TypeOK
<1>1. Init => TypeOK
  BY FaultAssumption
  DEF Init, TypeOK, CreateStates, RequestStates
<1>2. TypeOK /\ [Next]_vars => TypeOK'
  BY NextType
<1>3. QED
  BY <1>1, <1>2, PTL DEF Spec

-----------------------------------------------------------------------------
(* Orders follow their status machine.                                     *)

\* An order has no row before its CreateOrder call starts, so that the insert
\* never overwrites one; and a request about to compare and set found its
\* transition valid.
TransitionInv ==
  /\ \A o \in Orders : creating[o] = "idle" => orders[o] = "none"
  /\ \A r \in Requests :
       request[r].pc = "cas" => ValidTransition(request[r].seen, request[r].target)

\* What a reply and a continuation do to the requests.
LEMMA ReplyRequests ==
  ASSUME TypeOK, NEW r \in Requests, NEW o, NEW kind, NEW success,
         Reply(r, kind, o, success)
  PROVE  /\ request'[r] = Idle
         /\ \A s \in Requests \ {r} : request'[s] = request[s]
BY DEF TypeOK, Reply

\* A continuation gives its request the next record, and others nothing.
LEMMA ContinueRequests ==
  ASSUME TypeOK, NEW r \in Requests, NEW next, Continue(r, next)
  PROVE  /\ request'[r] = next
         /\ \A s \in Requests \ {r} : request'[s] = request[s]
BY DEF TypeOK, Continue

\* An idle goroutine's record is none of the requests' records.
LEMMA IdleIsNoRequest == Idle \notin PaymentRequest \union RpcRequest
BY DEF Idle, PaymentRequest, RpcRequest

\* What each step of a request makes of the request record: an idle one, or
\* the record of the next step.
LEMMA ReadPaymentRequests ==
  ASSUME TypeOK, NEW r \in Requests, NEW kind, NEW o, NEW status,
         ReadPayment(r, kind, o, status)
  PROVE  /\ \/ request'[r] = Idle
            \/ /\ request'[r] = [pc |-> "settle", kind |-> kind, order |-> o,
                                 status |-> status,
                                 target |-> OrderStatusFor(status), seen |-> "none"]
               /\ payments[o] # "none"
               /\ ValidPaymentTransition(payments[o], status)
         /\ \A s \in Requests \ {r} : request'[s] = request[s]
<1> DEFINE next == [pc |-> "settle", kind |-> kind, order |-> o,
                    status |-> status, target |-> OrderStatusFor(status),
                    seen |-> "none"]
<1>1. \/ Reply(r, kind, o, FALSE)
      \/ Reply(r, kind, o, TRUE)
      \/ /\ Continue(r, next)
         /\ payments[o] # "none"
         /\ ValidPaymentTransition(payments[o], status)
  BY DEF ReadPayment
<1>2. QED
  BY <1>1, ReplyRequests, ContinueRequests

\* Updating the payment row ends the request or goes on with the row moved.
LEMMA SettleRequests ==
  ASSUME TypeOK, NEW r \in Requests, UpdateStatusAndGet(r)
  PROVE  /\ \/ request'[r] = Idle
            \/ /\ request'[r] = [request[r] EXCEPT !.pc = "readOrder"]
               /\ PaymentRowMoves(request[r].order, request[r].status)
               /\ payments' = [payments EXCEPT ![request[r].order] = request[r].status]
         /\ \A s \in Requests \ {r} : request'[s] = request[s]
<1> DEFINE q == request[r]
<1>1. \/ Reply(r, q.kind, q.order, FALSE)
      \/ Reply(r, q.kind, q.order, TRUE)
      \/ /\ Continue(r, [q EXCEPT !.pc = "readOrder"])
         /\ PaymentRowMoves(q.order, q.status)
         /\ payments' = [payments EXCEPT ![q.order] = q.status]
  BY DEF UpdateStatusAndGet
<1>2. QED
  BY <1>1, ReplyRequests, ContinueRequests

\* Reading the order ends the request or goes on with a valid transition.
LEMMA ReadOrderRequests ==
  ASSUME TypeOK, NEW r \in Requests, ReadOrder(r)
  PROVE  /\ \/ request'[r] = Idle
            \/ /\ request'[r] = [request[r] EXCEPT !.pc = "cas",
                                                  !.seen = orders[request[r].order]]
               /\ ValidTransition(orders[request[r].order], request[r].target)
         /\ \A s \in Requests \ {r} : request'[s] = request[s]
<1> DEFINE q == request[r]
<1>1. \/ Reply(r, q.kind, q.order, FALSE)
      \/ /\ Continue(r, [q EXCEPT !.pc = "cas", !.seen = orders[q.order]])
         /\ ValidTransition(orders[q.order], q.target)
  BY DEF ReadOrder, Refuse
<1>2. QED
  BY <1>1, ReplyRequests, ContinueRequests

\* Updating the order ends the request or goes on to publish.
LEMMA UpdateStatusRequests ==
  ASSUME TypeOK, NEW r \in Requests, UpdateStatus(r)
  PROVE  /\ \/ request'[r] = Idle
            \/ /\ request'[r] = [request[r] EXCEPT !.pc = "publish"]
               /\ request[r].kind # "rpc"
               /\ orders' = [orders EXCEPT ![request[r].order] = request[r].target]
         /\ \A s \in Requests \ {r} : request'[s] = request[s]
<1> DEFINE q == request[r]
<1>1. \/ Reply(r, q.kind, q.order, FALSE)
      \/ Reply(r, q.kind, q.order, TRUE)
      \/ /\ Continue(r, [q EXCEPT !.pc = "publish"])
         /\ q.kind # "rpc"
         /\ orders' = [orders EXCEPT ![q.order] = q.target]
  BY DEF UpdateStatus, Refuse
<1>2. QED
  BY <1>1, ReplyRequests, ContinueRequests

\* Publishing ends the request.
LEMMA PublishRequests ==
  ASSUME TypeOK, NEW r \in Requests, PublishPaymentUpdate(r)
  PROVE  /\ request'[r] = Idle
         /\ \A s \in Requests \ {r} : request'[s] = request[s]
BY ReplyRequests DEF PublishPaymentUpdate

\* A new UpdateOrderStatus call starts at reading the order.
LEMMA CallRequests ==
  ASSUME TypeOK, NEW r \in Requests, NEW o, NEW target,
         CallUpdateOrderStatus(r, o, target)
  PROVE  /\ request'[r] = [pc |-> "readOrder", kind |-> "rpc", order |-> o,
                           target |-> target, seen |-> "none"]
         /\ \A s \in Requests \ {r} : request'[s] = request[s]
BY ContinueRequests DEF CallUpdateOrderStatus

\* The steps that may change an order's row, and how.
LEMMA OrderSteps ==
  ASSUME TypeOK, TransitionInv, [Next]_vars
  PROVE  \/ UNCHANGED orders
         \/ \E o \in Orders : /\ InsertOrder(o)
                               /\ orders[o] = "none"
                               /\ orders' = [orders EXCEPT ![o] = "PENDING_PAYMENT"]
         \/ \E r \in Requests :
              /\ UpdateStatus(r)
              /\ orders' = [orders EXCEPT ![request[r].order] = request[r].target]
              /\ ValidTransition(orders[request[r].order], request[r].target)
<1>1. ASSUME NEW o \in Orders, Create(o)
      PROVE  \/ UNCHANGED orders
             \/ /\ InsertOrder(o)
                /\ orders[o] = "none"
                /\ orders' = [orders EXCEPT ![o] = "PENDING_PAYMENT"]
  BY <1>1 DEF Create, InsertOrder, ChargeOrder, RecordPayment, LinkPayment,
              AnnounceOrder, store, TransitionInv
<1>2. ASSUME NEW r \in Requests, Process(r)
      PROVE  \/ UNCHANGED orders
             \/ /\ UpdateStatus(r)
                /\ orders' = [orders EXCEPT ![request[r].order] = request[r].target]
                /\ ValidTransition(orders[request[r].order], request[r].target)
  <2>1. CASE UpdateStatus(r)
    BY <2>1 DEF UpdateStatus, OrderRowMoves, TransitionInv
  <2>2. CASE UpdateStatusAndGet(r) \/ ReadOrder(r) \/ PublishPaymentUpdate(r)
    BY <2>2 DEF UpdateStatusAndGet, ReadOrder, PublishPaymentUpdate, store
  <2>3. QED
    BY <1>2, <2>1, <2>2 DEF Process
<1>3. QED
  BY <1>1, <1>2
  DEF Next, vars, store, Pay, Abandon, DeliverWebhook, ManualStatusUpdate,
      ReadPayment, CallUpdateOrderStatus, Restart

\* Every step keeps TransitionInv.
LEMMA TransitionStep ==
  ASSUME TypeOK, TransitionInv, [Next]_vars
  PROVE  TransitionInv'
<1>1. ASSUME NEW o \in Orders, creating'[o] = "idle"
      PROVE  orders'[o] = "none"
  <2>1. creating[o] = "idle"
    BY <1>1 DEF TypeOK, Next, vars, store, Create, InsertOrder, ChargeOrder,
      RecordPayment, LinkPayment, AnnounceOrder, Pay, Abandon, Process,
      UpdateStatusAndGet, ReadOrder, UpdateStatus, PublishPaymentUpdate,
      DeliverWebhook, ManualStatusUpdate, ReadPayment, CallUpdateOrderStatus, Restart
  <2>2. orders[o] = "none"
    BY <2>1 DEF TransitionInv
  <2>3. CASE UNCHANGED orders
    BY <2>2, <2>3
  <2>4. ASSUME NEW p \in Orders, InsertOrder(p)
        PROVE  orders'[o] = "none"
    BY <1>1, <2>2, <2>4 DEF TypeOK, InsertOrder
  <2>5. ASSUME NEW r \in Requests,
               orders' = [orders EXCEPT ![request[r].order] = request[r].target],
               ValidTransition(orders[request[r].order], request[r].target)
        PROVE  orders'[o] = "none"
    BY <2>2, <2>5 DEF TypeOK, ValidTransition, validTransitions
  <2>6. QED
    BY <2>3, <2>4, <2>5, OrderSteps
<1>2. ASSUME NEW s \in Requests, request'[s].pc = "cas"
      PROVE  ValidTransition(request'[s].seen, request'[s].target)
  <2>1. CASE request'[s] = request[s]
    BY <1>2, <2>1 DEF TransitionInv
  <2>2. ASSUME request'[s] # request[s]
        PROVE  ReadOrder(s)
    <3>1. ASSUME NEW r \in Requests, NEW o \in Orders, NEW kind, NEW status,
                 ReadPayment(r, kind, o, status)
          PROVE  FALSE
      <4>1. r = s
        BY <2>2, <3>1, ReadPaymentRequests
      <4> DEFINE next == [pc |-> "settle", kind |-> kind, order |-> o,
                          status |-> status, target |-> OrderStatusFor(status),
                          seen |-> "none"]
      <4>a. request'[r] = Idle \/ request'[r] = next
        BY <3>1, ReadPaymentRequests
      <4>b. next.pc = "settle"
        OBVIOUS
      <4>2. request'[r] = Idle \/ request'[r].pc = "settle"
        BY <4>a, <4>b
      <4>3. QED
        BY <1>2, <4>1, <4>2 DEF Idle
    <3>2. ASSUME NEW r \in Requests, Process(r)
          PROVE  ReadOrder(s)
      <4>1. CASE UpdateStatusAndGet(r)
        <5>1. r = s
          BY <2>2, <4>1, SettleRequests
        <5>2. request[r] \in PaymentRequest
          BY <4>1, RequestKinds DEF UpdateStatusAndGet
        <5>3. request'[r] = Idle \/ request'[r].pc = "readOrder"
          BY <4>1, <5>2, SettleRequests DEF PaymentRequest
        <5>4. QED
          BY <1>2, <5>1, <5>3 DEF Idle
      <4>2. CASE ReadOrder(r)
        <5>1. r = s
          BY <2>2, <4>2, ReadOrderRequests
        <5>2. QED
          BY <4>2, <5>1
      <4>3. CASE UpdateStatus(r)
        <5>1. r = s
          BY <2>2, <4>3, UpdateStatusRequests
        <5>2. request[r] \in PaymentRequest \union RpcRequest
          BY <4>3, RequestKinds DEF UpdateStatus
        <5>3. request'[r] = Idle \/ request'[r].pc = "publish"
          BY <4>3, <5>2, UpdateStatusRequests DEF PaymentRequest, RpcRequest
        <5>4. QED
          BY <1>2, <5>1, <5>3 DEF Idle
      <4>4. CASE PublishPaymentUpdate(r)
        BY <1>2, <2>2, <4>4, PublishRequests DEF Idle
      <4>5. QED
        BY <3>2, <4>1, <4>2, <4>3, <4>4 DEF Process
    <3>3. ASSUME NEW r \in Requests, NEW o \in Orders, NEW target,
                 CallUpdateOrderStatus(r, o, target)
          PROVE  FALSE
      <4>1. r = s
        BY <2>2, <3>3, CallRequests
      <4> DEFINE next == [pc |-> "readOrder", kind |-> "rpc", order |-> o,
                          target |-> target, seen |-> "none"]
      <4>a. request'[r] = next
        BY <3>3, CallRequests
      <4>b. next.pc = "readOrder"
        OBVIOUS
      <4>2. request'[r].pc = "readOrder"
        BY <4>a, <4>b
      <4>3. QED
        BY <1>2, <4>1, <4>2
    <3>4. CASE Restart
      BY <1>2, <3>4 DEF Restart, Idle
    <3>5. ASSUME NEW o \in Orders, Create(o) \/ Pay(o) \/ Abandon(o)
          PROVE  FALSE
      BY <2>2, <3>5 DEF Create, InsertOrder, ChargeOrder, RecordPayment,
        LinkPayment, AnnounceOrder, Pay, Abandon
    <3>6. QED
      BY <2>2, <3>1, <3>2, <3>3, <3>4, <3>5
      DEF Next, vars, DeliverWebhook, ManualStatusUpdate
  <2>3. CASE ReadOrder(s)
    <3>1. request[s] \in PaymentRequest \union RpcRequest
      BY <2>3, RequestKinds DEF ReadOrder
    <3>2. request[s].order \in Orders
      BY <3>1 DEF PaymentRequest, RpcRequest
    <3>3. \/ request'[s] = Idle
          \/ /\ request'[s] = [request[s] EXCEPT !.pc = "cas",
                                                !.seen = orders[request[s].order]]
             /\ ValidTransition(orders[request[s].order], request[s].target)
      BY <2>3, ReadOrderRequests
    <3>4. CASE request'[s] = Idle
      BY <1>2, <3>4 DEF Idle
    <3>5. ASSUME request'[s] = [request[s] EXCEPT !.pc = "cas",
                                                !.seen = orders[request[s].order]]
          PROVE  /\ request'[s].seen = orders[request[s].order]
                 /\ request'[s].target = request[s].target
      BY <3>1, <3>5 DEF PaymentRequest, RpcRequest
    <3>6. QED
      BY <3>3, <3>4, <3>5
  <2>4. QED
    BY <2>1, <2>2, <2>3
<1>3. QED
  BY <1>1, <1>2 DEF TransitionInv

\* Whatever webhooks, manual updates, RPCs, faults and restarts come together, an
\* order moves only along the edges of models/order.go. No assumption is needed:
\* this is what comparing with the status that was read is for.
THEOREM OrdersFollowTransitions == Spec => OrderFollowsTransitions
<1>1. Init => TransitionInv
  BY DEF Init, TransitionInv, Idle
<1>2. TypeOK /\ TransitionInv /\ [Next]_vars => TransitionInv'
  BY TransitionStep
<1>3. TypeOK /\ TransitionInv /\ [Next]_vars =>
        [\A o \in Orders : \/ orders[o] = "none"
                           \/ orders'[o] = orders[o]
                           \/ ValidTransition(orders[o], orders'[o])]_orders
  <2> SUFFICES ASSUME TypeOK, TransitionInv, [Next]_vars, NEW o \in Orders
               PROVE  \/ UNCHANGED orders
                      \/ orders[o] = "none"
                      \/ orders'[o] = orders[o]
                      \/ ValidTransition(orders[o], orders'[o])
    OBVIOUS
  <2>1. QED
    BY OrderSteps DEF TypeOK
<1>4. QED
  BY <1>1, <1>2, <1>3, TypeCorrect, PTL DEF Spec, OrderFollowsTransitions

-----------------------------------------------------------------------------
(* Money: what the tables say is what the provider decided.                *)

\* How far CreateOrder has come, seen in the tables and at the provider.
CreateInv ==
  \A o \in Orders :
    /\ creating[o] = "inserted" => orders[o] # "none"
    /\ creating[o] \in {"idle", "inserted"} => provider[o] = "none"
    /\ creating[o] = "charged" => provider[o] # "none" /\ payments[o] = "none"
    /\ payments[o] # "none" => provider[o] # "none"

\* A request that holds a payment status reports the provider's
\* decision, and after its update the row holds it too. An RPC asks for a status
\* the environment asks for.
WebhookOK(r) ==
  LET q == request[r]
  IN /\ q \in PaymentRequest =>
          /\ q.target = OrderStatusFor(q.status)
          /\ provider[q.order] = q.status
          /\ payments[q.order] # "none"
          /\ q.pc # "settle" => payments[q.order] = q.status
     /\ q \in RpcRequest => q.target \in RpcTargets

WebhookInv == \A r \in Requests : WebhookOK(r)

MoneyInv == CreateInv /\ WebhookInv /\ PaymentMirrorsProvider

\* The records of the two kinds of requests do not overlap.
LEMMA KindsAreDisjoint == PaymentRequest \intersect RpcRequest = {}
BY DEF PaymentRequest, RpcRequest

\* Steps of CreateOrder touch neither a payment that a webhook reports nor a row
\* that a webhook found: those exist only after the steps that write them.
LEMMA MoneyCreate ==
  ASSUME TypeOK, TransitionInv, MoneyInv, NEW o \in Orders, Create(o)
  PROVE  MoneyInv'
<1>1. CASE InsertOrder(o)
  BY <1>1 DEF TypeOK, InsertOrder, MoneyInv, CreateInv, WebhookInv, WebhookOK,
              PaymentMirrorsProvider, TransitionInv
<1>2. CASE ChargeOrder(o)
  <2>1. provider[o] = "none" /\ payments[o] = "none"
    BY <1>2 DEF ChargeOrder, MoneyInv, CreateInv
  <2>2. CreateInv'
    BY <1>2, <2>1 DEF TypeOK, ChargeOrder, store, MoneyInv, CreateInv
  <2>3. WebhookInv'
    <3> SUFFICES ASSUME NEW r \in Requests
                 PROVE  WebhookOK(r)'
      BY DEF WebhookInv
    <3>1. request' = request /\ payments' = payments /\ WebhookOK(r)
      BY <1>2 DEF ChargeOrder, store, MoneyInv, WebhookInv
    <3>2. request[r] \in PaymentRequest => provider'[request[r].order] = provider[request[r].order]
      BY <1>2, <2>1, <3>1 DEF TypeOK, ChargeOrder, WebhookOK, PaymentRequest
    <3>3. QED
      BY <3>1, <3>2 DEF WebhookOK
  <2>4. PaymentMirrorsProvider'
    BY <1>2, <2>1 DEF TypeOK, ChargeOrder, store, MoneyInv, PaymentMirrorsProvider,
                      FinalStatuses
  <2>5. QED
    BY <2>2, <2>3, <2>4 DEF MoneyInv
<1>3. CASE RecordPayment(o)
  <2>1. provider[o] # "none" /\ payments[o] = "none"
    BY <1>3 DEF RecordPayment, MoneyInv, CreateInv
  <2>2. CreateInv'
    BY <1>3, <2>1 DEF TypeOK, RecordPayment, MoneyInv, CreateInv
  <2>3. WebhookInv'
    <3> SUFFICES ASSUME NEW r \in Requests
                 PROVE  WebhookOK(r)'
      BY DEF WebhookInv
    <3>1. request' = request /\ provider' = provider /\ WebhookOK(r)
      BY <1>3 DEF RecordPayment, MoneyInv, WebhookInv
    <3>2. request[r] \in PaymentRequest => payments'[request[r].order] = payments[request[r].order]
      BY <1>3, <2>1, <3>1 DEF TypeOK, RecordPayment, WebhookOK, PaymentRequest
    <3>3. QED
      BY <3>1, <3>2 DEF WebhookOK
  <2>4. PaymentMirrorsProvider'
    BY <1>3 DEF TypeOK, RecordPayment, MoneyInv, PaymentMirrorsProvider, FinalStatuses
  <2>5. QED
    BY <2>2, <2>3, <2>4 DEF MoneyInv
<1>4. CASE LinkPayment(o)
  BY <1>4 DEF TypeOK, LinkPayment, MoneyInv, CreateInv, WebhookInv, WebhookOK,
              PaymentMirrorsProvider
<1>5. CASE AnnounceOrder(o)
  BY <1>5 DEF TypeOK, AnnounceOrder, store, MoneyInv, CreateInv, WebhookInv,
              WebhookOK, PaymentMirrorsProvider
<1>6. QED
  BY <1>1, <1>2, <1>3, <1>4, <1>5 DEF Create

\* The provider decides a pending payment, of which no webhook tells yet.
LEMMA MoneyDecide ==
  ASSUME TypeOK, MoneyInv, NEW o \in Orders, Pay(o) \/ Abandon(o)
  PROVE  MoneyInv'
<1>1. /\ provider[o] = "pending"
      /\ UNCHANGED <<payments, creating, request, orders>>
      /\ \A p \in Orders \ {o} : provider'[p] = provider[p]
      /\ provider'[o] \in FinalStatuses
  BY DEF TypeOK, Pay, Abandon, store, FinalStatuses
<1>2. CreateInv'
  BY <1>1 DEF MoneyInv, CreateInv, FinalStatuses
<1>3. WebhookInv'
  BY <1>1 DEF MoneyInv, WebhookInv, WebhookOK, PaymentRequest, FinalStatuses
<1>4. PaymentMirrorsProvider'
  BY <1>1 DEF MoneyInv, PaymentMirrorsProvider, FinalStatuses
<1>5. QED
  BY <1>2, <1>3, <1>4 DEF MoneyInv

\* A step of one request that leaves the tables and the provider alone has only
\* its own record to answer for.
LEMMA MoneyFrame ==
  ASSUME TypeOK, MoneyInv, NEW r \in Requests,
         UNCHANGED <<payments, provider, creating>>,
         \A o \in Orders : orders[o] # "none" => orders'[o] # "none",
         \A s \in Requests \ {r} : request'[s] = request[s],
         WebhookOK(r)'
  PROVE  MoneyInv'
<1>1. CreateInv' /\ PaymentMirrorsProvider'
  BY DEF MoneyInv, CreateInv, PaymentMirrorsProvider
<1>2. ASSUME NEW s \in Requests \ {r}
      PROVE  WebhookOK(s)'
  BY <1>2 DEF MoneyInv, WebhookInv, WebhookOK
<1>3. QED
  BY <1>1, <1>2 DEF MoneyInv, WebhookInv

\* A delivery, or an administrator's report of the decision, starts a request that
\* reports the provider's decision.
LEMMA MoneyDeliver ==
  ASSUME TypeOK, MoneyInv, NEW r \in Requests, NEW o \in Orders,
         NEW kind \in {"webhook", "manual"}, provider[o] \in FinalStatuses,
         ReadPayment(r, kind, o, provider[o])
  PROVE  MoneyInv'
<1> DEFINE next == [pc |-> "settle", kind |-> kind, order |-> o,
                    status |-> provider[o], target |-> OrderStatusFor(provider[o]),
                    seen |-> "none"]
<1>2. UNCHANGED <<orders, payments, provider, creating>>
  BY DEF ReadPayment, store
<1>3. /\ request'[r] = Idle \/ (request'[r] = next /\ payments[o] # "none")
      /\ \A s \in Requests \ {r} : request'[s] = request[s]
  BY ReadPaymentRequests
<1>4. WebhookOK(r)'
  <2>1. CASE request'[r] = Idle
    BY <2>1, IdleIsNoRequest DEF WebhookOK
  <2>2. CASE request'[r] = next /\ payments[o] # "none"
    <3>1. next \notin RpcRequest
      BY DEF RpcRequest
    <3>2. QED
      BY <1>2, <2>2, <3>1 DEF WebhookOK
  <2>3. QED
    BY <1>3, <2>1, <2>2
<1>5. QED
  BY <1>2, <1>3, <1>4, MoneyFrame

\* An UpdateOrderStatus call holds no payment status.
LEMMA MoneyCall ==
  ASSUME TypeOK, MoneyInv, NEW r \in Requests, NEW o \in Orders,
         NEW target \in RpcTargets, CallUpdateOrderStatus(r, o, target)
  PROVE  MoneyInv'
<1> DEFINE next == [pc |-> "readOrder", kind |-> "rpc", order |-> o,
                    target |-> target, seen |-> "none"]
<1>1. UNCHANGED <<orders, payments, provider, creating>>
  BY DEF CallUpdateOrderStatus, store
<1>2. /\ request'[r] = next
      /\ \A s \in Requests \ {r} : request'[s] = request[s]
  BY CallRequests
<1>3. next \notin PaymentRequest /\ next.target \in RpcTargets
  BY DEF PaymentRequest
<1>4. WebhookOK(r)'
  BY <1>2, <1>3 DEF WebhookOK
<1>5. QED
  BY <1>1, <1>2, <1>4, MoneyFrame

\* The update of the payment row: it moves from pending to the status the
\* provider decided on, which the other requests for the order report as well.
LEMMA MoneySettle ==
  ASSUME TypeOK, MoneyInv, NEW r \in Requests, UpdateStatusAndGet(r)
  PROVE  MoneyInv'
<1> DEFINE q == request[r]
<1>1. /\ q \in PaymentRequest
      /\ q.order \in Orders
      /\ q.status \in FinalStatuses
  BY RequestKinds DEF UpdateStatusAndGet, PaymentRequest
<1>2. provider[q.order] = q.status /\ payments[q.order] # "none"
  BY <1>1 DEF MoneyInv, WebhookInv, WebhookOK
<1>3. UNCHANGED <<orders, provider, creating>>
  BY DEF UpdateStatusAndGet
<1>4. payments' = payments \/ payments' = [payments EXCEPT ![q.order] = q.status]
  BY DEF UpdateStatusAndGet
<1>5. \A o \in Orders : /\ payments'[o] = payments[o] \/ payments'[o] = provider[o]
                        /\ payments'[o] = "none" <=> payments[o] = "none"
                        /\ payments[o] = provider[o] => payments'[o] = provider[o]
  BY <1>1, <1>2, <1>4 DEF TypeOK, FinalStatuses
<1>6. CreateInv' /\ PaymentMirrorsProvider'
  BY <1>3, <1>5 DEF MoneyInv, CreateInv, PaymentMirrorsProvider
<1>7. ASSUME NEW s \in Requests \ {r}
      PROVE  WebhookOK(s)'
  <2>1. request'[s] = request[s]
    BY <1>7, SettleRequests
  <2>2. WebhookOK(s)
    BY <1>7 DEF MoneyInv, WebhookInv
  <2>3. request[s] \in PaymentRequest => request[s].order \in Orders
    BY DEF PaymentRequest
  <2>4. QED
    BY <1>3, <1>5, <2>1, <2>2, <2>3 DEF WebhookOK
<1>8. WebhookOK(r)'
  <2>1. CASE request'[r] = Idle
    BY <2>1, IdleIsNoRequest DEF WebhookOK
  <2>2. ASSUME request'[r] = [q EXCEPT !.pc = "readOrder"],
               payments' = [payments EXCEPT ![q.order] = q.status]
        PROVE  WebhookOK(r)'
    <3> DEFINE next == [q EXCEPT !.pc = "readOrder"]
    <3>1. /\ next \in PaymentRequest
          /\ next.kind = q.kind
          /\ next.order = q.order
          /\ next.status = q.status
          /\ next.target = q.target
      BY <1>1 DEF PaymentRequest
    <3>2. next \notin RpcRequest
      BY <3>1, KindsAreDisjoint
    <3>3. payments'[q.order] = q.status /\ q.status # "none"
      BY <1>1, <2>2 DEF TypeOK, FinalStatuses
    <3>4. WebhookOK(r)
      BY DEF MoneyInv, WebhookInv
    <3>5. QED
      BY <1>1, <1>3, <2>2, <3>1, <3>2, <3>3, <3>4 DEF WebhookOK
  <2>3. QED
    BY <2>1, <2>2, SettleRequests
<1>9. QED
  BY <1>6, <1>7, <1>8 DEF MoneyInv, WebhookInv

\* A request that goes on with the same payment or target, its row still there.
LEMMA WebhookGoesOn ==
  ASSUME TypeOK, MoneyInv, NEW r \in Requests,
         request[r] \in PaymentRequest \union RpcRequest,
         request[r].pc # "settle",
         UNCHANGED <<payments, provider>>,
         NEW pc \in {"cas", "publish"}, NEW seen \in OrderStatuses \union {"none"},
         \/ request'[r] = Idle
         \/ request'[r] = [request[r] EXCEPT !.pc = pc, !.seen = seen]
  PROVE  WebhookOK(r)'
<1> DEFINE q == request[r]
           next == [q EXCEPT !.pc = pc, !.seen = seen]
<1>1. WebhookOK(r)
  BY DEF MoneyInv, WebhookInv
<1>2. CASE request'[r] = Idle
  BY <1>2, IdleIsNoRequest DEF WebhookOK
<1>3. CASE request'[r] = next /\ q \in PaymentRequest
  <2>1. /\ next \in PaymentRequest
        /\ next.kind = q.kind
        /\ next.order = q.order
        /\ next.status = q.status
        /\ next.target = q.target
    BY <1>3 DEF PaymentRequest
  <2>2. next \notin RpcRequest
    BY <2>1, KindsAreDisjoint
  <2>3. QED
    BY <1>1, <1>3, <2>1, <2>2 DEF WebhookOK
<1>4. CASE request'[r] = next /\ q \in RpcRequest
  <2>1. next.target = q.target /\ next.kind = "rpc"
    BY <1>4 DEF RpcRequest
  <2>2. next \notin PaymentRequest
    BY <2>1 DEF PaymentRequest
  <2>3. QED
    BY <1>1, <1>4, <2>1, <2>2 DEF WebhookOK
<1>5. QED
  BY <1>2, <1>3, <1>4

\* The steps of a request keep MoneyInv.
LEMMA MoneyProcess ==
  ASSUME TypeOK, TransitionInv, MoneyInv, NEW r \in Requests, Process(r)
  PROVE  MoneyInv'
<1> DEFINE q == request[r]
<1>1. CASE UpdateStatusAndGet(r)
  BY <1>1, MoneySettle
<1>2. CASE ReadOrder(r)
  <2>1. /\ q \in PaymentRequest \union RpcRequest
        /\ q.order \in Orders
        /\ q.pc # "settle"
    BY <1>2, RequestKinds DEF ReadOrder, PaymentRequest, RpcRequest
  <2>2. UNCHANGED <<orders, payments, provider, creating>>
    BY <1>2 DEF ReadOrder, store
  <2>3. orders[q.order] \in OrderStatuses \union {"none"}
    BY <2>1 DEF TypeOK
  <2>4. WebhookOK(r)'
    BY <1>2, <2>1, <2>2, <2>3, ReadOrderRequests, WebhookGoesOn
  <2>5. QED
    BY <1>2, <2>2, <2>4, ReadOrderRequests, MoneyFrame
<1>3. CASE UpdateStatus(r)
  <2>1. /\ q \in PaymentRequest \union RpcRequest
        /\ q.order \in Orders
        /\ q.pc # "settle"
        /\ q.target # "none"
        /\ q.seen \in OrderStatuses \union {"none"}
    BY <1>3, RequestKinds DEF UpdateStatus, PaymentRequest, RpcRequest, OrderStatuses
  <2>2. UNCHANGED <<payments, provider, creating>>
    BY <1>3 DEF UpdateStatus
  <2>3. \A o \in Orders : orders[o] # "none" => orders'[o] # "none"
    BY <1>3, <2>1 DEF TypeOK, UpdateStatus
  <2>4. [q EXCEPT !.pc = "publish"] = [q EXCEPT !.pc = "publish", !.seen = q.seen]
    BY <2>1 DEF PaymentRequest, RpcRequest
  <2>5. WebhookOK(r)'
    BY <1>3, <2>1, <2>2, <2>4, UpdateStatusRequests, WebhookGoesOn
  <2>6. QED
    BY <1>3, <2>2, <2>3, <2>5, UpdateStatusRequests, MoneyFrame
<1>4. CASE PublishPaymentUpdate(r)
  <2>1. UNCHANGED <<orders, payments, provider, creating>>
    BY <1>4 DEF PublishPaymentUpdate, store
  <2>2. WebhookOK(r)'
    BY <1>4, PublishRequests, IdleIsNoRequest DEF WebhookOK
  <2>3. QED
    BY <1>4, <2>1, <2>2, PublishRequests, MoneyFrame
<1>5. QED
  BY <1>1, <1>2, <1>3, <1>4 DEF Process

\* A restart leaves no request and no row or payment changed.
LEMMA MoneyRestart ==
  ASSUME TypeOK, MoneyInv, Restart
  PROVE  MoneyInv'
<1>1. UNCHANGED <<orders, payments, provider>>
  BY DEF Restart, store
<1>2. \A o \in Orders : creating'[o] \in {creating[o], "done"}
  BY DEF Restart
<1>3. CreateInv' /\ PaymentMirrorsProvider'
  BY <1>1, <1>2 DEF MoneyInv, CreateInv, PaymentMirrorsProvider
<1>4. WebhookInv'
  BY IdleIsNoRequest DEF Restart, WebhookInv, WebhookOK
<1>5. QED
  BY <1>3, <1>4 DEF MoneyInv

\* Every step keeps MoneyInv, if administrators report nothing but the decision.
LEMMA MoneyStep ==
  ASSUME AdminReports # "anything", TypeOK, TransitionInv, MoneyInv, [Next]_vars
  PROVE  MoneyInv'
<1>1. CASE UNCHANGED vars
  BY <1>1 DEF vars, store, MoneyInv, CreateInv, WebhookInv, WebhookOK,
              PaymentMirrorsProvider
<1>2. ASSUME NEW r \in Requests, NEW o \in Orders, DeliverWebhook(r, o)
      PROVE  MoneyInv'
  BY <1>2, MoneyDeliver DEF DeliverWebhook
<1>3. ASSUME NEW r \in Requests, NEW o \in Orders, NEW status \in FinalStatuses,
             ManualStatusUpdate(r, o, status)
      PROVE  MoneyInv'
  BY <1>3, MoneyDeliver, AdminAssumption DEF ManualStatusUpdate
<1>4. QED
  BY <1>1, <1>2, <1>3, MoneyCreate, MoneyDecide, MoneyProcess, MoneyCall, MoneyRestart
  DEF Next

\* The invariants hold in the initial states.
LEMMA MoneyInit == Init => TransitionInv /\ MoneyInv
BY IdleIsNoRequest
DEF Init, TransitionInv, MoneyInv, CreateInv, WebhookInv, WebhookOK,
    PaymentMirrorsProvider, FinalStatuses, Idle

\* The type, transition and money invariants hold throughout.
LEMMA MoneyCorrect ==
  ASSUME AdminReports # "anything"
  PROVE  Spec => [](TypeOK /\ TransitionInv /\ MoneyInv)
<1>1. TypeOK /\ TransitionInv /\ MoneyInv /\ [Next]_vars => (TransitionInv /\ MoneyInv)'
  BY TransitionStep, MoneyStep
<1>2. QED
  BY <1>1, MoneyInit, TypeCorrect, PTL DEF Spec

\* With truthful administrators, the payment row says what the provider decided.
THEOREM PaymentsMirrorProvider ==
  ASSUME AdminReports # "anything"
  PROVE  Spec => []PaymentMirrorsProvider
<1>1. MoneyInv => PaymentMirrorsProvider
  BY DEF MoneyInv
<1>2. QED
  BY <1>1, MoneyCorrect, PTL

\* A final payment row stays as it is in every step.
LEMMA PaymentFinalStep ==
  ASSUME TypeOK, MoneyInv, [Next]_vars, NEW o \in Orders, payments[o] \in FinalStatuses
  PROVE  payments'[o] = payments[o]
<1>1. ASSUME NEW p \in Orders, RecordPayment(p)
      PROVE  payments'[o] = payments[o]
  <2>1. payments[p] = "none"
    BY <1>1 DEF RecordPayment, MoneyInv, CreateInv
  <2>2. \A p2 \in Orders \ {p} : payments'[p2] = payments[p2]
    BY <1>1 DEF RecordPayment, TypeOK
  <2>3. QED
    BY <2>1, <2>2 DEF FinalStatuses
<1>2. ASSUME NEW p \in Orders,
             InsertOrder(p) \/ ChargeOrder(p) \/ LinkPayment(p) \/ AnnounceOrder(p)
      PROVE  payments'[o] = payments[o]
  BY <1>2 DEF InsertOrder, ChargeOrder, LinkPayment, AnnounceOrder, store
\* A webhook carries the provider's decision, which a final row already holds.
<1>3. ASSUME NEW r \in Requests, UpdateStatusAndGet(r)
      PROVE  payments'[o] = payments[o]
  <2>1. request[r] \in PaymentRequest /\ request[r].order \in Orders
    BY <1>3, RequestKinds DEF UpdateStatusAndGet, PaymentRequest
  <2>2. provider[request[r].order] = request[r].status
    BY <2>1 DEF MoneyInv, WebhookInv, WebhookOK
  <2>3. \/ payments' = payments
        \/ payments' = [payments EXCEPT ![request[r].order] = request[r].status]
    BY <1>3 DEF UpdateStatusAndGet
  <2>4. payments[o] = provider[o]
    BY DEF MoneyInv, PaymentMirrorsProvider
  <2>5. QED
    BY <2>1, <2>2, <2>3, <2>4 DEF TypeOK
<1>4. ASSUME NEW r \in Requests,
             ReadOrder(r) \/ UpdateStatus(r) \/ PublishPaymentUpdate(r)
      PROVE  payments'[o] = payments[o]
  BY <1>4 DEF ReadOrder, UpdateStatus, PublishPaymentUpdate, store
<1>5. QED
  BY <1>1, <1>2, <1>3, <1>4
  DEF Next, vars, store, Create, Process, Pay, Abandon, DeliverWebhook,
      ManualStatusUpdate, ReadPayment, CallUpdateOrderStatus, Restart

-----------------------------------------------------------------------------
(* Events: one payment update per order.                                   *)

\* r has moved the payment row of o and has not finished.
Updates(r, o) ==
  /\ request[r] \in PaymentRequest
  /\ request[r].pc # "settle"
  /\ request[r].order = o

\* The row is moved by one request only, which publishes only as it finishes.
UpdaterInv ==
  \A o \in Orders :
    /\ \A r, s \in Requests : Updates(r, o) /\ Updates(s, o) => r = s
    /\ (\E r \in Requests : Updates(r, o)) => PaymentUpdates(o) = {}
    /\ payments[o] \notin FinalStatuses =>
         PaymentUpdates(o) = {} /\ \A r \in Requests : ~Updates(r, o)
    /\ \A i, j \in PaymentUpdates(o) : i = j

\* What publishing adds to the payment updates of an order.
LEMMA PublishUpdates ==
  ASSUME TypeOK, NEW o \in Orders, NEW type, NEW status, Publish(o, type, status)
  PROVE  /\ type = "OrderCreated" => PaymentUpdates(o)' = PaymentUpdates(o)
         /\ type = "OrderPaymentUpdated" =>
              PaymentUpdates(o)' = PaymentUpdates(o) \union {Len(topic[o]) + 1}
         /\ \A p \in Orders \ {o} : PaymentUpdates(p)' = PaymentUpdates(p)
<1> DEFINE event == [type |-> type, status |-> status]
<1>1. /\ topic'[o] = Append(topic[o], event)
      /\ \A p \in Orders \ {o} : topic'[p] = topic[p]
  BY DEF TypeOK, Publish
<1>2. topic[o] \in Seq(Event)
  BY DEF TypeOK
<1>3. /\ DOMAIN topic'[o] = DOMAIN topic[o] \union {Len(topic[o]) + 1}
      /\ \A i \in DOMAIN topic[o] : topic'[o][i] = topic[o][i]
      /\ topic'[o][Len(topic[o]) + 1] = event
  BY <1>1, <1>2
<1>4. event.type = type
  OBVIOUS
<1>5. QED
  BY <1>1, <1>3, <1>4 DEF PaymentUpdates

\* A step that publishes no payment update, makes no request an updater and
\* leaves final rows final.
LEMMA UpdaterFrame ==
  ASSUME UpdaterInv,
         \A o \in Orders : PaymentUpdates(o)' = PaymentUpdates(o),
         \A o \in Orders, s \in Requests : Updates(s, o)' => Updates(s, o),
         \A o \in Orders : payments[o] \in FinalStatuses => payments'[o] \in FinalStatuses
  PROVE  UpdaterInv'
BY DEF UpdaterInv

\* CreateOrder publishes no payment update and settles no row.
LEMMA UpdaterCreate ==
  ASSUME TypeOK, MoneyInv, UpdaterInv, NEW o \in Orders, Create(o)
  PROVE  UpdaterInv'
<1>1. request' = request
  BY DEF Create, InsertOrder, ChargeOrder, RecordPayment, LinkPayment, AnnounceOrder
<1>2. \A p \in Orders, s \in Requests : Updates(s, p)' => Updates(s, p)
  BY <1>1 DEF Updates
<1>3. \A p \in Orders :
        payments[p] \in FinalStatuses => payments'[p] \in FinalStatuses
  BY DEF TypeOK, Create, InsertOrder, ChargeOrder, RecordPayment, LinkPayment,
         AnnounceOrder, store, MoneyInv, CreateInv, FinalStatuses
<1>4. \A p \in Orders : PaymentUpdates(p)' = PaymentUpdates(p)
  <2>1. UNCHANGED topic \/ Publish(o, "OrderCreated", "PENDING_PAYMENT")
    BY DEF Create, InsertOrder, ChargeOrder, RecordPayment, LinkPayment, AnnounceOrder
  <2>2. CASE UNCHANGED topic
    BY <2>2 DEF PaymentUpdates
  <2>3. CASE Publish(o, "OrderCreated", "PENDING_PAYMENT")
    BY <2>3, PublishUpdates
  <2>4. QED
    BY <2>1, <2>2, <2>3
<1>5. QED
  BY <1>2, <1>3, <1>4, UpdaterFrame

\* A request that stays what it was, apart from its pc and what it has read, or
\* ends: it was an updater before if it is one afterwards.
LEMMA UpdatesFrame ==
  ASSUME NEW r \in Requests,
         \A s \in Requests \ {r} : request'[s] = request[s],
         request'[r] \in PaymentRequest /\ request'[r].pc # "settle" =>
           /\ request[r] \in PaymentRequest
           /\ request[r].pc # "settle"
           /\ request'[r].order = request[r].order
  PROVE  \A o \in Orders, s \in Requests : Updates(s, o)' => Updates(s, o)
BY DEF Updates

\* A delivery or a manual update reads a payment.
LEMMA ReportReads ==
  ASSUME NEW r \in Requests, NEW o \in Orders,
         \/ DeliverWebhook(r, o)
         \/ \E status \in FinalStatuses : ManualStatusUpdate(r, o, status)
  PROVE  \E kind \in {"webhook", "manual"}, status \in FinalStatuses :
           ReadPayment(r, kind, o, status)
BY DEF DeliverWebhook, ManualStatusUpdate

\* A report and a call start a request that has settled nothing.
LEMMA UpdaterRead ==
  ASSUME TypeOK, UpdaterInv, NEW r \in Requests, NEW o \in Orders,
         \/ \E kind \in {"webhook", "manual"}, status \in FinalStatuses :
              ReadPayment(r, kind, o, status)
         \/ \E target \in RpcTargets : CallUpdateOrderStatus(r, o, target)
  PROVE  UpdaterInv'
<1>1. UNCHANGED <<payments, topic>>
  BY DEF ReadPayment, CallUpdateOrderStatus, store
<1>2. \A p \in Orders, s \in Requests : Updates(s, p)' => Updates(s, p)
  <2>1. ASSUME NEW kind \in {"webhook", "manual"}, NEW status \in FinalStatuses,
               ReadPayment(r, kind, o, status)
        PROVE  \A p \in Orders, s \in Requests : Updates(s, p)' => Updates(s, p)
    <3> DEFINE next == [pc |-> "settle", kind |-> kind, order |-> o,
                        status |-> status,
                        target |-> OrderStatusFor(status), seen |-> "none"]
    <3>1. /\ request'[r] = Idle \/ request'[r] = next
          /\ \A s \in Requests \ {r} : request'[s] = request[s]
      BY <2>1, ReadPaymentRequests
    <3>2. next.pc = "settle"
      OBVIOUS
    <3>3. QED
      BY <3>1, <3>2, IdleIsNoRequest, UpdatesFrame
  <2>2. ASSUME NEW target \in RpcTargets, CallUpdateOrderStatus(r, o, target)
        PROVE  \A p \in Orders, s \in Requests : Updates(s, p)' => Updates(s, p)
    <3> DEFINE next == [pc |-> "readOrder", kind |-> "rpc", order |-> o,
                        target |-> target, seen |-> "none"]
    <3>1. /\ request'[r] = next
          /\ \A s \in Requests \ {r} : request'[s] = request[s]
      BY <2>2, CallRequests
    <3>2. next \notin PaymentRequest
      BY DEF PaymentRequest
    <3>3. QED
      BY <3>1, <3>2, UpdatesFrame
  <2>3. QED
    BY <2>1, <2>2
<1>3. \A p \in Orders : PaymentUpdates(p)' = PaymentUpdates(p)
  BY <1>1 DEF PaymentUpdates
<1>4. QED
  BY <1>1, <1>2, <1>3, UpdaterFrame

\* The one step that makes an updater finds the row pending, so nobody is one and
\* nothing has been published.
LEMMA UpdaterSettle ==
  ASSUME TypeOK, MoneyInv, UpdaterInv, NEW r \in Requests, UpdateStatusAndGet(r)
  PROVE  UpdaterInv'
<1> DEFINE q == request[r]
<1>1. /\ q \in PaymentRequest
      /\ q.pc = "settle"
      /\ q.order \in Orders
      /\ q.status \in FinalStatuses
  BY RequestKinds DEF UpdateStatusAndGet, PaymentRequest
<1>2. \A p \in Orders : PaymentUpdates(p)' = PaymentUpdates(p)
  BY DEF UpdateStatusAndGet, PaymentUpdates
<1>3. \A p \in Orders :
        payments[p] \in FinalStatuses => payments'[p] \in FinalStatuses
  BY <1>1 DEF TypeOK, UpdateStatusAndGet
<1>4. CASE request'[r] = Idle
  <2>1. \A p \in Orders, s \in Requests : Updates(s, p)' => Updates(s, p)
    BY <1>4, SettleRequests, IdleIsNoRequest, UpdatesFrame
  <2>2. QED
    BY <1>2, <1>3, <2>1, UpdaterFrame
<1>5. ASSUME request'[r] = [q EXCEPT !.pc = "readOrder"],
             PaymentRowMoves(q.order, q.status),
             payments' = [payments EXCEPT ![q.order] = q.status]
      PROVE  UpdaterInv'
  <2>1. payments[q.order] \notin FinalStatuses
    BY <1>1, <1>5
    DEF MoneyInv, WebhookInv, WebhookOK, PaymentMirrorsProvider, PaymentRowMoves
  <2>2. /\ PaymentUpdates(q.order) = {}
        /\ \A s \in Requests : ~Updates(s, q.order)
    BY <1>1, <2>1 DEF UpdaterInv
  <2>3. request'[r].order = q.order
    BY <1>1, <1>5 DEF PaymentRequest
  <2>4. \A p \in Orders, s \in Requests :
          Updates(s, p)' => Updates(s, p) \/ (s = r /\ p = q.order)
    BY <2>3, SettleRequests DEF Updates
  <2>5. payments'[q.order] \in FinalStatuses
    BY <1>1, <1>5 DEF TypeOK
  <2>6. QED
    BY <1>2, <1>3, <2>2, <2>4, <2>5 DEF UpdaterInv
<1>6. QED
  BY <1>4, <1>5, SettleRequests

\* Reading and updating the order leave the updater what it is.
LEMMA UpdaterOrder ==
  ASSUME TypeOK, UpdaterInv, NEW r \in Requests, ReadOrder(r) \/ UpdateStatus(r)
  PROVE  UpdaterInv'
<1> DEFINE q == request[r]
<1>1. /\ q \in PaymentRequest \union RpcRequest
      /\ q.pc # "settle"
  BY RequestKinds DEF ReadOrder, UpdateStatus
<1>2. UNCHANGED <<payments, topic>>
  BY DEF ReadOrder, UpdateStatus, store
<1>3. /\ request'[r] \in PaymentRequest =>
           q \in PaymentRequest /\ request'[r].order = q.order
      /\ \A s \in Requests \ {r} : request'[s] = request[s]
  <2>1. CASE request'[r] = Idle
    BY <2>1, IdleIsNoRequest, ReadOrderRequests, UpdateStatusRequests
  <2>2. ASSUME NEW next,
               \/ next = [q EXCEPT !.pc = "cas", !.seen = orders[q.order]]
               \/ next = [q EXCEPT !.pc = "publish"]
        PROVE  next \in PaymentRequest => q \in PaymentRequest /\ next.order = q.order
    <3>1. next.kind = q.kind /\ next.order = q.order
      BY <1>1, <2>2 DEF PaymentRequest, RpcRequest
    <3>2. QED
      BY <1>1, <3>1 DEF PaymentRequest, RpcRequest
  <2>3. QED
    BY <2>1, <2>2, ReadOrderRequests, UpdateStatusRequests
<1>4. \A p \in Orders, s \in Requests : Updates(s, p)' => Updates(s, p)
  BY <1>1, <1>3, UpdatesFrame
<1>5. \A p \in Orders : PaymentUpdates(p)' = PaymentUpdates(p)
  BY <1>2 DEF PaymentUpdates
<1>6. QED
  BY <1>2, <1>4, <1>5, UpdaterFrame

\* The updater publishes as it finishes: no other one is left, nor will be, since
\* the row is final.
LEMMA UpdaterPublish ==
  ASSUME TypeOK, MoneyInv, UpdaterInv, NEW r \in Requests, PublishPaymentUpdate(r)
  PROVE  UpdaterInv'
<1> DEFINE q == request[r]
<1>1. /\ q \in PaymentRequest
      /\ q.pc = "publish"
      /\ q.order \in Orders
      /\ q.status \in FinalStatuses
  BY RequestKinds DEF PublishPaymentUpdate, PaymentRequest
<1>0. PICK o \in Orders : o = q.order
  BY <1>1
<1>2. payments' = payments
  BY DEF PublishPaymentUpdate, store
<1>3. payments[o] \in FinalStatuses
  BY <1>0, <1>1 DEF MoneyInv, WebhookInv, WebhookOK
<1>4. Updates(r, o)
  BY <1>0, <1>1 DEF Updates
<1>5. \A p \in Orders, s \in Requests : Updates(s, p)' => Updates(s, p) /\ s # r
  <2>1. ~(request'[r] \in PaymentRequest)
    BY PublishRequests, IdleIsNoRequest
  <2>2. \A s \in Requests \ {r} : request'[s] = request[s]
    BY PublishRequests
  <2>3. QED
    BY <2>1, <2>2 DEF Updates
<1>6. \A s \in Requests : ~Updates(s, o)'
  BY <1>1, <1>4, <1>5 DEF UpdaterInv
<1>7. CASE UNCHANGED topic
  <2>1. \A p \in Orders : PaymentUpdates(p)' = PaymentUpdates(p)
    BY <1>7 DEF PaymentUpdates
  <2>2. QED
    BY <1>2, <1>5, <2>1, UpdaterFrame
<1>8. CASE Publish(o, "OrderPaymentUpdated", q.target)
  <2>1. PaymentUpdates(o) = {}
    BY <1>1, <1>4 DEF UpdaterInv
  <2>2. /\ PaymentUpdates(o)' = {Len(topic[o]) + 1}
        /\ \A p \in Orders \ {o} : PaymentUpdates(p)' = PaymentUpdates(p)
    BY <1>1, <1>8, <2>1, PublishUpdates
  <2>3. QED
    BY <1>2, <1>3, <1>5, <1>6, <2>2 DEF UpdaterInv
<1>9. QED
  BY <1>0, <1>7, <1>8 DEF PublishPaymentUpdate

\* Every step keeps UpdaterInv.
LEMMA UpdaterStep ==
  ASSUME AdminReports # "anything", TypeOK, TransitionInv, MoneyInv, UpdaterInv, [Next]_vars
  PROVE  UpdaterInv'
<1>1. CASE UNCHANGED vars
  BY <1>1 DEF vars, store, UpdaterInv, Updates, PaymentUpdates
<1>2. ASSUME NEW o \in Orders, Pay(o) \/ Abandon(o)
      PROVE  UpdaterInv'
  BY <1>2 DEF Pay, Abandon, store, UpdaterInv, Updates, PaymentUpdates
<1>3. CASE Restart
  <2>1. /\ \A r \in Requests : request'[r] = Idle
        /\ UNCHANGED <<payments, topic>>
    BY <1>3 DEF Restart, store
  <2>2. QED
    BY <2>1, IdleIsNoRequest DEF UpdaterInv, Updates, PaymentUpdates
<1>4. ASSUME NEW r \in Requests, NEW o \in Orders,
             \/ DeliverWebhook(r, o)
             \/ \E status \in FinalStatuses : ManualStatusUpdate(r, o, status)
      PROVE  UpdaterInv'
  BY <1>4, ReportReads, UpdaterRead
<1>5. QED
  BY <1>1, <1>2, <1>3, <1>4, UpdaterCreate, UpdaterRead, UpdaterSettle, UpdaterOrder,
     UpdaterPublish
  DEF Next, Process

\* With truthful administrators, at most one OrderPaymentUpdated is published about
\* an order, however often and however concurrently its webhook is delivered.
THEOREM OneUpdateIsPublished ==
  ASSUME AdminReports # "anything"
  PROVE  Spec => []OnePaymentUpdate
<1>1. Init => UpdaterInv
  BY IdleIsNoRequest DEF Init, UpdaterInv, Updates, PaymentUpdates
<1>2. TypeOK /\ TransitionInv /\ MoneyInv /\ UpdaterInv /\ [Next]_vars => UpdaterInv'
  BY UpdaterStep
<1>3. UpdaterInv => OnePaymentUpdate
  BY DEF UpdaterInv, OnePaymentUpdate
<1>4. QED
  BY <1>1, <1>2, <1>3, MoneyCorrect, PTL DEF Spec

-----------------------------------------------------------------------------
(* Events: what is published is true, and stays true.                      *)

\* A request about to announce a paid order has found it paid, or moved on since.
PublisherOK(r) ==
  request[r].pc = "publish" /\ request[r].target = "PAID" =>
    orders[request[r].order] \in Outcomes("succeeded")

EventInv == (\A r \in Requests : PublisherOK(r)) /\ EventsAreTrue

\* A paid order is paid, shipped or cancelled from then on.
LEMMA PaidStays ==
  ASSUME TypeOK, TransitionInv, [Next]_vars,
         NEW o \in Orders, orders[o] \in Outcomes("succeeded")
  PROVE  orders'[o] \in Outcomes("succeeded")
<1>1. CASE UNCHANGED orders
  BY <1>1
<1>2. ASSUME NEW p \in Orders, orders[p] = "none",
             orders' = [orders EXCEPT ![p] = "PENDING_PAYMENT"]
      PROVE  orders'[o] \in Outcomes("succeeded")
  BY <1>2 DEF TypeOK, Outcomes
<1>3. ASSUME NEW p, NEW target,
             orders' = [orders EXCEPT ![p] = target], ValidTransition(orders[p], target)
      PROVE  orders'[o] \in Outcomes("succeeded")
  <2>1. CASE p # o
    BY <1>3, <2>1 DEF TypeOK
  <2>2. CASE p = o
    BY <1>3, <2>2 DEF TypeOK, Outcomes, ValidTransition, validTransitions
  <2>3. QED
    BY <2>1, <2>2
<1>4. QED
  BY <1>1, <1>2, <1>3, OrderSteps

\* A request that does not come to publish in this step is as right as it was.
LEMMA PublishersStay ==
  ASSUME TypeOK, TransitionInv, EventInv, [Next]_vars, NEW r \in Requests,
         request'[r] = request[r] \/ request'[r].pc # "publish"
  PROVE  PublisherOK(r)'
<1> SUFFICES ASSUME request'[r].pc = "publish", request'[r].target = "PAID"
             PROVE  orders'[request'[r].order] \in Outcomes("succeeded")
  BY DEF PublisherOK, Outcomes
<1>1. request'[r] = request[r]
  OBVIOUS
<1>2. request[r] \in PaymentRequest
  BY <1>1, RequestKinds
<1>3. request[r].order \in Orders
  BY <1>2 DEF PaymentRequest
<1>4. orders[request[r].order] \in Outcomes("succeeded")
  BY <1>1 DEF EventInv, PublisherOK
<1>5. QED
  BY <1>1, <1>3, <1>4, PaidStays

\* A request comes to publish by moving the order only.
LEMMA PublishersStep ==
  ASSUME TypeOK, TransitionInv, EventInv, [Next]_vars
  PROVE  \A r \in Requests : PublisherOK(r)'
<1>1. ASSUME NEW r \in Requests,
             request'[r] # Idle => request'[r].pc # "publish",
             \A s \in Requests \ {r} : request'[s] = request[s]
      PROVE  \A s \in Requests : PublisherOK(s)'
  BY <1>1, PublishersStay DEF Idle
<1>2. CASE request' = request
  BY <1>2, PublishersStay
<1>3. ASSUME NEW r \in Requests, NEW kind, NEW o, NEW status,
             ReadPayment(r, kind, o, status)
      PROVE  \A s \in Requests : PublisherOK(s)'
  <2> DEFINE next == [pc |-> "settle", kind |-> kind, order |-> o, status |-> status,
                      target |-> OrderStatusFor(status), seen |-> "none"]
  <2>1. next.pc = "settle"
    OBVIOUS
  <2>2. /\ request'[r] = Idle \/ request'[r] = next
        /\ \A s \in Requests \ {r} : request'[s] = request[s]
    BY <1>3, ReadPaymentRequests
  <2> HIDE DEF next
  <2>3. QED
    BY <1>1, <2>1, <2>2
<1>4. ASSUME NEW r \in Requests, NEW o, NEW target, CallUpdateOrderStatus(r, o, target)
      PROVE  \A s \in Requests : PublisherOK(s)'
  <2> DEFINE next == [pc |-> "readOrder", kind |-> "rpc", order |-> o,
                      target |-> target, seen |-> "none"]
  <2>1. next.pc = "readOrder"
    OBVIOUS
  <2>2. /\ request'[r] = next
        /\ \A s \in Requests \ {r} : request'[s] = request[s]
    BY <1>4, CallRequests
  <2> HIDE DEF next
  <2>3. QED
    BY <1>1, <2>1, <2>2
<1>5. ASSUME NEW r \in Requests, UpdateStatusAndGet(r)
      PROVE  \A s \in Requests : PublisherOK(s)'
  <2>1. request[r] \in PaymentRequest
    BY <1>5, RequestKinds DEF UpdateStatusAndGet
  <2>2. [request[r] EXCEPT !.pc = "readOrder"].pc = "readOrder"
    BY <2>1 DEF PaymentRequest
  <2>3. QED
    BY <1>1, <1>5, <2>2, SettleRequests
<1>6. ASSUME NEW r \in Requests, ReadOrder(r)
      PROVE  \A s \in Requests : PublisherOK(s)'
  <2>1. request[r] \in PaymentRequest \union RpcRequest
    BY <1>6, RequestKinds DEF ReadOrder
  <2>2. [request[r] EXCEPT !.pc = "cas", !.seen = orders[request[r].order]].pc = "cas"
    BY <2>1 DEF PaymentRequest, RpcRequest
  <2>3. QED
    BY <1>1, <1>6, <2>2, ReadOrderRequests
<1>7. ASSUME NEW r \in Requests, UpdateStatus(r)
      PROVE  \A s \in Requests : PublisherOK(s)'
  <2>1. request[r] \in PaymentRequest \union RpcRequest
    BY <1>7, RequestKinds DEF UpdateStatus
  <2>2. \A s \in Requests \ {r} : PublisherOK(s)'
    BY <1>7, UpdateStatusRequests, PublishersStay
  <2>3. CASE request'[r] = Idle
    BY <2>2, <2>3, PublishersStay DEF Idle
  <2>4. ASSUME request'[r] = [request[r] EXCEPT !.pc = "publish"],
               orders' = [orders EXCEPT ![request[r].order] = request[r].target]
        PROVE  PublisherOK(r)'
    <3>1. /\ request'[r].order = request[r].order
          /\ request'[r].target = request[r].target
          /\ request[r].order \in Orders
      BY <2>1, <2>4 DEF PaymentRequest, RpcRequest
    <3>2. orders'[request[r].order] = request[r].target
      BY <2>4, <3>1 DEF TypeOK
    <3>3. QED
      BY <3>1, <3>2 DEF PublisherOK, Outcomes
  <2>5. QED
    BY <1>7, <2>2, <2>3, <2>4, UpdateStatusRequests
<1>8. ASSUME NEW r \in Requests, PublishPaymentUpdate(r)
      PROVE  \A s \in Requests : PublisherOK(s)'
  BY <1>1, <1>8, PublishRequests
<1>9. CASE Restart
  <2>1. \A r \in Requests : request'[r] = Idle
    BY <1>9 DEF Restart
  <2>2. QED
    BY <2>1, PublishersStay DEF Idle
<1>10. ASSUME NEW o \in Orders, Create(o) \/ Pay(o) \/ Abandon(o)
       PROVE  request' = request
  BY <1>10 DEF Create, InsertOrder, ChargeOrder, RecordPayment, LinkPayment,
               AnnounceOrder, Pay, Abandon
<1>11. QED
  BY <1>2, <1>3, <1>4, <1>5, <1>6, <1>7, <1>8, <1>9, <1>10
  DEF Next, vars, Process, DeliverWebhook, ManualStatusUpdate

\* What is published about an order is never taken back.
LEMMA PublishAppends ==
  ASSUME TypeOK, NEW o \in Orders, NEW type, NEW status, Publish(o, type, status)
  PROVE  /\ \A p \in Orders : \A i \in PaymentUpdates(p) : topic'[p][i] = topic[p][i]
         /\ topic'[o][Len(topic[o]) + 1] = [type |-> type, status |-> status]
<1>1. /\ topic'[o] = Append(topic[o], [type |-> type, status |-> status])
      /\ \A p \in Orders \ {o} : topic'[p] = topic[p]
  BY DEF TypeOK, Publish
<1>2. topic[o] \in Seq(Event)
  BY DEF TypeOK
<1>3. QED
  BY <1>1, <1>2 DEF PaymentUpdates

\* An event that was true stays true: its payment row is final, and its order stays
\* where paid orders go.
LEMMA EventsStay ==
  ASSUME TypeOK, TransitionInv, MoneyInv, UpdaterInv, EventInv, [Next]_vars,
         NEW o \in Orders, NEW i \in PaymentUpdates(o), topic'[o][i] = topic[o][i]
  PROVE  /\ topic'[o][i].status = OrderStatusFor(payments'[o])
         /\ topic'[o][i].status = "PAID" => orders'[o] \in Outcomes("succeeded")
<1>1. payments[o] \in FinalStatuses
  BY DEF UpdaterInv
<1>2. payments'[o] = payments[o]
  BY <1>1, PaymentFinalStep
<1>3. topic[o][i].status = OrderStatusFor(payments[o])
  BY DEF EventInv, EventsAreTrue
<1>4. topic[o][i].status = "PAID" => orders[o] \in Outcomes("succeeded")
  BY DEF EventInv, EventsAreTrue, Outcomes
<1>5. topic[o][i].status = "PAID" => orders'[o] \in Outcomes("succeeded")
  BY <1>4, PaidStays
<1>6. QED
  BY <1>2, <1>3, <1>5

\* A new event tells of what its request has found done.
LEMMA EventIsTrue ==
  ASSUME TypeOK, TransitionInv, MoneyInv, EventInv, [Next]_vars,
         NEW r \in Requests, PublishPaymentUpdate(r)
  PROVE  /\ request[r].order \in Orders
         /\ request[r].target = OrderStatusFor(payments'[request[r].order])
         /\ request[r].target = "PAID" =>
              orders'[request[r].order] \in Outcomes("succeeded")
<1>1. /\ request[r] \in PaymentRequest
      /\ request[r].pc = "publish"
      /\ request[r].order \in Orders
  BY RequestKinds DEF PublishPaymentUpdate, PaymentRequest
<1>2. /\ request[r].target = OrderStatusFor(request[r].status)
      /\ payments[request[r].order] = request[r].status
  BY <1>1 DEF MoneyInv, WebhookInv, WebhookOK
<1>3. UNCHANGED <<orders, payments>>
  BY DEF PublishPaymentUpdate, store
<1>4. QED
  BY <1>1, <1>2, <1>3 DEF EventInv, PublisherOK, Outcomes

\* Every step keeps EventInv.
LEMMA EventStep ==
  ASSUME TypeOK, TransitionInv, MoneyInv, UpdaterInv, EventInv, [Next]_vars
  PROVE  EventInv'
<1>0. SUFFICES ASSUME NEW o \in Orders, NEW i \in PaymentUpdates(o)'
               PROVE  /\ topic'[o][i].status = OrderStatusFor(payments'[o])
                      /\ topic'[o][i].status = "PAID" =>
                           orders'[o] \in Outcomes("succeeded")
  BY PublishersStep DEF EventInv, EventsAreTrue, Outcomes, OrderStatusFor
<1>1. CASE UNCHANGED topic
  <2>1. i \in PaymentUpdates(o)
    BY <1>1 DEF PaymentUpdates
  <2>2. QED
    BY <1>1, <2>1, EventsStay
<1>2. ASSUME NEW p \in Orders, Publish(p, "OrderCreated", "PENDING_PAYMENT")
      PROVE  i \in PaymentUpdates(o) /\ topic'[o][i] = topic[o][i]
  <2>1. i \in PaymentUpdates(o)
    BY <1>2, PublishUpdates
  <2>2. QED
    BY <1>2, <2>1, PublishAppends
<1>3. ASSUME NEW r \in Requests, PublishPaymentUpdate(r),
             Publish(request[r].order, "OrderPaymentUpdated", request[r].target)
      PROVE  /\ topic'[o][i].status = OrderStatusFor(payments'[o])
             /\ topic'[o][i].status = "PAID" => orders'[o] \in Outcomes("succeeded")
  <2>1. request[r].order \in Orders
    BY <1>3, EventIsTrue
  <2>2. CASE i \in PaymentUpdates(o)
    <3>1. topic'[o][i] = topic[o][i]
      BY <1>3, <2>1, <2>2, PublishAppends
    <3>2. QED
      BY <2>2, <3>1, EventsStay
  <2>3. CASE i \notin PaymentUpdates(o)
    <3>1. o = request[r].order /\ i = Len(topic[o]) + 1
      BY <1>0, <1>3, <2>1, <2>3, PublishUpdates
    <3>2. topic'[o][i] = [type |-> "OrderPaymentUpdated", status |-> request[r].target]
      BY <1>3, <2>1, <3>1, PublishAppends
    <3>3. topic'[o][i].status = request[r].target
      BY <3>2
    <3>4. QED
      BY <1>3, <3>1, <3>3, EventIsTrue
  <2>4. QED
    BY <2>2, <2>3
<1>4. \/ UNCHANGED topic
      \/ \E p \in Orders : Publish(p, "OrderCreated", "PENDING_PAYMENT")
      \/ \E r \in Requests :
           /\ PublishPaymentUpdate(r)
           /\ Publish(request[r].order, "OrderPaymentUpdated", request[r].target)
  <2>1. ASSUME NEW p \in Orders, Create(p)
        PROVE  UNCHANGED topic \/ Publish(p, "OrderCreated", "PENDING_PAYMENT")
    BY <2>1 DEF Create, InsertOrder, ChargeOrder, RecordPayment, LinkPayment,
                AnnounceOrder
  <2>2. ASSUME NEW r \in Requests, Process(r)
        PROVE  \/ UNCHANGED topic
               \/ /\ PublishPaymentUpdate(r)
                  /\ Publish(request[r].order, "OrderPaymentUpdated", request[r].target)
    <3>1. CASE PublishPaymentUpdate(r)
      BY <3>1 DEF PublishPaymentUpdate
    <3>2. CASE UpdateStatusAndGet(r) \/ ReadOrder(r) \/ UpdateStatus(r)
      BY <3>2 DEF UpdateStatusAndGet, ReadOrder, UpdateStatus
    <3>3. QED
      BY <2>2, <3>1, <3>2 DEF Process
  <2>3. QED
    BY <2>1, <2>2
    DEF Next, vars, Pay, Abandon, DeliverWebhook, ManualStatusUpdate, ReadPayment,
        CallUpdateOrderStatus, Restart
<1>5. QED
  BY <1>1, <1>2, <1>3, <1>4, EventsStay

\* With truthful administrators, what is published about a payment is what its
\* row holds from then on, and an order announced as paid is paid, shipped or
\* cancelled, however many requests, faults and restarts come between the updates
\* and the event.
THEOREM EventsStayTrue ==
  ASSUME AdminReports # "anything"
  PROVE  Spec => []EventsAreTrue
<1>1. Init => UpdaterInv /\ EventInv
  BY IdleIsNoRequest DEF Init, UpdaterInv, Updates, PaymentUpdates, EventInv,
                         PublisherOK, EventsAreTrue, Idle
<1>2. TypeOK /\ TransitionInv /\ MoneyInv /\ UpdaterInv /\ EventInv /\ [Next]_vars =>
        UpdaterInv' /\ EventInv'
  BY UpdaterStep, EventStep
<1>3. EventInv => EventsAreTrue
  BY DEF EventInv
<1>4. QED
  BY <1>1, <1>2, <1>3, MoneyCorrect, PTL DEF Spec

-----------------------------------------------------------------------------
(* The service implements PaymentLifecycle.                                *)

\* The instance reads the same status machines.
LEMMA SameModels ==
  /\ Lifecycle!FinalStatuses = FinalStatuses
  /\ Lifecycle!OrderStatuses = OrderStatuses
  /\ \A from, to : Lifecycle!ValidTransition(from, to) <=> ValidTransition(from, to)
  /\ \A from, to : Lifecycle!ValidPaymentTransition(from, to)
                    <=> ValidPaymentTransition(from, to)
  /\ \A status : Lifecycle!OrderStatusFor(status) = OrderStatusFor(status)
BY DEF Lifecycle!FinalStatuses, FinalStatuses, Lifecycle!OrderStatuses, OrderStatuses,
       Lifecycle!ValidTransition, ValidTransition, Lifecycle!validTransitions,
       validTransitions, Lifecycle!ValidPaymentTransition, ValidPaymentTransition,
       Lifecycle!OrderStatusFor, OrderStatusFor

\* A step of CreateOrder is Place, Open, Record or a stutter.
LEMMA CreateRefines ==
  ASSUME TypeOK, TransitionInv, MoneyInv, NEW o \in Orders, Create(o)
  PROVE  [Lifecycle!Next]_(Lifecycle!vars)
<1> USE DEF Lifecycle!Next, Lifecycle!vars
<1>1. CASE InsertOrder(o)
  <2>1. Lifecycle!Place(o) \/ UNCHANGED Lifecycle!vars
    BY <1>1 DEF InsertOrder, TransitionInv, Lifecycle!Place
  <2>2. QED
    BY <2>1
<1>2. CASE ChargeOrder(o)
  <2>1. orders[o] # "none" /\ provider[o] = "none"
    BY <1>2 DEF ChargeOrder, MoneyInv, CreateInv
  <2>2. Lifecycle!Open(o) \/ UNCHANGED Lifecycle!vars
    BY <1>2, <2>1 DEF ChargeOrder, store, Lifecycle!Open
  <2>3. QED
    BY <2>2
<1>3. CASE RecordPayment(o)
  <2>1. provider[o] # "none" /\ payments[o] = "none"
    BY <1>3 DEF RecordPayment, MoneyInv, CreateInv
  <2>2. Lifecycle!Record(o) \/ UNCHANGED Lifecycle!vars
    BY <1>3, <2>1 DEF RecordPayment, Lifecycle!Record
  <2>3. QED
    BY <2>2
<1>4. CASE LinkPayment(o) \/ AnnounceOrder(o)
  BY <1>4 DEF LinkPayment, AnnounceOrder, store
<1>5. QED
  BY <1>1, <1>2, <1>3, <1>4 DEF Create

\* A step of a request is Settle, Move or a stutter.
LEMMA ProcessRefines ==
  ASSUME TypeOK, TransitionInv, MoneyInv, NEW r \in Requests, Process(r)
  PROVE  [Lifecycle!Next]_(Lifecycle!vars)
<1> USE DEF Lifecycle!Next, Lifecycle!vars
<1> DEFINE q == request[r]
<1>1. CASE UpdateStatusAndGet(r)
  <2>1. /\ q \in PaymentRequest
        /\ q.order \in Orders
        /\ q.status \in FinalStatuses
    BY <1>1, RequestKinds DEF UpdateStatusAndGet, PaymentRequest
  <2>2. provider[q.order] = q.status
    BY <2>1 DEF MoneyInv, WebhookInv, WebhookOK
  <2>3. CASE UNCHANGED payments
    BY <1>1, <2>3 DEF UpdateStatusAndGet
  <2>4. CASE ~UNCHANGED payments
    <3>1. /\ payments[q.order] \notin {"none", q.status}
          /\ payments' = [payments EXCEPT ![q.order] = q.status]
          /\ UNCHANGED <<orders, provider>>
      BY <1>1, <2>4 DEF UpdateStatusAndGet, PaymentRowMoves
    <3>2. payments[q.order] = "pending"
      BY <2>1, <2>2, <3>1
      DEF TypeOK, PaymentStatuses, MoneyInv, PaymentMirrorsProvider, FinalStatuses
    <3>3. Lifecycle!ValidPaymentTransition(payments[q.order], provider[q.order])
      BY <2>1, <2>2, <3>2, SameModels DEF ValidPaymentTransition
    <3>4. Lifecycle!Settle(q.order)
      BY <2>2, <3>1, <3>3 DEF Lifecycle!Settle
    <3>5. QED
      BY <2>1, <3>4
  <2>5. QED
    BY <2>3, <2>4
<1>2. CASE UpdateStatus(r)
  <2>1. /\ q \in PaymentRequest \union RpcRequest
        /\ q.order \in Orders
        /\ q.target \in OrderStatuses
        /\ q.pc = "cas"
    BY <1>2, RequestKinds DEF UpdateStatus, PaymentRequest, RpcRequest
  <2>2. CASE UNCHANGED orders
    BY <1>2, <2>2 DEF UpdateStatus
  <2>3. CASE ~UNCHANGED orders
    <3>1. /\ orders[q.order] = q.seen
          /\ orders' = [orders EXCEPT ![q.order] = q.target]
          /\ UNCHANGED <<payments, provider>>
      BY <1>2, <2>3 DEF UpdateStatus, OrderRowMoves
    <3>2. ValidTransition(orders[q.order], q.target)
      BY <2>1, <3>1 DEF TransitionInv
    <3>3. \/ payments[q.order] \in FinalStatuses /\ q.target = OrderStatusFor(payments[q.order])
          \/ q.target \in RpcTargets
      <4>1. CASE q \in PaymentRequest
        <5>1. /\ q.pc # "settle" => payments[q.order] = q.status
              /\ q.target = OrderStatusFor(q.status)
          BY <4>1 DEF MoneyInv, WebhookInv, WebhookOK
        <5>2. q.status \in FinalStatuses
          BY <4>1 DEF PaymentRequest
        <5>3. QED
          BY <2>1, <5>1, <5>2
      <4>2. CASE q \in RpcRequest
        BY <4>2 DEF MoneyInv, WebhookInv, WebhookOK
      <4>3. QED
        BY <2>1, <4>1, <4>2
    <3>4. Lifecycle!Move(q.order, q.target)
      BY <3>1, <3>2, <3>3, SameModels DEF Lifecycle!Move
    <3>5. QED
      BY <2>1, <3>4, SameModels
  <2>4. QED
    BY <2>2, <2>3
<1>3. CASE ReadOrder(r) \/ PublishPaymentUpdate(r)
  BY <1>3 DEF ReadOrder, PublishPaymentUpdate, store
<1>4. QED
  BY <1>1, <1>2, <1>3 DEF Process

\* With truthful administrators, every step is one of the lifecycle or a stutter.
LEMMA StepRefines ==
  ASSUME AdminReports # "anything", TypeOK, TransitionInv, MoneyInv, [Next]_vars
  PROVE  [Lifecycle!Next]_(Lifecycle!vars)
<1>1. ASSUME NEW o \in Orders, Pay(o) \/ Abandon(o)
      PROVE  [Lifecycle!Next]_(Lifecycle!vars)
  <2>1. Lifecycle!Decide(o, "succeeded") \/ Lifecycle!Decide(o, "canceled")
    BY <1>1 DEF Pay, Abandon, store, Lifecycle!Decide
  <2>2. QED
    BY <2>1, SameModels DEF Lifecycle!Next, FinalStatuses
<1>2. CASE UNCHANGED <<orders, payments, provider>>
  BY <1>2 DEF Lifecycle!vars
<1>3. ASSUME NEW r \in Requests, NEW o \in Orders,
             \/ DeliverWebhook(r, o)
             \/ \E status \in FinalStatuses : ManualStatusUpdate(r, o, status)
             \/ \E target \in RpcTargets : CallUpdateOrderStatus(r, o, target)
      PROVE  UNCHANGED <<orders, payments, provider>>
  BY <1>3 DEF DeliverWebhook, ManualStatusUpdate, ReadPayment, CallUpdateOrderStatus,
              store
<1>4. CASE Restart \/ UNCHANGED vars
  BY <1>4, <1>2 DEF Restart, vars, store
<1>5. QED
  BY <1>1, <1>2, <1>3, <1>4, CreateRefines, ProcessRefines
  DEF Next

\* With truthful administrators, every behaviour of the service, with its concurrent
\* requests, faults and restarts, is one of the atomic PaymentLifecycle.
THEOREM ServiceImplementsLifecycle ==
  ASSUME AdminReports # "anything"
  PROVE  Spec => ImplementsLifecycle
<1>1. Init => Lifecycle!Init
  BY DEF Init, Lifecycle!Init
<1>2. TypeOK /\ TransitionInv /\ MoneyInv /\ [Next]_vars =>
        [Lifecycle!Next]_(Lifecycle!vars)
  BY StepRefines
<1>3. QED
  BY <1>1, <1>2, MoneyCorrect, PTL DEF Spec, ImplementsLifecycle, Lifecycle!Spec

-----------------------------------------------------------------------------
(* What PaymentLifecycle promises.                                         *)

LifecycleTypes ==
  /\ orders \in [Orders -> OrderStatuses \union {"none"}]
  /\ payments \in [Orders -> PaymentStatuses \union {"none"}]
  /\ provider \in [Orders -> PaymentStatuses \union {"none"}]

\* A payment row that has reached a final status is what the provider decided.
Mirrors ==
  \A o \in Orders : payments[o] \in FinalStatuses => payments[o] = provider[o]

\* An order is paid, or shipped, on the strength of a succeeded payment row.
PaidInv ==
  \A o \in Orders : orders[o] \in {"PAID", "SHIPPED"} => payments[o] = "succeeded"

LifecycleInv == LifecycleTypes /\ Mirrors /\ PaidInv

\* One step of the abstract lifecycle keeps its invariant: an order becomes PAID by
\* taking over a succeeded row, since nobody else asks for PAID, and SHIPPED only
\* from PAID.
LEMMA LifecycleStep ==
  ASSUME "PAID" \notin RpcTargets, LifecycleInv, [Lifecycle!Next]_(Lifecycle!vars)
  PROVE  LifecycleInv'
<1> USE DEF LifecycleInv
<1>1. CASE UNCHANGED Lifecycle!vars
  BY <1>1 DEF Lifecycle!vars, LifecycleTypes, Mirrors, PaidInv
<1>2. ASSUME NEW o \in Orders, Lifecycle!Place(o)
      PROVE  LifecycleInv'
  BY <1>2 DEF Lifecycle!Place, LifecycleTypes, Mirrors, PaidInv, OrderStatuses
<1>3. ASSUME NEW o \in Orders, Lifecycle!Open(o)
      PROVE  LifecycleInv'
  BY <1>3 DEF Lifecycle!Open, LifecycleTypes, Mirrors, PaidInv, PaymentStatuses, FinalStatuses
<1>4. ASSUME NEW o \in Orders, Lifecycle!Record(o)
      PROVE  LifecycleInv'
  BY <1>4 DEF Lifecycle!Record, LifecycleTypes, Mirrors, PaidInv, PaymentStatuses, FinalStatuses
<1>5. ASSUME NEW o \in Orders, NEW status \in FinalStatuses, Lifecycle!Decide(o, status)
      PROVE  LifecycleInv'
  BY <1>5 DEF Lifecycle!Decide, LifecycleTypes, Mirrors, PaidInv, PaymentStatuses,
              FinalStatuses
<1>6. ASSUME NEW o \in Orders, Lifecycle!Settle(o)
      PROVE  LifecycleInv'
  BY <1>6, SameModels DEF Lifecycle!Settle, ValidPaymentTransition, LifecycleTypes, Mirrors,
                          PaidInv, PaymentStatuses, FinalStatuses
<1>7. ASSUME NEW o \in Orders, NEW status \in OrderStatuses, Lifecycle!Move(o, status)
      PROVE  LifecycleInv'
  <2>1. /\ ValidTransition(orders[o], status)
        /\ status \in RpcTargets \/ status = OrderStatusFor(payments[o])
        /\ orders' = [orders EXCEPT ![o] = status]
        /\ UNCHANGED <<payments, provider>>
    BY <1>7, SameModels DEF Lifecycle!Move
  <2>2. LifecycleTypes' /\ Mirrors'
    BY <2>1 DEF LifecycleTypes, Mirrors
  <2>3. status = "PAID" => payments[o] = "succeeded"
    BY <2>1 DEF OrderStatusFor
  <2>4. status = "SHIPPED" => orders[o] = "PAID"
    BY <2>1 DEF ValidTransition, validTransitions
  <2>5. PaidInv'
    BY <2>1, <2>3, <2>4 DEF LifecycleTypes, PaidInv
  <2>6. QED
    BY <2>2, <2>5
<1>8. QED
  BY <1>1, <1>2, <1>3, <1>4, <1>5, <1>6, <1>7, SameModels DEF Lifecycle!Next

\* In the abstract lifecycle an order is paid or shipped only with the money
\* captured, if no status is set to PAID from outside the payment flow (Move, of
\* ProcessWebhook and UpdateOrderStatus in order_service.go).
THEOREM PaidIsCaptured ==
  ASSUME "PAID" \notin RpcTargets
  PROVE  Lifecycle!Spec => []PaidOnlyIfCaptured
<1>1. Lifecycle!Init => LifecycleInv
  BY DEF Lifecycle!Init, LifecycleInv, LifecycleTypes, Mirrors, PaidInv, FinalStatuses
<1>2. LifecycleInv /\ [Lifecycle!Next]_(Lifecycle!vars) => LifecycleInv'
  BY LifecycleStep
<1>3. LifecycleInv => PaidOnlyIfCaptured
  BY DEF LifecycleInv, Mirrors, PaidInv, FinalStatuses, PaidOnlyIfCaptured, Shippable
<1>4. QED
  BY <1>1, <1>2, <1>3, PTL DEF Lifecycle!Spec

\* No order is PAID or SHIPPED without its payment captured, for an installation whose
\* administrators report only what the provider decided and whose internal callers do
\* not set PAID.
THEOREM PaidOrdersAreCaptured ==
  ASSUME AdminReports # "anything", "PAID" \notin RpcTargets
  PROVE  Spec => []PaidOnlyIfCaptured
BY PaidIsCaptured, ServiceImplementsLifecycle, PTL DEF ImplementsLifecycle

-----------------------------------------------------------------------------
(* Outcomes that have been acknowledged are applied.                       *)

\* What has to get through: a row that a webhook has moved is taken over by the order
\* (no restart and no error in between), nobody reports another outcome, and internal
\* callers only ship and cancel.
OutcomesGetThrough ==
  /\ AdminReports # "anything"
  /\ RpcTargets \subseteq {"SHIPPED", "CANCELLED"}
  /\ ~Crashes
  /\ {"readOrder", "cas"} \intersect Failing = {}
  /\ "settle" \notin Losing

\* The order has the outcome of its payment row.
Applied(o) == orders[o] \in Outcomes(payments[o])

\* An order is moved by its payment's outcome, or cancelled, and by nothing else.
InStep ==
  \A o \in Orders :
    /\ provider[o] # "none" => orders[o] # "none"
    /\ payments[o] # "none" => provider[o] # "none"
    /\ \/ orders[o] \in {"none", "PENDING_PAYMENT", "CANCELLED"}
       \/ payments[o] \in FinalStatuses /\ Applied(o)

\* r is on its way to move the order whose row it has moved.
Applies(r, o) == Updates(r, o) /\ request[r].pc \in {"readOrder", "cas"}

\* An outcome that the row has is applied or about to be, and nothing but such an
\* outcome has been answered with a 200.
AppliedInv ==
  \A o \in Orders :
    /\ acked[o] => payments[o] \in FinalStatuses
    /\ payments[o] \in FinalStatuses => Applied(o) \/ \E r \in Requests : Applies(r, o)

\* What a step of the lifecycle does to an order whose payment has an outcome.
LEMMA InStepStays ==
  ASSUME RpcTargets \subseteq {"SHIPPED", "CANCELLED"}, TypeOK, InStep,
         [Lifecycle!Next]_(Lifecycle!vars)
  PROVE  /\ InStep'
         /\ \A o \in Orders : payments[o] \in FinalStatuses =>
              payments'[o] = payments[o] /\ (Applied(o) => Applied(o)')
<1> DEFINE Goal == /\ InStep'
                   /\ \A o \in Orders : payments[o] \in FinalStatuses =>
                        payments'[o] = payments[o] /\ (Applied(o) => Applied(o)')
<1>t. /\ orders \in [Orders -> OrderStatuses \union {"none"}]
      /\ payments \in [Orders -> PaymentStatuses \union {"none"}]
      /\ provider \in [Orders -> PaymentStatuses \union {"none"}]
  BY DEF TypeOK
<1>1. CASE UNCHANGED Lifecycle!vars
  BY <1>1 DEF Lifecycle!vars, InStep, Applied
<1>2. ASSUME NEW o \in Orders, Lifecycle!Place(o)
      PROVE  Goal
  BY <1>2, <1>t DEF Lifecycle!Place, InStep, Applied, Outcomes
<1>3. ASSUME NEW o \in Orders, Lifecycle!Open(o)
      PROVE  Goal
  BY <1>3, <1>t DEF Lifecycle!Open, InStep, Applied
<1>4. ASSUME NEW o \in Orders, Lifecycle!Record(o)
      PROVE  Goal
  BY <1>4, <1>t DEF Lifecycle!Record, InStep, Applied, FinalStatuses
<1>5. ASSUME NEW o \in Orders, NEW status \in FinalStatuses, Lifecycle!Decide(o, status)
      PROVE  Goal
  BY <1>5, <1>t DEF Lifecycle!Decide, InStep, Applied, FinalStatuses
<1>6. ASSUME NEW o \in Orders, Lifecycle!Settle(o)
      PROVE  Goal
  BY <1>6, <1>t, SameModels
  DEF Lifecycle!Settle, ValidPaymentTransition, InStep, Applied, FinalStatuses
<1>7. ASSUME NEW o \in Orders, NEW status \in OrderStatuses, Lifecycle!Move(o, status)
      PROVE  Goal
  <2>1. /\ ValidTransition(orders[o], status)
        /\ \/ payments[o] \in FinalStatuses /\ status = OrderStatusFor(payments[o])
           \/ status \in {"SHIPPED", "CANCELLED"}
        /\ orders' = [orders EXCEPT ![o] = status]
        /\ UNCHANGED <<payments, provider>>
    BY <1>7, SameModels DEF Lifecycle!Move
  <2>2. payments[o] \in FinalStatuses /\ Applied(o) => status \in Outcomes(payments[o])
    BY <2>1 DEF Applied, Outcomes, ValidTransition, validTransitions, FinalStatuses,
                OrderStatusFor
  <2>3. \/ status = "CANCELLED"
        \/ payments[o] \in FinalStatuses /\ status \in Outcomes(payments[o])
    BY <2>1, <2>2 DEF InStep, Outcomes, OrderStatusFor, FinalStatuses, ValidTransition,
                      validTransitions
  <2>4. status # "none"
    BY DEF OrderStatuses
  <2>5. QED
    BY <2>1, <2>2, <2>3, <2>4, <1>t DEF InStep, Applied
<1>8. QED
  BY <1>1, <1>2, <1>3, <1>4, <1>5, <1>6, <1>7, SameModels DEF Lifecycle!Next

\* The request that has moved a row, reads the order and compares and sets: its order
\* has the outcome in the end, by itself or because it was cancelled.
LEMMA AppliesOn ==
  ASSUME OutcomesGetThrough, TypeOK, TransitionInv, MoneyInv, InStep,
         NEW r \in Requests, NEW o \in Orders, Applies(r, o), payments[o] \in FinalStatuses,
         Process(r)
  PROVE  Applied(o) \/ Applied(o)' \/ Applies(r, o)'
<1>1. PICK q \in PaymentRequest : q = request[r]
  BY DEF Applies, Updates
<1>2. /\ q.order = o /\ q.status = payments[o] /\ q.target = OrderStatusFor(payments[o])
      /\ q.pc \in {"readOrder", "cas"}
  BY <1>1 DEF Applies, Updates, MoneyInv, WebhookInv, WebhookOK
<1>3. payments[o] # "none" /\ (orders[o] \in {"PENDING_PAYMENT", "CANCELLED"} \/ Applied(o))
  BY DEF InStep, FinalStatuses
<1>4. orders[o] = "CANCELLED" => Applied(o)
  BY DEF Applied, Outcomes
<1>5. CASE ReadOrder(r)
  <2>1. \/ Continue(r, [q EXCEPT !.pc = "cas", !.seen = orders[o]])
        \/ ~ValidTransition(orders[o], q.target)
    BY <1>1, <1>2, <1>5 DEF ReadOrder, Ends, OutcomesGetThrough
  <2>2. orders[o] = "PENDING_PAYMENT" => ValidTransition(orders[o], q.target)
    BY <1>2 DEF ValidTransition, validTransitions, OrderStatusFor
  <2>3. CASE Continue(r, [q EXCEPT !.pc = "cas", !.seen = orders[o]])
    <3>1. request'[r] = [q EXCEPT !.pc = "cas", !.seen = orders[o]]
      BY <2>3, ContinueRequests
    <3>2. orders[o] \in OrderStatuses \union {"none"}
      BY DEF TypeOK
    <3>3. /\ [q EXCEPT !.pc = "cas", !.seen = orders[o]] \in PaymentRequest
          /\ [q EXCEPT !.pc = "cas", !.seen = orders[o]].pc = "cas"
          /\ [q EXCEPT !.pc = "cas", !.seen = orders[o]].order = o
      BY <1>2, <3>2 DEF PaymentRequest
    <3>4. QED
      BY <3>1, <3>3 DEF Applies, Updates
  <2>4. QED
    BY <1>3, <1>4, <2>1, <2>2, <2>3
<1>6. CASE UpdateStatus(r)
  <2>1. PICK result \in Results :
          /\ Ends("cas", result)
          /\ orders' = IF result = "error" \/ ~OrderRowMoves(o, q.seen) THEN orders
                       ELSE [orders EXCEPT ![o] = q.target]
          /\ payments' = payments
    BY <1>1, <1>2, <1>6 DEF UpdateStatus
  <2>2. result # "error"
    BY <2>1 DEF Ends, OutcomesGetThrough
  <2>3. CASE OrderRowMoves(o, q.seen)
    <3>1. orders'[o] = OrderStatusFor(payments[o])
      BY <1>2, <2>1, <2>2, <2>3 DEF TypeOK
    <3>2. OrderStatusFor(payments[o]) \in Outcomes(payments[o])
      BY DEF OrderStatusFor, Outcomes
    <3>3. QED
      BY <2>1, <3>1, <3>2 DEF Applied
  <2>4. CASE ~OrderRowMoves(o, q.seen)
    <3>1. ValidTransition(q.seen, q.target)
      BY <1>1, <1>6 DEF UpdateStatus, TransitionInv
    <3>2. q.seen = "PENDING_PAYMENT"
      BY <1>2, <3>1 DEF ValidTransition, validTransitions, OrderStatusFor
    <3>3. QED
      BY <1>3, <1>4, <2>4, <3>2 DEF OrderRowMoves
  <2>5. QED
    BY <2>3, <2>4
<1>7. QED
  BY <1>1, <1>2, <1>5, <1>6 DEF Process, UpdateStatusAndGet, PublishPaymentUpdate

\* A step without a restart moves one request at most.
LEMMA OthersWait ==
  ASSUME ~Crashes, TypeOK, [Next]_vars, NEW r \in Requests, request'[r] # request[r],
         request[r] # Idle
  PROVE  Process(r)
<1>1. ASSUME NEW s \in Requests, Process(s), s # r
      PROVE  request'[r] = request[r]
  BY <1>1, SettleRequests, ReadOrderRequests, UpdateStatusRequests, PublishRequests
  DEF Process
<1>2. ASSUME NEW s \in Requests, NEW o \in Orders,
             \/ \E kind \in {"webhook", "manual"}, status \in FinalStatuses :
                  ReadPayment(s, kind, o, status)
             \/ \E target \in RpcTargets : CallUpdateOrderStatus(s, o, target)
      PROVE  request'[r] = request[r]
  <2>1. request[s].pc = "idle"
    BY <1>2 DEF ReadPayment, CallUpdateOrderStatus
  <2>2. s # r
    BY <2>1 DEF TypeOK, RequestStates, PaymentRequest, RpcRequest
  <2>3. QED
    BY <1>2, <2>2, ReadPaymentRequests, CallRequests
<1>3. ASSUME NEW o \in Orders, Create(o) \/ Pay(o) \/ Abandon(o)
      PROVE  request' = request
  BY <1>3 DEF Create, InsertOrder, ChargeOrder, RecordPayment, LinkPayment, AnnounceOrder,
              Pay, Abandon
<1>4. QED
  BY <1>1, <1>2, <1>3, ReportReads DEF Next, vars, Restart

\* A webhook is answered with a 200 only when its payment row has an outcome.
LEMMA AckedIsFinal ==
  ASSUME AdminReports # "anything", TypeOK, MoneyInv, [Next]_vars,
         NEW o \in Orders, acked'[o], ~acked[o]
  PROVE  payments[o] \in FinalStatuses
<1>r. ASSUME NEW r \in Requests, NEW kind, NEW p, NEW success, Reply(r, kind, p, success)
      PROVE  kind = "webhook" /\ success /\ p = o
  BY <1>r DEF Reply, TypeOK
<1>1. ASSUME NEW r \in Requests, NEW kind, NEW p \in Orders, NEW status \in FinalStatuses,
             ReadPayment(r, kind, p, status)
      PROVE  payments[o] \in FinalStatuses
  <2>1. Reply(r, kind, p, TRUE) /\ payments[p] # "none"
           /\ ~ValidPaymentTransition(payments[p], status)
    BY <1>1, <1>r DEF ReadPayment, Continue
  <2>2. QED
    BY <2>1, <1>r DEF ValidPaymentTransition, TypeOK, PaymentStatuses, FinalStatuses
<1>2. ASSUME NEW r \in Requests, UpdateStatusAndGet(r)
      PROVE  payments[o] \in FinalStatuses
  <2>1. PICK q \in PaymentRequest : q = request[r]
    BY <1>2, RequestKinds DEF UpdateStatusAndGet
  <2>2. Reply(r, q.kind, q.order, TRUE) /\ ~PaymentRowMoves(q.order, q.status)
    BY <1>2, <1>r, <2>1 DEF UpdateStatusAndGet, Continue
  <2>3. payments[q.order] # "none" /\ q.status \in FinalStatuses
    BY <2>1 DEF MoneyInv, WebhookInv, WebhookOK, PaymentRequest
  <2>4. q.order = o
    BY <2>2 DEF Reply, TypeOK
  <2>5. QED
    BY <2>2, <2>3, <2>4 DEF PaymentRowMoves
<1>3. ASSUME NEW r \in Requests, PublishPaymentUpdate(r)
      PROVE  payments[o] \in FinalStatuses
  <2>1. PICK q \in PaymentRequest : q = request[r] /\ q.pc = "publish"
    BY <1>3, RequestKinds DEF PublishPaymentUpdate
  <2>2. q.order = o
    BY <1>3, <1>r, <2>1 DEF PublishPaymentUpdate
  <2>3. payments[q.order] = q.status /\ q.status \in FinalStatuses
    BY <2>1 DEF MoneyInv, WebhookInv, WebhookOK, PaymentRequest
  <2>4. QED
    BY <2>2, <2>3
<1>4. ASSUME NEW r \in Requests, ReadOrder(r) \/ UpdateStatus(r)
      PROVE  FALSE
  <2>1. \/ Reply(r, request[r].kind, request[r].order, FALSE)
        \/ UNCHANGED acked
        \/ request[r].kind = "rpc" /\ Reply(r, request[r].kind, request[r].order, TRUE)
    BY <1>4 DEF ReadOrder, UpdateStatus, Refuse, Continue
  <2>2. ~Reply(r, request[r].kind, request[r].order, FALSE)
    BY DEF Reply
  <2>3. request[r].kind = "rpc" => ~Reply(r, request[r].kind, request[r].order, TRUE)
    BY DEF Reply
  <2>4. QED
    BY <2>1, <2>2, <2>3
<1>5. UNCHANGED acked => FALSE
  OBVIOUS
<1>6. ASSUME NEW r \in Requests, NEW p \in Orders,
             \/ DeliverWebhook(r, p)
             \/ \E status \in FinalStatuses : ManualStatusUpdate(r, p, status)
      PROVE  payments[o] \in FinalStatuses
  BY <1>1, <1>6, ReportReads
<1>7. QED
  BY <1>2, <1>3, <1>4, <1>5, <1>6
  DEF Next, Process, vars, Create, InsertOrder, ChargeOrder, RecordPayment, LinkPayment,
      AnnounceOrder, Pay, Abandon, CallUpdateOrderStatus, Continue, Restart

\* The webhook or the administrator that moves a row goes on to move its order.
LEMMA MovesOn ==
  ASSUME OutcomesGetThrough, TypeOK, TransitionInv, MoneyInv, [Next]_vars,
         NEW o \in Orders, payments[o] \notin FinalStatuses, payments'[o] \in FinalStatuses
  PROVE  \E r \in Requests : Applies(r, o)'
<1>1. PICK r \in Requests : UpdateStatusAndGet(r)
  <2>1. ASSUME NEW p \in Orders, RecordPayment(p)
        PROVE  FALSE
    BY <2>1 DEF RecordPayment, TypeOK, FinalStatuses
  <2>2. UNCHANGED payments => FALSE
    OBVIOUS
  <2>3. QED
    BY <2>1, <2>2
    DEF Next, Process, vars, store, Create, InsertOrder, ChargeOrder, LinkPayment,
        AnnounceOrder, Pay, Abandon, DeliverWebhook, ManualStatusUpdate, ReadPayment,
        CallUpdateOrderStatus, ReadOrder, UpdateStatus, PublishPaymentUpdate, Restart
<1>2. PICK q \in PaymentRequest : q = request[r]
  BY <1>1, RequestKinds DEF UpdateStatusAndGet
<1>3. PICK result \in Results :
        /\ Ends("settle", result)
        /\ payments' = IF result = "error" \/ ~PaymentRowMoves(q.order, q.status)
                       THEN payments ELSE [payments EXCEPT ![q.order] = q.status]
        /\ IF result # "ok" THEN Reply(r, q.kind, q.order, FALSE)
           ELSE IF ~PaymentRowMoves(q.order, q.status) THEN Reply(r, q.kind, q.order, TRUE)
           ELSE Continue(r, [q EXCEPT !.pc = "readOrder"])
  BY <1>1, <1>2 DEF UpdateStatusAndGet
<1>4. result = "ok" /\ PaymentRowMoves(q.order, q.status) /\ q.order = o
  BY <1>3 DEF Ends, OutcomesGetThrough, TypeOK
<1>5. request'[r] = [q EXCEPT !.pc = "readOrder"]
  BY <1>3, <1>4, ContinueRequests
<1>6. /\ [q EXCEPT !.pc = "readOrder"] \in PaymentRequest
      /\ [q EXCEPT !.pc = "readOrder"].pc = "readOrder"
      /\ [q EXCEPT !.pc = "readOrder"].order = o
  BY <1>4 DEF PaymentRequest
<1>7. QED
  BY <1>5, <1>6 DEF Applies, Updates

\* Every step keeps AppliedInv.
LEMMA AppliedStep ==
  ASSUME OutcomesGetThrough, TypeOK, TransitionInv, MoneyInv, InStep, AppliedInv, [Next]_vars
  PROVE  InStep' /\ AppliedInv'
<1>1. /\ InStep'
      /\ \A o \in Orders : payments[o] \in FinalStatuses =>
           payments'[o] = payments[o] /\ (Applied(o) => Applied(o)')
  BY StepRefines, InStepStays DEF OutcomesGetThrough
<1>2. ASSUME NEW o \in Orders, acked'[o]
      PROVE  payments'[o] \in FinalStatuses
  BY <1>1, <1>2, AckedIsFinal DEF AppliedInv, OutcomesGetThrough
<1>3. ASSUME NEW o \in Orders, payments'[o] \in FinalStatuses
      PROVE  Applied(o)' \/ \E r \in Requests : Applies(r, o)'
  <2>1. CASE payments[o] \notin FinalStatuses
    BY <1>3, <2>1, MovesOn
  <2>2. CASE payments[o] \in FinalStatuses /\ Applied(o)
    BY <1>1, <2>2
  <2>3. ASSUME payments[o] \in FinalStatuses, NEW r \in Requests, Applies(r, o)
        PROVE  Applied(o)' \/ \E s \in Requests : Applies(s, o)'
    <3>1. request[r] # Idle
      BY <2>3, IdleIsNoRequest DEF Applies, Updates
    <3>2. CASE request'[r] = request[r]
      BY <2>3, <3>2 DEF Applies, Updates
    <3>3. CASE request'[r] # request[r]
      BY <1>1, <2>3, <3>1, <3>3, OthersWait, AppliesOn DEF OutcomesGetThrough
    <3>4. QED
      BY <3>2, <3>3
  <2>4. QED
    BY <2>1, <2>2, <2>3 DEF AppliedInv
<1>4. QED
  BY <1>1, <1>2, <1>3 DEF AppliedInv

\* Once a webhook has had its 200 and nobody is at work on the order, the order has the
\* outcome of its payment, whatever other calls fail or lose their answers, and
\* however webhooks, manual updates and RPCs overlap (ProcessWebhook of
\* order_service.go, UpdateStatusAndGet of payment_repository.go).
THEOREM AcknowledgedOutcomesAreApplied ==
  ASSUME OutcomesGetThrough
  PROVE  Spec => []AcknowledgedIsApplied
<1>1. Init => InStep /\ AppliedInv
  BY DEF Init, InStep, AppliedInv, FinalStatuses
<1>2. TypeOK /\ TransitionInv /\ MoneyInv /\ InStep /\ AppliedInv /\ [Next]_vars
        => (InStep /\ AppliedInv)'
  BY AppliedStep
<1>3. MoneyInv /\ AppliedInv => AcknowledgedIsApplied
  <2>1. ASSUME MoneyInv, AppliedInv, NEW o \in Orders, acked[o], Quiet(o)
        PROVE  orders[o] \in Outcomes(provider[o])
    <3>1. payments[o] \in FinalStatuses /\ payments[o] = provider[o]
      BY <2>1 DEF AppliedInv, MoneyInv, PaymentMirrorsProvider
    <3>2. \A r \in Requests : ~Applies(r, o)
      BY <2>1, IdleIsNoRequest DEF Quiet, Applies, Updates
    <3>3. QED
      BY <2>1, <3>1, <3>2 DEF AppliedInv, Applied
  <2>2. QED
    BY <2>1 DEF AcknowledgedIsApplied
<1>4. AdminReports # "anything"
  BY DEF OutcomesGetThrough
<1>5. QED
  BY <1>1, <1>2, <1>3, <1>4, MoneyCorrect, PTL DEF Spec
=============================================================================
