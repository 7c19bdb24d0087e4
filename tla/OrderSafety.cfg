\* One order, three concurrent requests, every fault and restarts; administrators
\* who report what the provider decided.
SPECIFICATION Spec
CONSTANTS
  o1 = o1
  r1 = r1
  r2 = r2
  r3 = r3
  Orders <- OneOrder
  Requests <- ThreeRequests
  AdminReports = "decision"
  RpcTargets <- Operations
  Failing <- AnyStep
  Losing <- AnyStep
  Crashes = TRUE
  MaxFaults = 4
SYMMETRY RequestSymmetry
INVARIANTS
  TypeOK
  PaidOnlyIfCaptured
  PaymentMirrorsProvider
  OnePaymentUpdate
  EventsAreTrue
PROPERTIES
  OrderFollowsTransitions
  ImplementsLifecycle
\* Every order may be settled and every request answered.
CHECK_DEADLOCK FALSE
