\* A restart between the payment row and the order loses the outcome.
SPECIFICATION Spec
CONSTANTS
  o1 = o1
  r1 = r1
  r2 = r2
  r3 = r3
  Orders <- OneOrder
  Requests <- TwoRequests
  AdminReports = "nothing"
  RpcTargets <- None
  Failing <- None
  Losing <- None
  Crashes = TRUE
  MaxFaults = 1
INVARIANTS
  AcknowledgedIsApplied
CHECK_DEADLOCK FALSE
