\* The faults a repeated webhook makes good: the outcome still reaches the order.
SPECIFICATION FairSpec
CONSTANTS
  o1 = o1
  r1 = r1
  r2 = r2
  r3 = r3
  Orders <- OneOrder
  Requests <- TwoRequests
  AdminReports = "nothing"
  RpcTargets <- Fulfilment
  Failing <- ToleratedErrors
  Losing <- ToleratedLosses
  Crashes = FALSE
  MaxFaults = 3
INVARIANTS
  AcknowledgedIsApplied
PROPERTIES
  CapturedIsPaid
  AbandonedIsFailed
CHECK_DEADLOCK FALSE
