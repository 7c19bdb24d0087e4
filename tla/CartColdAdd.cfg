\* An addition while the cart is not cached, one call after the other.
SPECIFICATION Spec
CONSTANTS
  i1 = i1
  i2 = i2
  i3 = i3
  r1 = r1
  r2 = r2
  Items <- TwoItems
  Requests <- OneRequest
  MaxQuantity = 1
  Calls <- AddAndGet
  MaxCalls = 3
  MayExpire = FALSE
  Failing <- CacheWrite
  Losing <- None
  MaxFaults = 1
INVARIANTS
  AnswersAreComplete
\* The calls of a run come to an end.
CHECK_DEADLOCK FALSE
