\* Overlapping calls, expiry, and errors that the service covers.
SPECIFICATION FairSpec
CONSTANTS
  i1 = i1
  i2 = i2
  i3 = i3
  r1 = r1
  r2 = r2
  Items <- TwoItems
  Requests <- TwoRequests
  MaxQuantity = 1
  Calls <- NoUpdates
  MaxCalls = 5
  MayExpire = TRUE
  Failing <- CoveredErrors
  Losing <- CoveredLosses
  MaxFaults = 2
INVARIANTS
  CachedIsBounded
PROPERTIES
  EventuallyCoherent
\* The calls of a run come to an end.
CHECK_DEADLOCK FALSE
