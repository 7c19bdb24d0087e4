\* Two requests, expiry, and errors: any of them, but that of EXPIRE.
SPECIFICATION FairSpec
CONSTANTS
  s1 = s1
  s2 = s2
  r1 = r1
  r2 = r2
  Sneakers <- TwoSneakers
  Requests <- TwoRequests
  Calls <- AllCalls
  MaxCalls = 4
  MayExpire = TRUE
  Failing <- CoveredErrors
  Losing <- CoveredLosses
  MaxFaults = 1
INVARIANTS
  TypeOK
  AnswersAreComplete
  CachedIsBounded
PROPERTIES
  EventuallyCoherent
\* The calls of a run come to an end.
CHECK_DEADLOCK FALSE
