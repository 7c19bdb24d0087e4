\* Two instances, two URLs, a shop with subscriptions of its own, every error.
SPECIFICATION Spec
CONSTANTS
  p1 = p1
  p2 = p2
  u1 = u1
  u2 = u2
  noUrl = noUrl
  w1 = w1
  w2 = w2
  w3 = w3
  w4 = w4
  Instances <- TwoInstances
  Urls <- TwoUrls
  NoUrl = noUrl
  OtherEvents <- Refunds
  Ids <- FourIds
  MaxStarts = 3
  Failing <- AnyStep
  Losing <- AnyStep
  MaxFaults = 1
SYMMETRY Symmetry
INVARIANTS
  TypeOK
  RegistrationIsComplete
  NoDuplicates
\* Every instance may be stopped.
CHECK_DEADLOCK FALSE
