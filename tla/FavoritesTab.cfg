\* Two requests at a time, with errors, lost answers, given up and late tries.
SPECIFICATION FairSpec
CONSTANTS
  u1 = u1
  u2 = u2
  s1 = s1
  s2 = s2
  r1 = r1
  r2 = r2
  NoToken = NoToken
  Users <- TwoUsers
  Sneakers <- TwoSneakers
  Catalogue <- OnlyOne
  Requests <- TwoRequests
  BatchLimit = 1
  Calls <- AllCalls
  MaxCalls = 3
  Tries = 2
  Failing <- AnyStep
  Losing <- Writes
  TimingOut <- Writes
  MaxFaults = 1
INVARIANTS
  TypeOK
  PageIsTrue
  OwnFavourites
PROPERTY
  LoadingEnds
CHECK_DEADLOCK FALSE
