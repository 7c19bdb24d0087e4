\* Two clicks of a tab at a time, with an error, or a try given up or late.
SPECIFICATION FairSpec
CONSTANTS
  t1 = t1
  s1 = s1
  s2 = s2
  r1 = r1
  r2 = r2
  Tabs <- OneTab
  Sneakers <- TwoSneakers
  Requests <- TwoRequests
  Calls <- AllCalls
  MaxCalls = 3
  Clicks <- Numbered
  MaxRows = 2
  MaxQuantity = 2
  OrderLimit = 1
  Tries = 2
  Failing <- AnyStep
  Losing <- Writes
  TimingOut <- Writes
  MaxFaults = 1
INVARIANTS
  TypeOK
  AnOrderPerTry
  TabShowsCart
  OnlyOrderedIsCleared
PROPERTIES
  ImplementsPurchases
  OrderButtonReturns
CHECK_DEADLOCK FALSE
