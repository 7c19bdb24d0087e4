\* One call after the other, the key never expiring.
SPECIFICATION Spec
CONSTANTS
  i1 = i1
  i2 = i2
  i3 = i3
  r1 = r1
  r2 = r2
  Items <- ThreeItems
  Requests <- OneRequest
  MaxQuantity = 2
  Calls <- AllCalls
  MaxCalls = 7
  MayExpire = FALSE
  Failing <- ReadErrors
  Losing <- None
  MaxFaults = 2
INVARIANTS
  TypeOK
  AnswersAreComplete
\* The calls of a run come to an end.
CHECK_DEADLOCK FALSE
