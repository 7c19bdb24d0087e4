\* Two requests, expiry, and any two errors.
SPECIFICATION Spec
CONSTANTS
  r1 = r1
  r2 = r2
  blank = blank
  photo = photo
  Blank = blank
  Requests <- TwoRequests
  Images <- TwoImages
  MaxId = 3
  Pages <- SomePages
  Calls <- AllCalls
  MaxCalls = 6
  Failing <- AnyStep
  Losing <- AnyStep
  MaxFaults = 2
INVARIANTS
  TypeOK
  AnswersAreCurrent
\* The calls of a run come to an end.
CHECK_DEADLOCK FALSE
