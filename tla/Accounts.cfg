\* Two people, two emails and two secrets, with restarts, errors and late tries.
SPECIFICATION Spec
CONSTANTS
  e1 = e1
  e2 = e2
  c1 = c1
  c2 = c2
  k1 = k1
  k2 = k2
  r1 = r1
  r2 = r2
  Emails <- TwoEmails
  Clients <- TwoClients
  Secrets <- TwoSecrets
  Requests <- TwoRequests
  Calls <- AllCalls
  MaxCalls = 3
  Tries = 2
  Failing <- AnyStep
  Losing <- AnyStep
  TimingOut <- AnyWrite
  MaxFaults = 2
SYMMETRY Symmetry
INVARIANTS
  TypeOK
  AccountsAreKept
  OwnDataOnly
  AdminsChange
  LoginsLast
CHECK_DEADLOCK FALSE
