SPECIFICATION FairSpec
CONSTANTS
  local = local
  t1 = t1
  l1 = l1
  l2 = l2
  None = None
  Task = {w1, w2}
  Tenant = {local, t1}
  Lock = {l1, l2}
  LockOf <- OwnLocks
  Content = {x, y}
  Form = {"canonical"}
  PackageLists <- TwoPackages
  MaxCalls = 4
  MaxFaults = 1
INVARIANTS
  ChainsAreSound
PROPERTIES
  ImplementsLedger
  CallsEnd
CHECK_DEADLOCK FALSE
