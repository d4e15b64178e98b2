SPECIFICATION Spec
CONSTANTS
  host = host
  user = user
  k1 = k1
  k2 = k2
  Caller = {c1}
  Tenant = {t1, t2}
  Type = {host}
  Key = {k1, k2}
  Source = {s1, s2}
  KeyLists <- HostKeys
  Careful = TRUE
  MaxObjects = 3
  MaxWrites = 5
  MaxRelations = 1
SYMMETRY Symmetry
INVARIANTS
  
  
  HistoryIsFaithful
CHECK_DEADLOCK FALSE
