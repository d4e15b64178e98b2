CONSTANTS
  c1 = c1
  c2 = c2
  k1 = k1
  k2 = k2
  o1 = o1
  o2 = o2
  t1 = t1
  null = null
  Client <- Clients
  Key <- Keys
  Id = {1, 2, 3}
  Evidence = {"e1"}
  Score = {1, 2}
  MaxOps = 4
  Session <- Clients
  Scope = {null, t1}
  Unscoped = null
  NaturalKey <- Keys
  Source <- Feeds
  Number = {1, 2}
  MaxTxs = 4
SPECIFICATION StoresSpec
INVARIANTS
  
  ResolvedIsInformed
  ScanIsComplete
  RowsLoseNothing
  KeysLeadHome
PROPERTY
  ImplementsLedger
SYMMETRY Symmetry
CHECK_DEADLOCK FALSE
