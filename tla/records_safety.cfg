CONSTANTS
  c1 = c1
  c2 = c2
  s1 = s1
  s2 = s2
  s3 = s3
  t1 = t1
  t2 = t2
  Nothing = Nothing
  Anyone = Anyone
  Operator <- Callers
  Clerk <- Callers
  Reviewer <- Callers
  Request <- Callers
  Record = {1, 2}
  Occurred <- Days
  Policies <- Retention
  Malformed = {2}
  MaxCalls = 3
  Asset = {1, 2, 3}
  Source = {s1, s2, s3}
  Rate <- Trust
  Reports <- Feed
  Classes = {"z"}
  PageSize = 1
  PageBudget = 2
  MaxTasks = 4
  Access = {1, 2}
  Decisions = {"approved", "revoked"}
  MaxReviews = 4
  Tenant = {t1, t2}
  Email = {"a", "b"}
  Invites <- Given
  Documents <- Scans
  SessionTtl = 0
  MaxRequests = 3
  MaxTime = 1
  MaxRevokes = 1
SPECIFICATION Spec
INVARIANTS
  ChangesAreTraceable
  AbsenceIsNotRetirement
  RulingsAreHonoured
  TenantsHoldTheirOwn
  WritesWereConsented
  

  
  
SYMMETRY Symmetry
CHECK_DEADLOCK FALSE
