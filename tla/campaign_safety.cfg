CONSTANTS
  r1 = r1
  r2 = r2
  f1 = f1
  RunId = {r1, r2, f1}
  StepCount = 1
  Effect <- ReadOnly
  Reversible <- Nothing
  Declared <- Nothing
  Findings <- OneAssisted
  Verdicts <- Granted
  c1 = c1
  c2 = c2
  Client <- Clients
  Phases <- OneEach
  FollowUp = f1
  MaxOps = 4
SPECIFICATION CampaignSpec
INVARIANTS
  PhasesInOrder
  MirrorIsHonest
PROPERTIES
  TrailIsKept
  HaltHolds
SYMMETRY Symmetry
CHECK_DEADLOCK FALSE
