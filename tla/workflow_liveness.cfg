SPECIFICATION FairSpec
CONSTANTS
  r1 = r1
  c1 = c1
  c2 = c2
  RunId <- Runs
  Client <- Clients
  StepCount = 1
  Effect <- EffectReversible
  Reversible <- OnlyFirst
  Declared <- Nothing
  Findings <- NoFindings
  Verdicts <- Granted
  MaxCalls = 3
  MaxFaults = 1
PROPERTIES
  ImplementsLifecycle
  ExecuteNeverHangs
CHECK_DEADLOCK FALSE
