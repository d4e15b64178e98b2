SPECIFICATION Spec
CONSTANTS
  r1 = r1
  c1 = c1
  c2 = c2
  RunId <- Runs
  Client <- Clients
  StepCount = 2
  Effect <- EffectReadThenDestroy
  Reversible <- OnlySecond
  Declared <- Nothing
  Findings <- SomeFindings
  Verdicts <- AnyVerdict
  MaxCalls = 4
  MaxFaults = 0
SYMMETRY Symmetry
INVARIANTS
  EffectsAuthorized
  UndoneOnlyIfGranted
  AuditIsComplete
  SuccessesInOrder
  CompletedMeansAllSucceeded
PROPERTIES
  HistoryOnlyGrows
CHECK_DEADLOCK FALSE
