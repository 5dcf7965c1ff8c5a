CONSTANTS
  a = a
  b = b
  c1 = c1
  Ids <- TwoIds
  Callers <- OneCaller
  MaxRuns = 2
  MaxSteps = 2
  MaxFinished = 1
SPECIFICATION FairSpec
INVARIANTS
  TypeOK
  LiveRunsStayRegistered
  FinishedRunsBounded
PROPERTIES
  CancelStopsSteps
  CancelIsHonoured
  LifecycleSpec
CHECK_DEADLOCK FALSE
