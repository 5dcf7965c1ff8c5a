CONSTANTS
  a = a
  b = b
  c1 = c1
  Ids <- TwoIds
  Callers <- OneCaller
  MaxRuns = 2
  MaxSteps = 1
  MaxFinished = 3
SPECIFICATION Spec
PROPERTY EvictsOnlyAboveTheCap
CHECK_DEADLOCK FALSE
