CONSTANTS
  a = a
  b = b
  c1 = c1
  k1 = k1
  Ids <- TwoIds
  SweepId = a
  Callers <- OneCaller
  Cancellers <- OneCanceller
  Combinations = 2
  MaxRuns = 2
  MaxSteps = 1
  MaxFinished = 1
SPECIFICATION FairSweepSpec
INVARIANTS
  SweepTypeOK
  NoRunLeftBehind
  ResultsAreTheRuns
  CancelAnswersOutcome
PROPERTIES
  CancelSweepReturns
CHECK_DEADLOCK FALSE
