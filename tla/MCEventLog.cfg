CONSTANTS
  MaxEvents = 4
  MaxRestarts = 1
  QueueSize = 2
  MaxClock = 2
  Retention = 0
SPECIFICATION LogSpec
INVARIANTS
  LogTypeOK
  DrainLosesNothing
  NewestEventsSurvive
PROPERTIES
  DrainTerminates
  LogGrowsInOrder
  CatchUpMissesNothing
CHECK_DEADLOCK FALSE
