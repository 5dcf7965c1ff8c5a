CONSTANTS
  Scripts <- SomeScripts
  MaxRuns = 2
  Prompt <- PromptVectors
SPECIFICATION FairSpec
INVARIANTS
  TypeOK
  NoFrameTwice
  NoExposureLeftRunning
  NoSolverLeftBehind
PROPERTIES
  MovesAsMeant
  ReslewIsCorrected
  CoolingHasBegun
  CancelEndsRun
CHECK_DEADLOCK FALSE
