SPECIFICATION MCSpec
CONSTANTS
  Tasks = {t1, t2}
  Ids = {rig}
  Bodies <- MCBodies
  Drafts <- MCDrafts
  CutTo <- MCCutTo
  FilterNames = {R, B}
  DriverNames <- MCDriverNames
  R = R
  B = B
  UsesLock = TRUE
  MaxSaves = 2
  MaxClients = 2
  MaxCalls = 4
  MaxRenames = 1
  MaxRestarts = 1
  NoTask = NoTask
  NoFile = NoFile
  Broken = Broken
  NoClient = NoClient
  NoNames = NoNames
  NoName = NoName
INVARIANTS NamedFilterIsSelected CacheIsDisk NoClientRunsUnnamed
SYMMETRY TaskSymmetry
CHECK_DEADLOCK FALSE
