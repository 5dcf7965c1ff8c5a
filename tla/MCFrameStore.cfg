CONSTANTS
  f1 = f1
  f2 = f2
  k1 = k1
  k2 = k2
  Frames <- TwoFrames
  Cleaners <- TwoCleaners
  MaxVersions = 2
  MaxRestarts = 1
SYMMETRY Symmetry
SPECIFICATION Spec
INVARIANTS
  TypeOK
  RowHasItsFile
  ChecksumIsTheFiles
  NothingLostUnseen
PROPERTIES
  DeletedStaysDeleted
CHECK_DEADLOCK FALSE
