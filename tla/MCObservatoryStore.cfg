SPECIFICATION Spec
CONSTANTS
  Tasks = {t1, t2}
  Locations = {home, site}
  Bodies <- OneBody
  CutTo <- NothingLeft
  MaxSaves = 2
  NoTask = NoTask
  NoFile = NoFile
  Broken = Broken
INVARIANT SavedIsServed
CHECK_DEADLOCK FALSE
