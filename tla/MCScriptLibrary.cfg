CONSTANTS
  Clients = {c1, c2}
  Names <- Order
  Builtin <- Standard
  Uploads <- TheUploads
  CutTo <- TheCuts
  Worlds <- SomeWorlds
  Rig <- TheRig
  Scripts <- TheScripts
  Blocks <- TheBlocks
  Nesting <- Depth
  None = None
SPECIFICATION Spec
SYMMETRY Symmetry
INVARIANTS
  LibraryIsReference
  SnapshotIsSound
  RunIsAsAnnounced
PROPERTIES
  SavesAddOne
CHECK_DEADLOCK FALSE
