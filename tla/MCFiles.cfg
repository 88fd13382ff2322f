SPECIFICATION ScenesSpec
CONSTANTS
  N = 3
  Size <- Sizes
  MaxDrops = 2
  MaxEdits = 1
INVARIANTS FilesWhole
PROPERTIES JobsEnd UpdateEnds
CHECK_DEADLOCK FALSE
