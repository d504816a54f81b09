SPECIFICATION Spec
CONSTANTS
  MaxThreads = 2
  RowMt = FALSE
  Failures = FALSE
  MaxTiles = 2
  MaxGroups = 1
  MaxFrames = 2
PROPERTIES OwnErrorsOnly
CHECK_DEADLOCK FALSE
