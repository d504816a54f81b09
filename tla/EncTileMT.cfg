SPECIFICATION Spec
CONSTANTS
  MaxThreads = 3
  MaxCols = 5
  MaxFrames = 3
  ThreadsShrink = FALSE
INVARIANTS TypeOK TilesOnce CountsExact
CHECK_DEADLOCK FALSE
