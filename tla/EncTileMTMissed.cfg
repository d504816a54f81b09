SPECIFICATION Spec
CONSTANTS
  MaxThreads = 3
  MaxCols = 5
  MaxFrames = 3
  ThreadsShrink = TRUE
INVARIANTS TilesOnce
CHECK_DEADLOCK FALSE
