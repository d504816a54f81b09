SPECIFICATION Spec
CONSTANTS
  MaxThreads = 3
  MaxCols = 5
  MaxFrames = 3
  ThreadsShrink = FALSE
INVARIANTS IntrabcReported
CHECK_DEADLOCK FALSE
