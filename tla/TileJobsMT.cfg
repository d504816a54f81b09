SPECIFICATION Spec
CONSTANTS
  MaxThreads = 3
  RowMt = FALSE
  Failures = TRUE
  MaxTiles = 3
  MaxGroups = 2
  MaxFrames = 2
INVARIANTS TypeOK TilesOnce AcceptedIsDecoded NobodyWorksOn
PROPERTIES GroupEnds
CHECK_DEADLOCK FALSE
