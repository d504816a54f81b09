SPECIFICATION PSpec
CONSTANTS
  NumWorkers = 2
  Planes = {0, 1}
  MaxRows = 2
  MaxCols = 3
  SyncRange <- SyncRange12
  MaxFrames = 2
  Formats <- Fitting
  MaxCalls = 2
INVARIANTS StagesTypeOK FilterOrder FrameComplete RowsAllocated
INVARIANTS LrInputIntact LrOutputComplete LrRowsThere StagesApart
PROPERTIES StagesEnd FilterRefinement
CHECK_DEADLOCK FALSE
