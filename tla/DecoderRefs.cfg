SPECIFICATION Spec
CONSTANTS
  NumBufs = 5
  NumSlots = 2
  MaxOutput = 2
  OutputAll = TRUE
  Malformed = FALSE
  MaxFrames = 3
INVARIANTS TypeOK RefsExact PoolSuffices
PROPERTIES StoreRefinement DecodeReturns
