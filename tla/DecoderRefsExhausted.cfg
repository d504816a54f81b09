SPECIFICATION Spec
CONSTANTS
  NumBufs = 3
  NumSlots = 1
  MaxOutput = 1
  OutputAll = FALSE
  Malformed = TRUE
  MaxFrames = 4
PROPERTIES ExhaustionReturns
