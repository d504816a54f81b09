SPECIFICATION Spec
CONSTANTS
  NumBufs = 4
  NumSlots = 2
  MaxOutput = 1
  OutputAll = FALSE
  Malformed = TRUE
  MaxFrames = 3
INVARIANTS OutputsIntact SlotsIntact
