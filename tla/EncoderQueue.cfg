SPECIFICATION Spec
CONSTANTS
  Lag = 3
  Passes = {0, 2}
  MaxPushes = 5
  MaxPending = 2
INVARIANTS TypeOK AltRefIntact RoomAfterCall FlushEmpties
PROPERTIES QueueRefinement CallReturns
