SPECIFICATION Spec
CONSTANTS
  Data = {d1, d2}
  NoHook = NoHook
  MaxCalls = 4
INVARIANTS TypeOK NeverBothAsleep SyncedMeansIdle JobKeepsItsArgs ThreadHasImpl
PROPERTIES CallsReturn WorkerRefinement
