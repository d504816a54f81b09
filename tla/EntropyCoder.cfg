SPECIFICATION Spec
CONSTANTS
  Bools <- FewBools
  Tables <- FewTables
  Trailers <- ZeroTrailers
  MaxSyms = 5
INVARIANTS RoundTrip TellsAgree
CHECK_DEADLOCK FALSE
