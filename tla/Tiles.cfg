SPECIFICATION Spec
CONSTANTS
  Kinds = {5, 6, 7, 8, 9}
  HandSets = 1
  MaxTurns = 3
INVARIANT TypeOK
INVARIANT WaitsExact
INVARIANT FuritenExact
INVARIANT CallsLeaveDiscard
CHECK_DEADLOCK FALSE
