SPECIFICATION Spec
CONSTANTS
  Kinds = {5, 6, 7, 8, 9}
  HandSets = 1
  MaxTurns = 3




CHECK_DEADLOCK FALSE
INVARIANT RinshanIsWin
