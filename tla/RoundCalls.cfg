SPECIFICATION Spec
CONSTANTS
  Oya = 2
  LiveTiles = 5
  Winds = {"east"}
  MaxKans = 5
  MaxCalls = 1
INVARIANT TypeOK
INVARIANT TilesAccounted
INVARIANT MarksExact
INVARIANT AbortsHonoured
INVARIANT IndicatorsMatchKans
INVARIANT IndicatorsInWall
