SPECIFICATION FairSpec
CONSTANTS
  Oya = 2
  LiveTiles = 9
  Winds = {}
  MaxKans = 1
  MaxCalls = 1
INVARIANT RiichiExact
INVARIANT AbortsHonoured
PROPERTY DoubleRiichiExact
PROPERTY IppatsuEndsWithCalls
PROPERTY HandEnds
