SPECIFICATION FairSpec
CONSTANTS
  Hasty = {"ready"}
  HasAI = TRUE
  MaxHands = 2
  MaxAsks = 1
  MaxDrops = 0
  MaxExtra = 0
PROPERTY WaitsEnd
CHECK_DEADLOCK FALSE
