SPECIFICATION FairSpec
CONSTANTS
  Hasty = {}
  HasAI = TRUE
  MaxHands = 1
  MaxAsks = 2
  MaxDrops = 1
  MaxExtra = 1
PROPERTY WaitsEnd
PROPERTY AskedIsServed
CHECK_DEADLOCK FALSE
