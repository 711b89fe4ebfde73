SPECIFICATION Spec
CONSTANTS
  Hasty = {"answer", "ready"}
  HasAI = TRUE
  MaxHands = 2
  MaxAsks = 2
  MaxDrops = 1
  MaxExtra = 1
INVARIANT TypeOK
INVARIANT AnswersMatch
INVARIANT OnePermission
CHECK_DEADLOCK FALSE
