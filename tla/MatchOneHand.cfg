SPECIFICATION Spec
CONSTANTS
  StartPositions <- OneHandPositions
  BaseScores = {240, 2000, 8000}
  MinScores = {0, 10000}
  MaxHonba = 3
  MaxHands = 1
  MaxRiichi = 4
INVARIANT TypeOK
INVARIANT WindInRange
INVARIANT SolventToPlay
INVARIANT PredictionExact
PROPERTY PointsConserved
PROPERTY EndJustified
