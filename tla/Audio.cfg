SPECIFICATION FairSpec
CONSTANTS
  Modes = {"threads", "nothreads"}
  OutSize = 5
  InSize = 5
  OutChunk = 2
  InChunks = {0, 2, 3}
  Ids = 10
  MaxFlight = 1
INVARIANT TypeOK
INVARIANT ChunksFit
INVARIANT NoRace
PROPERTY HeardInOrder
PROPERTY CapturedInOrder
PROPERTY KeepsPlaying
