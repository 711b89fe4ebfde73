SPECIFICATION FairSpec
CONSTANTS
  Files = {"wasm", "pck", "extra"}
  Wasm = "wasm"
  Pack = "pck"
  Extra = {"extra"}
  FileSizes <- MCFileSizes
  Pieces = 1
  Attempts = 2
  MaxLoads = 3
  MaxFaults = 2
  Engines = {"page", "other"}
  Page = "page"
  MaxInits = 3
  Browsers <- MCBrowsers
  Threads = TRUE
INVARIANT TypeOK
INVARIANT EnginesShare
PROPERTY ReportedGrows
PROPERTY StartSettles
PROPERTY LoopEnds
CHECK_DEADLOCK FALSE
