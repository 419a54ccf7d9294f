CONSTANTS
  Block = 4
  Accumulator = 48
  MaxKChunk = 4
  MaxKSingle = 6
  Line = 4
  MinSharedRows = 8
  PanelPairs = 32
  Programs <- MCPrograms
  Threads = {1, 4}
  BoundSize = 2
  TileElements = 4
  RecyclesMemory = TRUE
SPECIFICATION Spec
INVARIANTS ResultsRight ParametersAsStamped RefusalsExplained LaunchedKernelsFit
CHECK_DEADLOCK FALSE
