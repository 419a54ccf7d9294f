CONSTANTS
  Block = 4
  Accumulator = 48
  MaxKChunk = 4
  MaxKSingle = 6
  Line = 4
  MinSharedRows = 8
  PanelPairs = 32
  Programs <- Claimed
  Threads = {1}
  BoundSize = 2
  TileElements = 4
  RecyclesMemory = TRUE
SPECIFICATION Spec
INVARIANT SomeClaimHolds
CHECK_DEADLOCK FALSE
