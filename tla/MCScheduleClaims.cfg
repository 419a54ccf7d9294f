CONSTANTS
  Line = 4
  MaxVectorElements = 32
  TileSize = 4
  VectorBits = 128
  TransposeBlock = 4
  MaxLoops = 3
  TileRegisters = 8
  Distance = 1
  Payloads <- FirstTrial
  Trials <- MCTrials
SPECIFICATION TrialsSpec
INVARIANT SomeClaimHolds
