SPECIFICATION BodiesSpec
CONSTANTS
  Programs <- MCPhases
  ViewOf <- Views
  MaxTrips = 2
  Kernels <- MCKernels
  CopiesAliases = TRUE
  Infinity = 1000
  GraphKernels <- MCGraphKernels
  Payloads <- MCPayloads
  Line = 4
  MaxVectorElements = 32
  TileSize = 4
  VectorBits = 128
  TransposeBlock = 4
  MaxLoops = 3
  TileRegisters = 8
  Distance = 1
  Parts = {"control", "graph", "schedule"}
INVARIANTS
  ValuesAreInScope LoadsSeeTheProgram PhasesPassResults VariablesKept
  GraphTypeOK ValuesKept UpdatesInPlace RefusalsExplained
  OperandsKept OperandsPlaced VectorsFit VectorsKept StorageFits
