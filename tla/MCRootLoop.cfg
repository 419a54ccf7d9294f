SPECIFICATION Spec
CONSTANTS
  Kernels <- RootKernels
  MaxTrips = 4
  MaxExtent = 6
  MaxRank = 2
INVARIANTS TypeOK SlicesInside RegionsDisjoint NoLostUpdate
PROPERTY RunsAsSequentialProgram
