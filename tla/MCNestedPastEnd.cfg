SPECIFICATION Spec
CONSTANTS
  Kernels <- PastTheEndKernels
  MaxTrips = 4
  MaxExtent = 6
  MaxRank = 1
INVARIANT NestedTilesInsideRegion
