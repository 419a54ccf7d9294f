CONSTANTS
  Infinity = 1000
  Kernels <- FirstTrial
  Trials <- MCTrials
SPECIFICATION TrialsSpec
INVARIANT SomeClaimHolds
