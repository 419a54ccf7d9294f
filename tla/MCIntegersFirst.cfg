SPECIFICATION BuildingSpec
CONSTANTS
  Parts = {"sizes"}
  Sizes <- MCSizes
  Provided <- TwoFunctions
  MaxBody = 1
  Calls <- MCCalls
  Needed <- MCNeeded
  Lowered <- MCLowered
  Clashing <- MCClashing
  Threads = {1, 2}
INVARIANT DefinedBeforeUse
