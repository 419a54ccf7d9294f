SPECIFICATION BuildingSpec
CONSTANTS
  Parts = {"sizes", "helpers", "lowering"}
  Sizes <- MCSizes
  Provided <- TwoFunctions
  MaxBody = 1
  Calls <- MCCalls
  Needed <- MCNeeded
  Lowered <- MCLowered
  Clashing <- MCClashing
  Threads = {1, 2}
INVARIANTS
  SizesTypeOK UsesInOrder SizesBeforeBody
  HelpersTypeOK CallsAreDefined OutcomeIsTheModules
  LoweringTypeOK OutcomeIsTheChilds NoChildLeftBehind
PROPERTY EveryLoweringEnds
