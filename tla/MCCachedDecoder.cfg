CONSTANTS
  Images <- MCImages
  Size <- MCSize
  Kind <- MCKind
  CacheSize = 5
  Threshold = 2
  Policies = {"threshold", "largest"}
  Adders = {"t1", "t2"}
  Scenarios <- MCScenarios
SPECIFICATION Spec
INVARIANTS SlotsDisjoint NoByteLost LargestChosen DecodeHasInfo OutputsDecoded
CHECK_DEADLOCK FALSE
