CONSTANTS
  Images <- MCImages
  Size <- MCSize
  Kind <- MCKind
  CacheSize = 5
  Threshold = 2
  Policies = {"threshold", "largest"}
  Adders = {"t1", "t2"}
  Scenarios <- Repeated
SPECIFICATION Spec
INVARIANT CachedSameAsDecoded
CHECK_DEADLOCK FALSE
