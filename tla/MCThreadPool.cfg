SPECIFICATION Spec
CONSTANTS
  NumThreads = 3
  MaxWork = 2
  MayFail <- SecondFails
  AffinityMayFail = TRUE
CHECK_DEADLOCK FALSE
INVARIANT WaitsForAllWork
PROPERTY CallsReturn
