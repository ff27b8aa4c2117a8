SPECIFICATION Spec
CONSTANTS
  SizeMax = 7
  MaxWork = 3
  MayThrow = TRUE
  SetupMayFail = TRUE
  MayForce = TRUE
CHECK_DEADLOCK FALSE
INVARIANTS InitReported CompleteMeansDone
PROPERTY GracefulShutdownReturns
