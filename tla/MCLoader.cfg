SPECIFICATION Spec
CONSTANTS
  Arguments <- MCArguments
CHECK_DEADLOCK FALSE
INVARIANTS EpochIsShard BatchOfOneShard BufferFull
