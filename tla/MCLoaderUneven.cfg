SPECIFICATION Spec
CONSTANTS
  Arguments <- StickingUneven
CHECK_DEADLOCK FALSE
INVARIANT PadsAtEndOfShard
