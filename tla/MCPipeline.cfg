SPECIFICATION Spec
CONSTANTS
  Ops <- MCOps
  Requests <- MCRequests
  MAX_SEEDS = 6
INVARIANTS
  GraphConsistent
  ValidIsBuilt
  PrunedExactly
  RunsAfterParents
  ReadsWhatParentsWrote
  BuffersKeptApart
  OutputsCanBeShared
  SeedsFollowRelation
  SerializationKeepsOperators
CHECK_DEADLOCK FALSE
