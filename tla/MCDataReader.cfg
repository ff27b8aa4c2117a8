CONSTANTS
  Depth = 2
  MaxRuns = 6
  MoveSamples = TRUE
  LoaderFails = TRUE
  Readers <- MCReaders
  Surfaces = {0, 1, 2}
  Overshoot = 1
SPECIFICATION VideoSpec
INVARIANTS NoSlotRace ReadsInOrder NoLostWakeup SequencesAsRequested
PROPERTY ReaderReturns
CHECK_DEADLOCK FALSE
