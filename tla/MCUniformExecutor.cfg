SPECIFICATION PySpec
CONSTANTS
  Depth = 2
  Samples = {s1, s2}
  Scenarios <- MCScenarios
CHECK_DEADLOCK FALSE
INVARIANTS WorkIsThere OutputsInOrder FedDataDelivered EpochDelivered 
PROPERTIES KeepsToTheRules CallReturns
