CONSTANTS
  CpuSize = 1
  GpuSize = 2
  MayStop = {"SUPPORT", "CPU", "MIXED", "GPU", "MAIN"}
  Scenarios <- MCScenarios
SPECIFICATION ExecSpec
INVARIANTS
  OutputsIntact
PROPERTIES
  
  UsesPolicy
CHECK_DEADLOCK FALSE
