CONSTANTS
  CpuSize = 1
  GpuSize = 2
  MayStop = {"CPU", "MIXED"}
SPECIFICATION Spec
INVARIANTS
  GpuIsMixed
  IndicesConserved
  StopWakesAll
