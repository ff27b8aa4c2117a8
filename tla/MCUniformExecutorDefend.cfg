SPECIFICATION PySpec
CONSTANTS
  Depth = 2
  Samples = {s1, s2}
  Scenarios <- DestroyOnly
CHECK_DEADLOCK FALSE
PROPERTY DestructorReturns
