SPECIFICATION Spec
CONSTANTS
  MaxPartition = 40
  MaxLoads = 2
  CrashPoints = {}
  Files <- MarkerFile
CHECK_DEADLOCK FALSE
INVARIANTS
  RoundTrips
