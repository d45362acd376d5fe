SPECIFICATION Spec
CONSTANTS
  Files <- CellArrays
  PlansFor <- AllPlans
  MaxRuns = 1
INVARIANTS CellsUpright
CHECK_DEADLOCK FALSE
