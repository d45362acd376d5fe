SPECIFICATION Spec
CONSTANTS
  Files <- AllFiles
  PlansFor <- AllPlans
  MaxRuns = 2
INVARIANTS NothingCropped MetricsCurrent SelectedAlone TilesAsDrawn
CHECK_DEADLOCK FALSE
