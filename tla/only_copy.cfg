SPECIFICATION Spec
CONSTANTS
  Plan <- SplitPlan
  MaxEdits = 1
  Faults = {}
  Touched = {}
  Deletable = {2}
  Retry = FALSE
  CountCap = 8
INVARIANT
  OnlyCopyKept
CHECK_DEADLOCK FALSE
