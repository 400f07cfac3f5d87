SPECIFICATION SettleSpec
CONSTANTS
  Plan <- SplitPlan
  MaxEdits = 0
  Faults = {}
  Touched = {}
  Deletable = {}
  Retry = FALSE
  CountCap = 1
  Menus = {{"check", "finish", "remove"}}
INVARIANT
  NeverMissing
CHECK_DEADLOCK FALSE
