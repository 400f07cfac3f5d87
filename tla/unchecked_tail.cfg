SPECIFICATION SettleSpec
CONSTANTS
  Plan <- SplitPlan
  MaxEdits = 1
  Faults = {}
  Touched = {1}
  Deletable = {}
  Retry = FALSE
  CountCap = 1
  Menus = {{"check", "remove"}}
PROPERTY
  ChangedTailKept
CHECK_DEADLOCK FALSE
