SPECIFICATION MoveSpec
CONSTANTS
  MaxKeys = 2
  MaxCrashes = 2
  Heeds = TRUE
INVARIANT
  AlwaysWhole
CHECK_DEADLOCK FALSE
