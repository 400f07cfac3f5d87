SPECIFICATION JournalSpec
CONSTANTS
  Plan <- SplitPlan
  MaxEdits = 1
  Faults = {"ignores"}
  Touched = {1, 2}
  Deletable = {2}
  Retry = FALSE
  CountCap = 1
  Menus = {{"check", "remove"}, {"check", "finish"}}
INVARIANTS
  NeverMissing
  RemovedOnProof
PROPERTIES
  CheckedTailKept
  TwiceIsOnRecord
  CommandsEnd
CHECK_DEADLOCK FALSE
