SPECIFICATION Spec
CONSTANTS
  Plan <- CarryPlan
  MaxEdits = 2
  Faults = {}
  Touched = {2}
  Deletable = {2}
  Retry = FALSE
  CountCap = 8
INVARIANTS
  RunInv
  NotDoneIsProof
  TailDeletedOnProof
  CleanFailure
PROPERTIES
  NothingOverwritten
  PromiseKept
  RunEnds
CHECK_DEADLOCK FALSE
