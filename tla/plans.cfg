SPECIFICATION Spec
CONSTANTS
  MaxWrites = 2
  MaxOthers = 1
INVARIANTS
  NotDoneIsProofOfAll
  FewCopiesOfAll
  CarriedFirstOfAll
  LetGoIsKept
PROPERTIES
  NothingOverwrittenOfAll
  NothingUnseen
  ToldIsSo
CHECK_DEADLOCK FALSE
