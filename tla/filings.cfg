SPECIFICATION MixtureSpec
CONSTANTS
  Docs = {d1, d2}
  MaxPasses = 1
  MaxSeen = 2
  MaxCrashes = 1
  Beside = {"sync", "remove"}
  Gaps = {}
SYMMETRY Alike
INVARIANTS
  TruthInStep
  Kept
  Findable
  NoGhost
CHECK_DEADLOCK FALSE
