SPECIFICATION FilingSpec
CONSTANTS
  Docs = {d1, d2}
  MaxPasses = 0
  MaxSeen = 2
  MaxCrashes = 0
  Beside = {"sync", "rebuild"}
  Gaps = {"wipe"}
INVARIANT
  Findable
CHECK_DEADLOCK FALSE
