SPECIFICATION StoredSpec
CONSTANTS
  Instances = {a, b}
  Gone = gone
  None = none
  Beat = 1
  Ttl = 2
  Stale = 3
  MaxSleeps = 1
  MaxKeys = 2
  MaxCrashes = 2
  Heeds = TRUE
  Lag = 1
  Drops = FALSE
  MaxTime = 2
  MaxEvents = 2
  Newest = 2
  MaxTurns = 3
  Gaps = FALSE
SYMMETRY Either
INVARIANTS
  StoredTypeOK
  SplitEnds
  ClosedBehindCurtain
  NeverLost
  StillListed
  NothingLost
  IndexMatches
PROPERTIES
  TargetKept
  SavedStays
  PauseKept
CHECK_DEADLOCK FALSE
