SPECIFICATION MirrorSpec
CONSTANTS
  Lag = 1
  Drops = FALSE
  MaxTime = 2
  MaxEvents = 1
PROPERTY
  EverythingShows
CHECK_DEADLOCK FALSE
