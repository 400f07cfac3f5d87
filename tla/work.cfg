SPECIFICATION WorkSpec
CONSTANTS
  MaxKeys = 1
  MaxCrashes = 2
  Heeds = TRUE
  Tasks = {k1, k2}
  Targets = {t1, t2}
  All = all
  Chats = {c1}
  Jobs = {j1, j2}
  Unload = unload
  NoCall = none
  MaxWrites = 1
  MaxOthers = 1
INVARIANTS
  SingleFlight
  NotBehindAJob
PROPERTIES
  ComesBack
  RequestsHeeded
  ChatGetsThrough
  OffStops
  BusyEnds
CHECK_DEADLOCK FALSE
