SPECIFICATION Spec
CONSTANTS
  MaxCSN = 4
  Rids = {1, 2}
  RidOf <- FirstRidOf
  LocalRid = 1
  Adjacent = {3}
  Base = 1
  Agmts = 1
  BulkSize = 2
  MaxEntries = 0
  MaxAge = TRUE
  MaxLost = 0
  MaxCrashes = 0
  MaxEnds = 0
INVARIANT TrimmedReplayed
CHECK_DEADLOCK FALSE
