SPECIFICATION Spec
CONSTANTS
  MaxCSN = 4
  Rids = {1, 2}
  RidOf <- NewRidOf
  LocalRid = 1
  Adjacent = {3}
  Base = 1
  Agmts = 1
  BulkSize = 1
  MaxEntries = 0
  MaxAge = FALSE
  MaxLost = 0
  MaxCrashes = 0
  MaxEnds = 0
INVARIANT NoGap
CHECK_DEADLOCK FALSE
