SPECIFICATION FairSpec
CONSTANTS
  MaxCSN = 5
  Rids = {1, 2}
  RidOf <- MCRidOf
  LocalRid = 1
  Adjacent = {5}
  Base = 2
  Agmts = 1
  BulkSize = 2
  MaxEntries = 0
  MaxAge = TRUE
  MaxLost = 1
  MaxCrashes = 1
  MaxEnds = 1
INVARIANTS TypeOK NoGap TrimmedReplayed
PROPERTIES StartFound CrashCovered Converges
CHECK_DEADLOCK FALSE
