SPECIFICATION FairSpec
CONSTANTS
  Agmts = {g1, g2}
  Callers = {k1, k2}
  MaxRequests = 3
  NoOne = NoOne
CHECK_DEADLOCK FALSE
INVARIANTS TypeOK NoUseAfterFree SendNotLeaked
PROPERTIES LockReleased ShutdownFollowed InitializeFollowed
