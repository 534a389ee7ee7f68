SPECIFICATION FairSpec
CONSTANTS
  Conns = {c1, c2}
  MaxRequests = 2
  Kinds = {"inc", "total", "task"}
  Timeouts = TRUE
  Overlap = TRUE
  ReleaseTimeout = TRUE
PROPERTY AlwaysReleased
CHECK_DEADLOCK FALSE
