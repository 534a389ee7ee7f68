SPECIFICATION FairSpec
CONSTANTS
  Agmts = {g1}
  Callers = {k1}
  MaxRequests = 2
  NoOne = NoOne
CHECK_DEADLOCK FALSE
PROPERTY StopEnds
