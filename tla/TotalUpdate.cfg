SPECIFICATION FairSpec
CONSTANTS
  Entries = 4
  MaxRetry = 2
  Stops = TRUE
  Faults = TRUE
  SendFails = TRUE
CHECK_DEADLOCK FALSE
INVARIANTS TypeOK EndedIsWhole AbortedIsHonest
PROPERTIES RunEnds ConsumerSettles
