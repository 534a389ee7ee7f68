CONSTANTS
  MaxChanges = 1
  MaxAdmin = 2
  MaxOrphans = 1
SPECIFICATION Spec
INVARIANTS IncTypeOK BackoffWakes AsleepUpToDate AcquiredWhileSending
PROPERTIES ChangesReachConsumer StopEnds
CHECK_DEADLOCK FALSE
