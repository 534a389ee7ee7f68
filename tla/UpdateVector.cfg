SPECIFICATION Spec
CONSTANTS
  Local = 1
  Remotes = {2, 3}
  Threads = {t1, t2}
  MaxLocal = 3
  MaxRemote = 2
INVARIANTS
  VectorTypeOK LoggedIsCovered CoveredIsApplied PendingIsRunning
  PendingNotCovered MinIsOldest
SYMMETRY ThreadSymmetry
