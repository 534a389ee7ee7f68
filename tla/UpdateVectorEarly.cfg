SPECIFICATION EarlyFailureSpec
CONSTANTS
  Local = 1
  Remotes = {2}
  Threads = {t1, t2}
  MaxLocal = 2
  MaxRemote = 2
INVARIANT LoggedIsCovered
SYMMETRY ThreadSymmetry
