SPECIFICATION Spec
CONSTANTS
  Conns = {c1, c2}
  MaxRequests = 3
  Kinds = {"inc", "total", "task"}
  Timeouts = TRUE
  Overlap = TRUE
  ReleaseTimeout = TRUE
INVARIANTS UpdatesByHolder OneAtATime NotLeaked MarkNotLeaked PartialNotSupplied
SYMMETRY Symm
CHECK_DEADLOCK FALSE
