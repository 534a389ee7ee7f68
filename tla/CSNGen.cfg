SPECIFICATION Spec
CONSTANTS
  MaxSeq = 1
  MaxAdjust = 2
  IgnoreSkew = FALSE
  Rid = 2
  Threads = {t1, t2}
  Times <- MCTimes
  RemoteCSNs <- MCRemoteCSNs
  MaxTstamp = 3
  Far = 4
INVARIANTS CSNGenTypeOK GeneratorAhead OpAboveBase RemoteSkewBounded
PROPERTY ImplementsStampClock
SYMMETRY ThreadSymmetry
