CONSTANTS
  k1 = k1
  k2 = k2
  RowCount = 3
  Fingerprint <- MCFingerprint
  Key = {k1, k2}
  Shapes <- MCShapes
  MaxAttempts = 2
  MaxCancels = 1
  MaxFaults = 1
SPECIFICATION FairSpec
INVARIANTS
  EachRowItsOwnAnswer
  PaidOnce
PROPERTIES
  EveryAttemptLeaves
CHECK_DEADLOCK FALSE
