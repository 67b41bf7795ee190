CONSTANTS
  None = None
  m1 = m1
  m2 = m2
  k1 = k1
  Models = {m1, m2}
  MaxReceipts = 2
  MaxChanges = 1
  Keys = {k1}
  Default = m1
  MaxRevision = 3
SPECIFICATION Spec
INVARIANT AppliedOnce
INVARIANT RetryGetsItsOutcome
INVARIANT SnapshotIsBacked
CHECK_DEADLOCK FALSE
