CONSTANTS
  c1 = c1
  c2 = c2
  Probes = {c1}
  Turns = {c2}
  MaxIssued = 2
  MaxLosses = 1
SPECIFICATION FairSpec
INVARIANT EveryChildIsOwned
INVARIANT ResetForgets
INVARIANT RetirementKeepsCredential
PROPERTY EverythingReturns
CHECK_DEADLOCK FALSE
