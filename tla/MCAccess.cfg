CONSTANTS
  None = None
  old = old
  new = new
  keys1 = keys1
  keys2 = keys2
  owner = owner
  b1 = b1
  b2 = b2
  b3 = b3
  s1 = s1
  s2 = s2
  c1 = c1
  c2 = c2
  Processes = {old, new}
  Browsers = {b1, b2, b3}
  Configurations = {keys1, keys2}
  Config <- MCConfig
  Identity <- MCIdentity
  Subjects = {s1, s2}
  Callbacks = {c1, c2}
  MaxFlows = 3
  MaxEpochs = 3
  MaxPending = 2
  MaxSessions = 2
SPECIFICATION Spec
SYMMETRY Symmetric
INVARIANT RevocationIsTotal
INVARIANT VerifierUsedOnce
INVARIANT OneOwner
CHECK_DEADLOCK FALSE
