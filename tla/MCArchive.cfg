CONSTANTS
  h1 = h1
  h2 = h2
  Handlers = {h1, h2}
  None = None
  MaxMessages = 2
  MaxFaults = 1
  MaxRestarts = 1
SPECIFICATION Spec
INVARIANT ClosedIsArchived
INVARIANT ArchiveIsWhole
PROPERTY FencedIsArchived
CHECK_DEADLOCK FALSE
