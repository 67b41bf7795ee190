CONSTANTS
  r1 = r1
  r2 = r2
  c1 = c1
  codex = codex
  b1 = b1
  b2 = b2
  h1 = h1
  h2 = h2
  SessionIds = {r1, r2}
  Events <- AnswerEvents
  Revisions = {}
  Tasks = {}
  Critics = {c1}
  Providers = {codex}
  ProviderOf <- OneCritic
  None = None
  MaxGeneration = 2
  MaxSequence = 2
  Bodies = {b1, b2}
  Handlers = {h1, h2}
  Stoppable = {r1}
  Retried = {r2}
  Early = {r1}
  Rejecting = {"submit", "run", "stop"}
  MaxFaults = 1
  MaxRestarts = 0
SYMMETRY Symmetry
SPECIFICATION ServiceSpec
INVARIANT CompletedIsPublished
INVARIANT FinishedIsFenced
INVARIANT LockNotLeaked
CHECK_DEADLOCK FALSE
