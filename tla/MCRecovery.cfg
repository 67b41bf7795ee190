CONSTANTS
  r1 = r1
  r2 = r2
  c1 = c1
  codex = codex
  b1 = b1
  b2 = b2
  h1 = h1
  h2 = h2
  SessionIds = {r1, r2}
  Events <- AnswerEvents
  Revisions = {}
  Tasks = {}
  Critics = {c1}
  Providers = {codex}
  ProviderOf <- OneCritic
  None = None
  MaxGeneration = 2
  MaxSequence = 2
  Bodies = {b1}
  Handlers = {h1, h2}
  Stoppable = {}
  Retried = {}
  Early = {r1, r2}
  Rejecting = {}
  MaxFaults = 0
  MaxRestarts = 2
SPECIFICATION FairServiceSpec
PROPERTY RecoveredRequestsFinish
CHECK_DEADLOCK FALSE
