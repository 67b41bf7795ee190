CONSTANTS
  s1 = s1
  s2 = s2
  c1 = c1
  c2 = c2
  codex = codex
  t1 = t1
  SessionIds = {s1, s2}
  Events <- PhasedEvents
  Revisions = {}
  Tasks = {t1}
  Critics = {c1, c2}
  Providers = {codex}
  ProviderOf <- OneProvider
  None = None
  MaxGeneration = 2
  MaxSequence = 13
  Specialists = 3
  Concurrency = 2
  MaxAttempts = 3
  RunGenerations = {1}
SPECIFICATION FairPhasedSpec
INVARIANT EveryPhaseIsHeard
INVARIANT NoTurnIsOrphaned
INVARIANT CompletedIsKept
PROPERTY EveryRunReturns
CHECK_DEADLOCK FALSE
