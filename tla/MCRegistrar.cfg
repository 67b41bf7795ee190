CONSTANTS
  s1 = s1
  s2 = s2
  e1 = e1
  e2 = e2
  r1 = r1
  r2 = r2
  c1 = c1
  c2 = c2
  codex = codex
  claude = claude
  t1 = t1
  SessionIds = {s1, s2}
  Events = {e1, e2}
  Revisions = {r1, r2}
  Tasks = {t1}
  Critics = {c1}
  Providers = {codex, claude}
  ProviderOf <- OneCritic
  None = None
  MaxGeneration = 3
  MaxSequence = 2
SYMMETRY Symmetry
SPECIFICATION Spec
INVARIANT TypeOK
INVARIANT OneActiveGeneration
INVARIANT StopNeverUndone
INVARIANT RevisionLineage
INVARIANT AuthenticReview
PROPERTY ImplementsTranscriptLog
PROPERTY FenceIsFinal
CHECK_DEADLOCK FALSE
