CONSTANTS
  Roles = 2
  MaxTurns = 3
SPECIFICATION FairSpec
INVARIANT NoOrphanTurn
INVARIANT EverythingReleased
INVARIANT NoCompletionMissed
PROPERTY OperationReturns
CHECK_DEADLOCK FALSE
