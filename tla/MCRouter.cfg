CONSTANTS
  analyst = analyst
  planner = planner
  Specialists = {analyst, planner}
  HeadAgent = head
  CriticAgent = chair
  Tasks = {t1}
  Bodies = {b1}
  TurnKinds = {"assignment", "position", "proposal", "specialist_review", "critic_review",
               "head_review", "unresolved", "final"}
  Decisions = {"agree", "revise"}
  None = None
  CriticCap = 2
  DispatchBudget = 64
  MaxGeneration = 2
  MaxVersion = 9
  MaxPending = 9
  Concurrency = 2
  MaxRuns = 2
  MaxFaulted = 1
SPECIFICATION FairRouterSpec
INVARIANT ResultIsTrue
PROPERTY EveryRunEnds
CHECK_DEADLOCK FALSE
