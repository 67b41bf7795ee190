CONSTANTS
  analyst = analyst
  planner = planner
  b1 = b1
  b2 = b2
  Specialists = {analyst}
  HeadAgent = head
  CriticAgent = chair
  Tasks = {t1}
  Bodies = {b1}
  TurnKinds = {"assignment", "position", "proposal", "specialist_review", "critic_review",
               "head_review", "unresolved", "final"}
  Decisions = {"agree", "revise", "unresolved"}
  None = None
  CriticCap = 1
  DispatchBudget = 7
  MaxGeneration = 2
  MaxVersion = 2
  MaxPending = 2
SPECIFICATION Spec
INVARIANT BooksBalance
INVARIANT InformedConsent
PROPERTY OutcomeStands
CHECK_DEADLOCK FALSE
