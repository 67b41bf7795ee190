CONSTANTS
  q1 = q1
  q2 = q2
  Requests = {q1, q2}
  Drain = 5
  Grace = 1
  StopBound = 12
  HardExit = 20
SPECIFICATION FairSpec
INVARIANT TeardownInOrder
INVARIANT HardExitIsTheLastResort
PROPERTY SignalEndsProcess
CHECK_DEADLOCK FALSE
