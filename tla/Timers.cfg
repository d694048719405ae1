SPECIFICATION FairSpec
CONSTANTS
  NTimers = 2
  None = None
  Interval = {1, 2}
  Precision = 2
  Hang = 1
  MaxTime = 5
  MaxBusy = 1
  MaxOps = 2
  MaxDepth = 2
  Liberties = {}
INVARIANTS ListsSane CurrentSafe NoDoubleCall NoOversleep
PROPERTY DueTimersFire
\* User code may call nothing and the clock stops at MaxTime.
CHECK_DEADLOCK FALSE
