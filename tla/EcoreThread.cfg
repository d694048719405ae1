CONSTANTS
  s1 = s1
  s2 = s2
  f1 = f1
  d1 = d1
  t1 = t1
  t2 = t2
  t3 = t3
  None = None
  Short <- S1
  Feedback <- F1
  Direct <- NoJob
  Repeats <- NoJob
  Threads <- T2
  MaxStart = 2
  MaxLimit = 2
  MaxSend = 1
  MaxRuns = 2
  MaxWaits = 0
  MaxDepth = 6
  Liberties <- NoLiberty
SPECIFICATION Spec
PROPERTIES ServiceSpec EveryJobEnds
CHECK_DEADLOCK FALSE
