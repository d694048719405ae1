CONSTANTS
  s1 = s1
  s2 = s2
  f1 = f1
  d1 = d1
  t1 = t1
  t2 = t2
  t3 = t3
  None = None
  Short <- S1
  Feedback <- F1
  Direct <- D1
  Repeats <- S1
  Threads <- T2
  MaxStart = 1
  MaxLimit = 2
  MaxSend = 0
  MaxRuns = 2
  MaxWaits = 0
  MaxDepth = 6
  Liberties <- Rough
SPECIFICATION SafetySpec
SYMMETRY ThreadSymmetry
INVARIANTS OnePlace CountRight
CHECK_DEADLOCK FALSE
