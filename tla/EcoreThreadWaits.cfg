CONSTANTS
  s1 = s1
  s2 = s2
  f1 = f1
  d1 = d1
  t1 = t1
  t2 = t2
  t3 = t3
  None = None
  Short <- S1
  Feedback <- F1
  Direct <- NoJob
  Repeats <- F1
  Threads <- T2
  MaxStart = 1
  MaxLimit = 2
  MaxSend = 1
  MaxRuns = 2
  MaxWaits = 1
  MaxDepth = 6
  Liberties <- RaiseMax
SPECIFICATION SafetySpec
SYMMETRY ThreadSymmetry
INVARIANTS NoDangling FinalOnce MessagesFirst WaiterOnStack WaitMeansOver
CHECK_DEADLOCK FALSE
