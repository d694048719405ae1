CONSTANTS
  w1 = w1
  w2 = w2
  w3 = w3
  Main = Main
  None = None
  Workers <- TwoWorkers
  MaxCalls = 3
  MaxNest = 2
  MaxDepth = 1
  IdMax = 100
  Spurious = FALSE
  FlushInSection = FALSE
SPECIFICATION Spec
SYMMETRY WorkerSymmetry
INVARIANTS MutualExclusion MainLoopIdentity NestingCount NoLostWakeup NoUseAfterFree SyncReturnsAfterRun
PROPERTY CallsInOrder
