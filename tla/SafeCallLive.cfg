CONSTANTS
  w1 = w1
  w2 = w2
  w3 = w3
  Main = Main
  None = None
  Workers <- TwoWorkers
  MaxCalls = 2
  MaxNest = 1
  MaxDepth = 1
  IdMax = 100
  Spurious = FALSE
  FlushInSection = FALSE
SPECIFICATION FairSpec
PROPERTIES SyncReturns EveryCallRuns ServiceSpec
