CONSTANTS
  w1 = w1
  w2 = w2
  w3 = w3
  Main = Main
  None = None
  Workers <- OneWorker
  MaxCalls = 4
  MaxNest = 2
  MaxDepth = 2
  IdMax = 2
  Spurious = TRUE
  FlushInSection = TRUE
SPECIFICATION Spec
INVARIANT MutualExclusion
