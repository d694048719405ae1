CONSTANTS
  e1 = e1
  r1 = r1
  Add = Add
  Del = Del
  Events <- Both
  Restart <- Idle
  Hot <- Nobody
  Kinds <- Mixed
  MaxCbs = 3
  MaxDepth = 3
  MaxFreeze = 1
  Liberties <- NoLiberty
SPECIFICATION Spec
INVARIANTS ListRight CalledInOrder
PROPERTIES CalledInTime NobodySkipped
