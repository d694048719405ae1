CONSTANTS
  MaxFutures = 5
  MaxPromises = 3
  MaxJoins = 1
  MaxDepth = 8
  Liberties <- NoLiberty
SPECIFICATION Spec
INVARIANTS NoDangling CalledOnce ChainOrder NoOrphan Answerable
PROPERTY Delivered
CHECK_DEADLOCK FALSE
