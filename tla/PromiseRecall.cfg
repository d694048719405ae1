CONSTANTS
  MaxFutures = 4
  MaxPromises = 2
  MaxJoins = 0
  MaxDepth = 6
  Liberties <- CancelDetached
SPECIFICATION SafetySpec
INVARIANT NoDangling
CHECK_DEADLOCK FALSE
