CONSTANTS
  Waiters = {w1, w2, w3}
  Notifiers = {n1, n2}
  None = None
  Crews <- MCCrews
SPECIFICATION Spec
INVARIANTS SleepersCounted
CHECK_DEADLOCK FALSE
