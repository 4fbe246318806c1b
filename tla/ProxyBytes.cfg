CONSTANTS
  MaxPeek = 3
  Window = 1
  MaxSent = 4
SPECIFICATION Spec
INVARIANT ReplayComplete
CHECK_DEADLOCK FALSE
