CONSTANTS
  MaxPeek = 3
  Window = 1
  MaxSent = 5
SPECIFICATION FairSpec
INVARIANTS
  TypeOK
  OneGap
  HeadersKept
PROPERTIES
  ClientEndPropagates
  ServerEndPropagates
CHECK_DEADLOCK FALSE
