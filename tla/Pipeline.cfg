CONSTANTS
  Subs = {s1, s2}
  InCap = 2
  SubCap = 2
  MaxPackets = 4
SPECIFICATION FairSpec
INVARIANTS
  TypeOK
  InOrder
  NewestKept
  FanoutComplete
  CountersBalance
PROPERTY DispatcherEnded
CHECK_DEADLOCK FALSE
