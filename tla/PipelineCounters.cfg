CONSTANTS
  Subs = {s1, s2}
  InCap = 2
  SubCap = 2
  MaxPackets = 4
SPECIFICATION Spec
INVARIANT CountersDocumented
CHECK_DEADLOCK FALSE
