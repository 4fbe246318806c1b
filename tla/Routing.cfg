CONSTANTS
  n1 = n1
  n2 = n2
  n3 = n3
  Nodes = {n1, n2, n3}
  Members <- ThreeMembers
  Topics = {x}
  Score <- Scores
  Conns = {p, q}
  PubConns = {}
  NoNode = NoNode
  MaxChanges = 3
SPECIFICATION FairSpec
INVARIANTS
  TypeOK
  SteadyOneHop
  ReadersMeetPublisher
PROPERTIES
  DrainMovesOnlyOwn
  SettlesWhenAgreed
