CONSTANTS
  n1 = n1
  n2 = n2
  n3 = n3
  Nodes = {n1, n2}
  Members <- TwoMembers
  Topics = {x}
  Score <- Scores
  Conns = {q}
  PubConns = {}
  NoNode = NoNode
  MaxChanges = 1
SPECIFICATION FairSpec
PROPERTY Settles
