CONSTANTS
  Sessions = {p1, q1}
  PubPort = {p1}
  Topics = {x}
  NoSession = NoSession
  NoTopic = NoTopic
  MaxPublishers = 1
  MaxSubscribersPerTopic = 1
  RePlay = FALSE
SPECIFICATION Spec
INVARIANT NoPanic
