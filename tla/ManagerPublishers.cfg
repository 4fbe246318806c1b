CONSTANTS
  Sessions = {p1, p2, q1}
  PubPort = {p1, p2}
  Topics = {x, y}
  NoSession = NoSession
  NoTopic = NoTopic
  MaxPublishers = 1
  MaxSubscribersPerTopic = 1
  RePlay = TRUE
SYMMETRY Symmetry
SPECIFICATION Spec
INVARIANTS
  TypeOK
  PublisherHandshake
  PublisherAccounting
  StreamOfPublisher
PROPERTY RefinesRegistry
