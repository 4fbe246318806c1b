CONSTANTS
  Sessions = {p1, q1}
  PubPort = {p1}
  Topics = {x, y}
  NoSession = NoSession
  NoTopic = NoTopic
  MaxPublishers = 1
  MaxSubscribersPerTopic = 2
  RePlay = TRUE
SPECIFICATION FairSpec
PROPERTY SubscriberBooks
