CONSTANTS
  Sessions = {p1, q1, q2}
  PubPort = {p1}
  Topics = {x}
  NoSession = NoSession
  NoTopic = NoTopic
  MaxPublishers = 0
  MaxSubscribersPerTopic = 1
  RePlay = FALSE
SPECIFICATION FairSpec
INVARIANTS
  SubscribersHaveSessions
  SubscriberLimit
  GaugeBounds
  GraceTimer
  CleanShutdown
PROPERTIES
  AbandonedTopicIsResolved
  ShutdownCompletes
