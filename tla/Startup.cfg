CONSTANTS
  Pub = Pub
  Sub = Sub
  Callers = {Pub, Sub}
  Start = 3
  End = 6
  NoOne = NoOne
  Foreign = Foreign
  Configs <- Starts
  Order <- FirstAndLast
  MaxFaults = 1
  MaxSessions = 2
SPECIFICATION FairMainSpec
INVARIANTS
  MainTypeOK
  HoldersHaveTheirPair
  NoSocketLeak
  ExitReleases
  ServersFindSockets
  GaugesWhileServing
  PublishersMirrored
  TornOnlyInBackground
  AutoQuotaLimits
PROPERTIES
  ExportBegins
  ShutdownEnds
