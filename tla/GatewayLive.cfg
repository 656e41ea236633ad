SPECIFICATION FairSpec
CONSTANTS
  Clients = {c1, c2}
  Users = {u1}
  Sessions = {s1}
  QueueSize = 1
  MaxReplay = 1
  MaxConnections = 2
  MaxEvents = 1
  MaxUnsequenced = 1
  MaxCrashes = 1
  None = None
PROPERTIES ClosedConnectionsReleased DispatchNeverStalls
CHECK_DEADLOCK FALSE
