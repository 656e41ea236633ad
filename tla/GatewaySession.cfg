SPECIFICATION Spec
CONSTANTS
  Clients = {c1, c2}
  Users = {u1, u2}
  Sessions = {s1}
  QueueSize = 2
  MaxReplay = 1
  MaxConnections = 1
  MaxEvents = 2
  MaxUnsequenced = 0
  MaxCrashes = 1
  None = None
SYMMETRY Symmetry
INVARIANTS SavedCounterNotBehind OnlyAudience
CHECK_DEADLOCK FALSE
