SPECIFICATION Spec
CONSTANTS
  Clients = {c1, c2}
  Users = {u1}
  Sessions = {s1}
  QueueSize = 2
  MaxReplay = 2
  MaxConnections = 2
  MaxEvents = 1
  MaxUnsequenced = 0
  MaxCrashes = 0
  None = None
SYMMETRY Symmetry
INVARIANTS ResumeReplaysMissed
CHECK_DEADLOCK FALSE
