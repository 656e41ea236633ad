SPECIFICATION FairPresenceSpec
CONSTANTS
  Clients = {c1, c2, c3}
  Users = {u1}
  MaxUpdates = 1
  MaxFailures = 1
  None = None
INVARIANTS
  OfflineIsOwed
PROPERTY
  NoGhostPresence
CHECK_DEADLOCK FALSE
