SPECIFICATION FairSpec
CONSTANTS
  Handlers = {h1, h2}
  Workers = {w1, w2}
  QueueSize = 2
  MaxEvents = 4
  None = None
INVARIANTS
  EveryEventAccounted
  DrainedOnReturn
PROPERTIES
  ShutdownTerminates
CHECK_DEADLOCK FALSE
