SPECIFICATION Spec
CONSTANTS
  m1 = m1
  m2 = m2
  u1 = u1
  u2 = u2
  x = x
  y = y
  Users = {u1, u2}
  Texts = {x, y}
  MessageIds = {m1, m2}
  ThreadIds = {t1, t2}
  Channels = {ch}
  DMIds = {d1, d2}
  MaxGroup = 2
  Calls = {c1, c2}
  Goroutines = {g1, g2}
  Workloads <- MCWorkloads
  None = None
SYMMETRY Symmetry
INVARIANTS
  ClientsSeeStored
  SearchFollowsMessages
  SecondDMRaced
PROPERTIES
  DeletedStaysDeleted
  DeletionToldLast
CHECK_DEADLOCK FALSE
