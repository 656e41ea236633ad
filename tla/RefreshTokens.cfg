SPECIFICATION Spec
CONSTANTS
  Users = {u1, u2}
  Tokens = {t1, t2, t3}
  Calls = {c1, c2}
  TTL = 2
  MaxTime = 2
  None = None
SYMMETRY Symmetry
INVARIANTS
  LiveTokensIndexed
  RevokedStayDead
  RotatedOnce
PROPERTIES
  LossExplained
  FamiliesSpec
CHECK_DEADLOCK FALSE
