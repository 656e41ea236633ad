SPECIFICATION Spec
CONSTANTS
  owner = owner
  a1 = a1
  a2 = a2
  Ids = {owner, a1, a2}
  Owner = owner
  Emails = {e1}
  Names = {n1, n2}
  Links = {v1, v2, v3}
  MFATickets = {m1, m2}
  GatewayTickets = {g1, g2}
  Secrets = {s1, s2}
  Codes = {k1, k2, k3}
  BatchSize = 1
  MaxSetupAttempts = 3
  MaxUncounted = 1
  TombstoneUsernames = TRUE
  Calls = {c1, c2}
  Workloads <- MCWorkloads
  None = None
SYMMETRY Symmetry
INVARIANTS
  SpentCodesRefused
  CodesGoWithMFA
  SetupGuessesBounded
  TombstonesHold
  OldSessionsEndWithAccount
  SecondLinkRaced
PROPERTIES
  OneTimeSpec
CHECK_DEADLOCK FALSE
