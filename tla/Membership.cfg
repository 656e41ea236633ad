SPECIFICATION Spec
CONSTANTS
  everyone = everyone
  r1 = r1
  r2 = r2
  c1 = c1
  Users = {owner, u1, u2}
  Owner = owner
  Roles = {everyone, r1, r2}
  Everyone = everyone
  Position <- MCPosition
  Lowest = 9
  Codes = {c1}
  MaxUses = {1}
  Configs <- AutoTop
  Starts <- MCStarts
  Requests = {q1, q2}
  None = None
SYMMETRY Symmetry
INVARIANTS
  InviteUsesBounded
  AnnouncedOnce
  OwnerKeepsServer
  AssignedBelowTop
  BannedMembersRaced
CHECK_DEADLOCK FALSE
