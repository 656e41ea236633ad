SPECIFICATION FairSpec
CONSTANTS
  view = view
  manage = manage
  Perms <- MCPerms
  ManageServer = manage
  Users = {u1}
  Roles = {everyone, r1}
  Everyone = everyone
  Owner = owner
  Channels = {c1}
  ServerKey = server
  Resolvers = {p1}
  Handlers = {h1, h2}
  AutoRoles = {r1}
  RoleValues <- MCAdminValues
  OverrideValues <- MCDenyView
  MaxWrites = 2
INVARIANTS
  StaleIsExplained
PROPERTY
  EventuallyConsistent
CHECK_DEADLOCK FALSE
