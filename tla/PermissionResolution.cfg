SPECIFICATION ResolutionSpec
CONSTANTS
  view = view
  manage = manage
  Perms <- MCPerms
  ManageServer = manage
  Users = {u1, u2}
  Roles = {everyone, r1}
  Everyone = everyone
  Owner = u2
  RoleValues <- MCRoleValues
  OverrideValues <- MCOverrideValues
INVARIANT ResolvesToReference
CHECK_DEADLOCK FALSE
