----------------------- MODULE MCPermissionResolution ------------------------
EXTENDS PermissionResolution

CONSTANTS view, manage

MCPerms == {view, manage}
MCRoleValues == {{}, {view}, {manage}}
MCOverrideValues ==
  {NoOverride,
   [allow |-> {view}, deny |-> {}],
   [allow |-> {}, deny |-> {view}],
   [allow |-> {view, manage}, deny |-> {view}]}
=============================================================================
