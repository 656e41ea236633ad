------------------------- MODULE MCPermissionCache ---------------------------
EXTENDS PermissionCache

CONSTANTS view, manage

MCPerms == {view, manage}
MCAdminValues == {{view}, {manage}}
MCDenyView == {NoOverride, [allow |-> {}, deny |-> {view}]}
=============================================================================
