----------------------------- MODULE Permissions -----------------------------
(***************************************************************************)
(* The permission algorithm of internal/permission/resolver.go: owner      *)
(* bypass, role union, category overrides, channel overrides.  A bitfield  *)
(* is the set of its bits: Add is union, Remove is difference.             *)
(***************************************************************************)
EXTENDS Naturals, Sequences

CONSTANTS
  Perms,         \* permissions.AllPermissions, as a set of bits
  ManageServer,  \* the bit that bypasses every override
  Users,
  Roles,
  Everyone,      \* the @everyone role
  Owner,         \* server_config.owner_id
  RoleValues,    \* bitfields the API may give a role
  OverrideValues \* contents the API may give an override row

\* The principals of a permission_overrides row; a missing row changes nothing.
Principals == Roles \cup Users
Override == [allow : SUBSET Perms, deny : SUBSET Perms]
NoOverride == [allow |-> {}, deny |-> {}]
NoOverrides == [q \in Principals |-> NoOverride]

ASSUME PermissionsAssumption ==
  /\ ManageServer \in Perms
  /\ Everyone \in Roles
  /\ Roles \cap Users = {}
  /\ RoleValues \subseteq SUBSET Perms
  /\ OverrideValues \subseteq Override

\* PGStore.RolePermissions: the roles assigned to the user, plus @everyone.
RoleIDs(held) == held \cup {Everyone}
RoleUnion(rolePerms, roles) == UNION {rolePerms[r] : r \in roles}

\* basePermissions: the owner and the holders of ManageServer are admins.
IsAdmin(u, rolePerms, roles) ==
  u = Owner \/ ManageServer \in RoleUnion(rolePerms, roles)
BasePermissions(u, rolePerms, roles) ==
  IF IsAdmin(u, rolePerms, roles) THEN Perms ELSE RoleUnion(rolePerms, roles)

(* ApplyOverridesDenyFirst is a variant for mutation checks and no part of *)
(* the model.                                                              *)
ApplyOverridesDenyFirst(base, overrides, roles, u) ==
  LET roleAllow == UNION {overrides[r].allow : r \in roles}
      roleDeny  == UNION {overrides[r].deny : r \in roles}
  IN  (((base \ roleDeny) \cup roleAllow) \cup overrides[u].allow)
         \ overrides[u].deny

\* applyOverrides: the held roles' rows merged, deny over allow; then the
\* user's own row, deny over allow.
ApplyOverrides(base, overrides, roles, u) ==
  LET roleAllow == UNION {overrides[r].allow : r \in roles}
      roleDeny  == UNION {overrides[r].deny : r \in roles}
  IN  (((base \cup roleAllow) \ roleDeny) \cup overrides[u].allow)
         \ overrides[u].deny

\* channelOverrides: the category's rows, then the channel's own.  A channel
\* without a category has NoOverrides there.
ChannelOverrides(base, category, channel, roles, u) ==
  ApplyOverrides(ApplyOverrides(base, category, roles, u), channel, roles, u)

\* compute
Compute(u, rolePerms, roles, category, channel) ==
  LET base == BasePermissions(u, rolePerms, roles)
  IN  IF IsAdmin(u, rolePerms, roles) THEN base
      ELSE ChannelOverrides(base, category, channel, roles, u)

-----------------------------------------------------------------------------
(* The reference: what the four steps promise, said bit by bit.  Five      *)
(* layers of increasing precedence speak about a bit: the role union, the  *)
(* category's role rows, the category's user row, the channel's role rows  *)
(* and the channel's user row.  A bit is granted when some layer allows it *)
(* and neither that layer nor a later one denies it; an admin has them all.*)
Merged(overrides, roles) ==
  [allow |-> UNION {overrides[r].allow : r \in roles},
   deny  |-> UNION {overrides[r].deny : r \in roles}]

Layers(u, rolePerms, roles, category, channel) ==
  << [allow |-> RoleUnion(rolePerms, roles), deny |-> {}],
     Merged(category, roles), category[u],
     Merged(channel, roles), channel[u] >>

Granted(p, layers) ==
  \E i \in 1..5 : /\ p \in layers[i].allow
                  /\ \A j \in i..5 : p \notin layers[j].deny

Reference(u, rolePerms, roles, category, channel) ==
  {p \in Perms : \/ IsAdmin(u, rolePerms, roles)
                 \/ Granted(p, Layers(u, rolePerms, roles, category, channel))}
=============================================================================
