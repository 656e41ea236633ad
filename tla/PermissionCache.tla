--------------------------- MODULE PermissionCache ---------------------------
(***************************************************************************)
(* The permission cache (internal/permission/cache.go), the resolver that  *)
(* fills it (resolver.go), the handlers that change what it caches, and    *)
(* the pub/sub invalidation between them (invalidate.go).                  *)
(*                                                                         *)
(* A resolver reads role bits and override rows in separate queries and    *)
(* writes the result to Valkey afterwards; a handler commits to PostgreSQL *)
(* and publishes afterwards; the subscriber deletes key by key.  Nothing   *)
(* orders one against the other.  A message is the set of keys it matches. *)
(***************************************************************************)
EXTENDS Permissions

CONSTANTS
  Channels,
  ServerKey,       \* serverPermKey: the key of server-level results
  Resolvers,       \* Resolve, FilterPermitted, ... calls in flight together
  Handlers,        \* mutating API requests in flight together
  AutoRoles,       \* onboarding_config.auto_roles
  MaxWrites        \* bound on database writes

ASSUME CacheAssumption ==
  /\ ServerKey \notin Channels
  /\ AutoRoles \subseteq Roles
  /\ MaxWrites \in Nat

VARIABLES
  rolePerms,  \* roles.permissions
  held,       \* member_roles, per user, @everyone left out
  overrides,  \* permission_overrides of each channel
  pending,    \* users whose members row has status pending
  cache,      \* perms:{user}:{channel}
  resolver,   \* the resolver calls in flight
  handler,    \* the handlers between commit and publish
  inbox,      \* messages the subscriber has not taken yet
  left,       \* keys the subscriber's scan has still to delete
  writes,     \* database writes so far
  why,        \* history: per key, why its entry may be stale unannounced
  lost        \* history: some invalidation was not carried out

database == <<rolePerms, held, overrides, pending>>
history == <<why, lost>>
vars == <<database, cache, resolver, handler, inbox, left, writes, history>>

Keys == Users \X (Channels \cup {ServerKey})
UserScope(u) == {k \in Keys : k[1] = u}       \* perms:{user}:*
ChannelScope(c) == {k \in Keys : k[2] = c}    \* perms:*:{channel}

Miss == [hit |-> FALSE, perm |-> {}]
Hit(p) == [hit |-> TRUE, perm |-> p]
Cached == {k \in Keys : cache[k].hit}

\* What compute (or basePermissions, for ServerKey) would answer right now.  No
\* handler writes a category's override rows.
Effective(k) ==
  IF k[2] = ServerKey
  THEN BasePermissions(k[1], rolePerms, RoleIDs(held[k[1]]))
  ELSE Compute(k[1], rolePerms, RoleIDs(held[k[1]]), NoOverrides, overrides[k[2]])

Stale(k) == cache[k].hit /\ cache[k].perm # Effective(k)

\* A call's local state: keys still to compute, those of them whose base has
\* been read, that base and its roles, the results not yet cached, and
\* (history) the keys a write overtook after their first read.
NoCall == [pc |-> "idle", user |-> Owner, todo |-> {}, ready |-> {}, base |-> {},
           roles |-> {}, out |-> [k \in Keys |-> Miss], raced |-> {}]
NoReasons == [k \in Keys |-> {}]

Init ==
  /\ rolePerms \in [Roles -> RoleValues]
  /\ held = [u \in Users |-> {}]
  /\ overrides = [c \in Channels |-> NoOverrides]
  /\ pending = Users \ {Owner}
  /\ cache = [k \in Keys |-> Miss]
  /\ resolver = [p \in Resolvers |-> NoCall]
  /\ handler = [h \in Handlers |-> {}]
  /\ inbox = <<>>
  /\ left = {}
  /\ writes = 0
  /\ why = NoReasons
  /\ lost = FALSE

-----------------------------------------------------------------------------
(* The resolver *)

Goto(p, call) == resolver' = [resolver EXCEPT ![p] = call]
Outcome(call) == {k \in Keys : call.out[k].hit}

\* Once nothing is left to compute the results are cached.
Advance(call) ==
  [call EXCEPT !.pc = IF call.todo = {} THEN "store"
                      ELSE IF call.ready = {} THEN "base" ELSE "overrides"]
Computed(call, k, perm) ==
  Advance([call EXCEPT !.todo = @ \ {k}, !.ready = @ \ {k}, !.out[k] = Hit(perm)])

\* The keys a GET or MGET of asked does not answer: an error is only logged and
\* counts as a miss of all of them.
Missed(asked, ok) == IF ok THEN asked \ Cached ELSE asked

\* Resolve, ResolveServer: GET missed or failed.
Resolve(p, k, ok) ==
  /\ resolver[p].pc = "idle"
  /\ Missed({k}, ok) # {}
  /\ Goto(p, [NoCall EXCEPT !.pc = "base", !.todo = {k}])
  /\ UNCHANGED <<database, cache, handler, inbox, left, writes, history>>

\* FilterUsersPermitted: MGET missed some of the users.
FilterUsersPermitted(p, c, ok) ==
  /\ resolver[p].pc = "idle"
  /\ \E asked \in SUBSET ChannelScope(c) :
       /\ Missed(asked, ok) # {}
       /\ Goto(p, [NoCall EXCEPT !.pc = "base", !.todo = Missed(asked, ok)])
  /\ UNCHANGED <<database, cache, handler, inbox, left, writes, history>>

\* FilterPermitted reads the base once, before it looks at the cache.
FilterPermitted(p, u) ==
  /\ resolver[p].pc = "idle"
  /\ LET roles == RoleIDs(held[u]) IN
     /\ ~IsAdmin(u, rolePerms, roles)
     /\ Goto(p, [NoCall EXCEPT !.pc = "mget", !.user = u, !.roles = roles,
                               !.base = BasePermissions(u, rolePerms, roles)])
  /\ UNCHANGED <<database, cache, handler, inbox, left, writes, history>>

GetMany(p, ok) ==
  /\ resolver[p].pc = "mget"
  /\ \E asked \in SUBSET Channels :
       LET missed == Missed({resolver[p].user} \X asked, ok) IN
       Goto(p, IF missed = {} THEN NoCall
               ELSE Advance([resolver[p] EXCEPT !.todo = missed, !.ready = missed]))
  /\ UNCHANGED <<database, cache, handler, inbox, left, writes, history>>

\* basePermissions for the next key; an admin, or a server-level result, needs
\* no more.
ReadBase(p) ==
  /\ resolver[p].pc = "base"
  /\ \E k \in resolver[p].todo :
       LET roles == RoleIDs(held[k[1]])
           base  == BasePermissions(k[1], rolePerms, roles)
       IN  Goto(p, IF k[2] = ServerKey \/ IsAdmin(k[1], rolePerms, roles)
                   THEN Computed(resolver[p], k, base)
                   ELSE Advance([resolver[p] EXCEPT !.ready = {k}, !.base = base,
                                                    !.roles = roles]))
  /\ UNCHANGED <<database, cache, handler, inbox, left, writes, history>>

\* channelOverrides for a key whose base is known.
ReadOverrides(p) ==
  /\ resolver[p].pc = "overrides"
  /\ \E k \in resolver[p].ready :
       Goto(p, Computed(resolver[p], k,
                 ChannelOverrides(resolver[p].base, NoOverrides, overrides[k[2]],
                                  resolver[p].roles, k[1])))
  /\ UNCHANGED <<database, cache, handler, inbox, left, writes, history>>

\* Set, SetMany, SetManyUsers: one SET of the pipeline.
Store(p, k) ==
  LET call == resolver[p]
      rest == [call EXCEPT !.out[k] = Miss]
  IN
  /\ call.pc = "store"
  /\ call.out[k].hit
  /\ cache' = [cache EXCEPT ![k] = call.out[k]]
  /\ why' = [why EXCEPT ![k] = IF k \in call.raced THEN {"race"} ELSE {}]
  /\ Goto(p, IF Outcome(rest) = {} THEN NoCall ELSE rest)
  /\ UNCHANGED <<database, handler, inbox, left, writes, lost>>

\* A query failed and the call returns its error, or a SET failed, which is
\* only logged.
Abandon(p) ==
  /\ resolver[p].pc # "idle"
  /\ Goto(p, NoCall)
  /\ UNCHANGED <<database, cache, handler, inbox, left, writes, history>>

-----------------------------------------------------------------------------
(* The handlers.  Each commits one write, then publishes.                  *)

\* Keys whose computation has already read something.
Begun(call) ==
  IF call.pc = "mget" THEN UserScope(call.user) ELSE call.ready \cup Outcome(call)

\* A write that can change the permissions of the keys in scope overtakes the
\* calls that already read part of them.
Overtake(scope) ==
  resolver' = [p \in Resolvers |->
                 [resolver[p] EXCEPT !.raced = @ \cup (scope \cap Begun(resolver[p]))]]

\* The write commits; the handler goes on to publish to scope.
Commit(h, scope) ==
  /\ handler[h] = {}
  /\ writes < MaxWrites
  /\ writes' = writes + 1
  /\ Overtake(scope)
  /\ handler' = [handler EXCEPT ![h] = scope]
  /\ UNCHANGED <<cache, inbox, left, history>>

(* UpdateRoleTellsNobodyElse and ExpireNever are variants for mutation     *)
(* checks and no part of the model.                                        *)
UpdateRoleTellsNobodyElse(h, r, value) ==
  /\ rolePerms' = [rolePerms EXCEPT ![r] = value]
  /\ Commit(h, UserScope(Owner))
  /\ UNCHANGED <<held, overrides, pending>>

\* CreateRole (nobody holds the new role yet) and UpdateRole: InvalidateAll.
UpdateRole(h, r, value) ==
  /\ rolePerms' = [rolePerms EXCEPT ![r] = value]
  /\ Commit(h, Keys)
  /\ UNCHANGED <<held, overrides, pending>>

\* DeleteRole: assignments cascade, a trigger removes the role's override rows.
DeleteRole(h, r) ==
  /\ r # Everyone
  /\ held' = [u \in Users |-> held[u] \ {r}]
  /\ overrides' = [c \in Channels |-> [overrides[c] EXCEPT ![r] = NoOverride]]
  /\ Commit(h, Keys)
  /\ UNCHANGED <<rolePerms, pending>>

\* SetOverride upserts one row of a channel, DeleteOverride removes it.
SetOverride(h, c, q, row) ==
  /\ overrides' = [overrides EXCEPT ![c][q] = row]
  /\ Commit(h, ChannelScope(c))
  /\ UNCHANGED <<rolePerms, held, pending>>

AssignRole(h, u, r) ==
  /\ r # Everyone
  /\ u \notin pending
  /\ r \notin held[u]
  /\ held' = [held EXCEPT ![u] = @ \cup {r}]
  /\ Commit(h, UserScope(u))
  /\ UNCHANGED <<rolePerms, overrides, pending>>

RemoveRole(h, u, r) ==
  /\ r \in held[u]
  /\ held' = [held EXCEPT ![u] = @ \ {r}]
  /\ Commit(h, UserScope(u))
  /\ UNCHANGED <<rolePerms, overrides, pending>>

\* Leave, KickMember, BanMember, SetTimeout, ClearTimeout: the members row goes
\* or changes its status, the user's assignments stay.
ChangeMembership(h, u) ==
  /\ pending' = pending \ {u}
  /\ Commit(h, UserScope(u))
  /\ UNCHANGED <<rolePerms, held, overrides>>

\* DeleteAccount: the user's assignments cascade, its override rows go.
DeleteAccount(h, u) ==
  /\ u # Owner
  /\ held' = [held EXCEPT ![u] = {}]
  /\ overrides' = [c \in Channels |-> [overrides[c] EXCEPT ![u] = NoOverride]]
  /\ pending' = pending \ {u}
  /\ Commit(h, UserScope(u))
  /\ UNCHANGED rolePerms

\* AcceptOnboarding, GetOnboardingStatus: the auto-roles are assigned and no
\* invalidation is published.
Activate(u) ==
  /\ u \in pending
  /\ writes < MaxWrites
  /\ writes' = writes + 1
  /\ pending' = pending \ {u}
  /\ held' = [held EXCEPT ![u] = @ \cup AutoRoles]
  /\ Overtake(UserScope(u))
  /\ why' = [k \in Keys |-> IF k \in UserScope(u) \cap Cached
                            THEN why[k] \cup {"unannounced"} ELSE why[k]]
  /\ UNCHANGED <<rolePerms, overrides, cache, handler, inbox, left, lost>>

\* The invalidation of keys is given up.
Lose(keys) ==
  /\ lost' = TRUE
  /\ why' = [k \in Keys |-> IF k \in keys \cap Cached THEN why[k] \cup {"lost"}
                                                      ELSE why[k]]

\* publish: delivered, or failed and only logged.
Publish(h) ==
  /\ handler[h] # {}
  /\ inbox' = Append(inbox, handler[h])
  /\ handler' = [handler EXCEPT ![h] = {}]
  /\ UNCHANGED <<database, cache, resolver, left, writes, history>>

PublishFails(h) ==
  /\ handler[h] # {}
  /\ Lose(handler[h])
  /\ handler' = [handler EXCEPT ![h] = {}]
  /\ UNCHANGED <<database, cache, resolver, inbox, left, writes>>

-----------------------------------------------------------------------------
(* The subscriber and the cache's own expiry *)

\* handleMessage: the scan finds the matching keys.
HandleMessage ==
  /\ left = {}
  /\ inbox # <<>>
  /\ inbox' = Tail(inbox)
  /\ left' = Head(inbox) \cap Cached
  /\ UNCHANGED <<database, cache, resolver, handler, writes, history>>

Evict(k) ==
  /\ cache' = [cache EXCEPT ![k] = Miss]
  /\ why' = [why EXCEPT ![k] = {}]
  /\ UNCHANGED lost

DeleteKey(k) ==
  /\ k \in left
  /\ left' = left \ {k}
  /\ Evict(k)
  /\ UNCHANGED <<database, resolver, handler, inbox, writes>>

\* A SCAN or DEL fails: the rest of the message is given up.
SweepFails ==
  /\ left # {}
  /\ left' = {}
  /\ Lose(left)
  /\ UNCHANGED <<database, cache, resolver, handler, inbox, writes>>

\* The subscription drops: what was under way to it is lost.
Disconnect ==
  /\ inbox # <<>>
  /\ inbox' = Tail(inbox)
  /\ Lose(Head(inbox))
  /\ UNCHANGED <<database, cache, resolver, handler, left, writes>>

ExpireNever(k) == FALSE /\ UNCHANGED vars

\* CacheTTL runs out.
Expire(k) ==
  /\ k \in Cached
  /\ Evict(k)
  /\ UNCHANGED <<database, resolver, handler, inbox, left, writes>>

Handle(h) ==
  \/ \E r \in Roles, value \in RoleValues : UpdateRole(h, r, value)
  \/ \E r \in Roles : DeleteRole(h, r)
  \/ \E c \in Channels, q \in Principals, row \in OverrideValues :
       SetOverride(h, c, q, row)
  \/ \E u \in Users, r \in Roles : AssignRole(h, u, r) \/ RemoveRole(h, u, r)
  \/ \E u \in Users : ChangeMembership(h, u) \/ DeleteAccount(h, u)
  \/ Publish(h)
  \/ PublishFails(h)

Work(p) ==
  \/ \E ok \in BOOLEAN : GetMany(p, ok)
  \/ ReadBase(p)
  \/ ReadOverrides(p)
  \/ \E k \in Keys : Store(p, k)

Next ==
  \/ \E p \in Resolvers :
       \/ \E k \in Keys, ok \in BOOLEAN : Resolve(p, k, ok)
       \/ \E c \in Channels, ok \in BOOLEAN : FilterUsersPermitted(p, c, ok)
       \/ \E u \in Users : FilterPermitted(p, u)
       \/ Work(p)
       \/ Abandon(p)
  \/ \E h \in Handlers : Handle(h)
  \/ \E u \in Users : Activate(u)
  \/ HandleMessage
  \/ \E k \in Keys : DeleteKey(k) \/ Expire(k)
  \/ SweepFails
  \/ Disconnect

Spec == Init /\ [][Next]_vars

\* Requests run to their end and Valkey expires keys.
FairSpec ==
  /\ Spec
  /\ \A p \in Resolvers : WF_vars(Work(p))
  /\ \A k \in Keys : WF_vars(Expire(k))

-----------------------------------------------------------------------------
(* Properties *)

Entry == [hit : BOOLEAN, perm : SUBSET Perms]
Reasons == {"race", "lost", "unannounced"}
Call == [pc : {"idle", "mget", "base", "overrides", "store"},
         user : Users \cup {Owner}, todo : SUBSET Keys, ready : SUBSET Keys,
         base : SUBSET Perms, roles : SUBSET Roles, out : [Keys -> Entry],
         raced : SUBSET Keys]

TypeOK ==
  /\ rolePerms \in [Roles -> SUBSET Perms]
  /\ held \in [Users -> SUBSET Roles]
  /\ overrides \in [Channels -> [Principals -> Override]]
  /\ pending \subseteq Users
  /\ cache \in [Keys -> Entry]
  /\ resolver \in [Resolvers -> Call]
  /\ \A p \in Resolvers :
       /\ resolver[p].ready \subseteq resolver[p].todo
       /\ resolver[p].todo \cap Outcome(resolver[p]) = {}
       /\ resolver[p].pc = "overrides" => resolver[p].ready # {}
  /\ handler \in [Handlers -> SUBSET Keys]
  /\ inbox \in Seq(SUBSET Keys)
  /\ left \subseteq Keys
  /\ writes \in 0..MaxWrites
  /\ why \in [Keys -> SUBSET Reasons]
  /\ lost \in BOOLEAN

\* An invalidation that matches the key has still to be published, taken from
\* the subscription or carried out.
Announced(k) ==
  \/ \E h \in Handlers : k \in handler[h]
  \/ \E i \in 1..Len(inbox) : k \in inbox[i]
  \/ k \in left

\* Every handler invalidates at least what its write changes: an entry that
\* disagrees with the database has a matching invalidation under way, or was
\* stored by a call that a write overtook, or lost its message, or predates an
\* unannounced activation.
StaleIsExplained == \A k \in Keys : Stale(k) => Announced(k) \/ why[k] # {}

\* Nothing in flight: every message sent has been carried out.
Quiet ==
  /\ inbox = <<>> /\ left = {}
  /\ \A h \in Handlers : handler[h] = {}
  /\ \A p \in Resolvers : resolver[p].pc = "idle"

\* Violated (cache.go, on CacheTTL: "Under normal operation, pub/sub
\* invalidation keeps the cache consistent"): only lost messages leave stale entries behind.
CacheConsistent == Quiet /\ ~lost => \A k \in Keys : ~Stale(k)

\* Violated, like the former and with the races of a resolver with a write set
\* aside: a role a member receives counts in its cached permissions.
RolesTakeEffect ==
  Quiet /\ ~lost => \A k \in Keys : Stale(k) => "race" \in why[k]

\* Once the writes stop, stale entries expire and stay away ("stale permissions
\* until they expire naturally").
EventuallyConsistent == <>[](\A k \in Keys : ~Stale(k))
=============================================================================
