----------------------------- MODULE Membership ------------------------------
(***************************************************************************)
(* Server membership: joining by invite or openly, onboarding, moderation, *)
(* bans and role assignment (internal/api/invite.go, onboarding.go,        *)
(* member.go; internal/member, internal/invite).                           *)
(*                                                                         *)
(* Every statement and transaction is one step; a handler's checks are     *)
(* queries of their own, so any other request can commit between a check   *)
(* and the write it guards.  Which permission bits a caller needs is left  *)
(* out: any member that RequireActiveMember lets through may moderate.     *)
(***************************************************************************)
EXTENDS Naturals, FiniteSets

CONSTANTS
  Users,
  Owner,      \* the account RunFirstInit made
  Roles,
  Everyone,   \* the @everyone role
  Position,   \* roles.position: a smaller number outranks a larger
  Lowest,     \* math.MaxInt: the rank of a user without explicit roles
  Codes,      \* invite codes
  MaxUses,    \* values max_uses may take
  Configs,    \* values of onboarding_config the owner may set
  Starts,     \* servers a behaviour begins with: their roles, and codes already revoked
  Requests,   \* requests in flight together
  None

ASSUME MembershipAssumption ==
  /\ Owner \in Users
  /\ Everyone \in Roles
  /\ Position \in [Roles -> Nat]
  /\ Lowest \in Nat
  /\ \A r \in Roles : Position[r] < Lowest
  /\ MaxUses \subseteq Nat
  /\ Configs \subseteq [openJoin : BOOLEAN, autoRoles : SUBSET (Roles \ {Everyone})]
  /\ Starts \subseteq [roles : {r \in SUBSET Roles : Everyone \in r}, revoked : SUBSET Codes]
  /\ None \notin Users \cup Codes \cup Roles

VARIABLES
  accounts,    \* rows of users
  member,      \* members.status, "none" without a row
  memberRoles, \* rows of member_roles, per user
  roles,       \* rows of roles
  bans,        \* rows of bans
  invite,      \* rows of invites
  config,      \* onboarding_config
  req,         \* the requests in flight
  onboarded,   \* history: users Activate let in since their row was made
  joins,       \* history: how often a user's members row was made
  added,       \* history: MEMBER_ADD events per user
  joinedBy,    \* history: members rows made for a use of each code
  granted,     \* history: assignments made by Activate, as <<user, role>>
  top,         \* history: the best position Activate ever granted
  raced,       \* history: users banned while a join of theirs was past its check
  refused      \* history: how CreatePending and Activate failed unexpectedly

tables == <<accounts, member, memberRoles, roles, bans, invite, config>>
history == <<onboarded, joins, added, joinedBy, granted, top, raced, refused>>
vars == <<tables, req, history>>

Statuses == {"none", "pending", "active", "timed_out"}
NoInvite == [open |-> FALSE, max |-> 0, used |-> 0]
Revoked == [open |-> FALSE, max |-> 1, used |-> 0]
NoRequest == [pc |-> "idle", user |-> None, target |-> None, arg |-> None,
              rank |-> 0, roles |-> {}]

\* RunFirstInit: the owner is an active member holding @everyone.  Since then
\* roles were created and invites made and revoked.
Init ==
  /\ accounts = Users
  /\ member = [u \in Users |-> IF u = Owner THEN "active" ELSE "none"]
  /\ memberRoles = [u \in Users |-> IF u = Owner THEN {Everyone} ELSE {}]
  /\ \E start \in Starts :
       /\ roles = start.roles
       /\ invite = [c \in Codes |-> IF c \in start.revoked THEN Revoked ELSE NoInvite]
  /\ bans = {}
  /\ config \in Configs
  /\ req = [q \in Requests |-> NoRequest]
  /\ onboarded = {Owner}
  /\ joins = [u \in Users |-> 0]
  /\ added = [u \in Users |-> 0]
  /\ joinedBy = [c \in Codes |-> 0]
  /\ granted = {}
  /\ top = Lowest
  /\ raced = {}
  /\ refused = {}

Goto(q, r) == req' = [req EXCEPT ![q] = r]
Return(q) == Goto(q, NoRequest)

\* RequireActiveMember: only a missing or a pending row is turned away.
Admitted(u) == member[u] \notin {"none", "pending"}

\* HighestPosition: the smallest position among the explicitly assigned roles.
Rank(u) ==
  LET held == {Position[r] : r \in memberRoles[u] \ {Everyone}}
  IN  IF held = {} THEN Lowest ELSE CHOOSE p \in held : \A o \in held : p <= o

-----------------------------------------------------------------------------
(* Joining *)

CreateInvite(c, max) ==
  /\ invite[c] = NoInvite
  /\ invite' = [invite EXCEPT ![c] = [open |-> TRUE, max |-> max, used |-> 0]]
  /\ UNCHANGED <<accounts, member, memberRoles, roles, bans, config, req, history>>

\* DeleteInvite, or expires_at passes: the code can be used no more.
CloseInvite(c) ==
  /\ invite[c].open
  /\ invite' = [invite EXCEPT ![c].open = FALSE]
  /\ UNCHANGED <<accounts, member, memberRoles, roles, bans, config, req, history>>

Usable(c) == invite[c].open /\ invite[c].used < invite[c].max

\* JoinViaInvite and JoinServer look for a ban first.
CheckBan(q, u, c) ==
  /\ req[q].pc = "idle"
  /\ u \in accounts \ bans
  /\ c = None => config.openJoin
  /\ Goto(q, [NoRequest EXCEPT !.pc = IF c = None THEN "create" ELSE "validate",
                               !.user = u, !.arg = c])
  /\ UNCHANGED <<tables, history>>

\* GetByCode and Validate, then the account and onboarding checks.
ValidateInvite(q) ==
  /\ req[q].pc = "validate"
  /\ IF Usable(req[q].arg) /\ req[q].user \in accounts
     THEN Goto(q, [req[q] EXCEPT !.pc = "use"])
     ELSE Return(q)
  /\ UNCHANGED <<tables, history>>

(* UseUnchecked, ActivateAnyStatus, CheckCallerIgnoresOwner,               *)
(* BanKeepsMember and CheckRoleEqual, each before the definition it stands *)
(* in for, are variants for mutation checks and no part of the model.      *)
UseUnchecked(q) ==
  LET c == req[q].arg IN
  /\ req[q].pc = "use"
  /\ IF invite[c].open
     THEN /\ invite' = [invite EXCEPT ![c].used = @ + 1]
          /\ Goto(q, [req[q] EXCEPT !.pc = "create"])
     ELSE /\ UNCHANGED invite
          /\ Return(q)
  /\ UNCHANGED <<accounts, member, memberRoles, roles, bans, config, history>>

\* Use: one UPDATE that checks and counts.
Use(q) ==
  LET c == req[q].arg IN
  /\ req[q].pc = "use"
  /\ IF Usable(c)
     THEN /\ invite' = [invite EXCEPT ![c].used = @ + 1]
          /\ Goto(q, [req[q] EXCEPT !.pc = "create"])
     ELSE /\ UNCHANGED invite
          /\ Return(q)
  /\ UNCHANGED <<accounts, member, memberRoles, roles, bans, config, history>>

\* CreatePending: the members row and the @everyone row in one transaction.
CreatePending(q) ==
  LET u == req[q].user
      c == req[q].arg
  IN
  /\ req[q].pc = "create"
  /\ u \in accounts
  /\ member[u] = "none"
  /\ Everyone \notin memberRoles[u]
  /\ member' = [member EXCEPT ![u] = "pending"]
  /\ memberRoles' = [memberRoles EXCEPT ![u] = @ \cup {Everyone}]
  /\ joins' = [joins EXCEPT ![u] = @ + 1]
  /\ joinedBy' = IF c = None THEN joinedBy ELSE [joinedBy EXCEPT ![c] = @ + 1]
  /\ onboarded' = onboarded \ {u}
  /\ Return(q)
  /\ UNCHANGED <<accounts, roles, bans, invite, config, added, granted, top, raced,
                 refused>>

\* The members row exists (answered with that row), the @everyone row exists
\* (unique violation, rolled back) or the account is gone.
CreatePendingFails(q) ==
  LET u == req[q].user IN
  /\ req[q].pc = "create"
  /\ \/ u \notin accounts
     \/ member[u] # "none"
     \/ Everyone \in memberRoles[u]
  /\ refused' = IF u \in accounts /\ member[u] = "none"
                THEN refused \cup {"join"} ELSE refused
  /\ Return(q)
  /\ UNCHANGED <<tables, onboarded, joins, added, joinedBy, granted, top, raced>>

-----------------------------------------------------------------------------
(* Onboarding *)

UpdateOnboarding(new) ==
  /\ config' = new
  /\ UNCHANGED <<accounts, member, memberRoles, roles, bans, invite, req, history>>

\* AcceptOnboarding, or GetOnboardingStatus without required documents, reads
\* the configuration and makes its checks.
BeginActivate(q, u) ==
  /\ req[q].pc = "idle"
  /\ u \in accounts
  /\ Goto(q, [NoRequest EXCEPT !.pc = "activate", !.user = u,
                               !.roles = config.autoRoles])
  /\ UNCHANGED <<tables, history>>

Best(a, b) == IF a < b THEN a ELSE b

ActivateAnyStatus(q) ==
  LET u == req[q].user
      auto == req[q].roles
  IN
  /\ req[q].pc = "activate"
  /\ member[u] # "none"
  /\ auto \subseteq roles
  /\ member' = [member EXCEPT ![u] = "active"]
  /\ memberRoles' = [memberRoles EXCEPT ![u] = @ \cup auto]
  /\ onboarded' = onboarded \cup {u}
  /\ added' = [added EXCEPT ![u] = @ + 1]
  /\ granted' = granted \cup ({u} \X auto)
  /\ top' = IF auto = {} THEN top
            ELSE Best(top, CHOOSE p \in {Position[r] : r \in auto} :
                             \A r \in auto : p <= Position[r])
  /\ Return(q)
  /\ UNCHANGED <<accounts, roles, bans, invite, config, joins, joinedBy, raced, refused>>

\* Activate: only a pending row, with the auto-roles read before; MEMBER_ADD.
Activate(q) ==
  LET u == req[q].user
      auto == req[q].roles
  IN
  /\ req[q].pc = "activate"
  /\ member[u] = "pending"
  /\ auto \subseteq roles
  /\ member' = [member EXCEPT ![u] = "active"]
  /\ memberRoles' = [memberRoles EXCEPT ![u] = @ \cup auto]
  /\ onboarded' = onboarded \cup {u}
  /\ added' = [added EXCEPT ![u] = @ + 1]
  /\ granted' = granted \cup ({u} \X auto)
  /\ top' = IF auto = {} THEN top
            ELSE Best(top, CHOOSE p \in {Position[r] : r \in auto} :
                             \A r \in auto : p <= Position[r])
  /\ Return(q)
  /\ UNCHANGED <<accounts, roles, bans, invite, config, joins, joinedBy, raced, refused>>

\* ErrNotPending, or an auto-role that no longer exists rolls it back.
ActivateFails(q) ==
  LET u == req[q].user IN
  /\ req[q].pc = "activate"
  /\ \/ member[u] # "pending"
     \/ ~(req[q].roles \subseteq roles)
  /\ refused' = IF member[u] = "pending" THEN refused \cup {"activate"} ELSE refused
  /\ Return(q)
  /\ UNCHANGED <<tables, onboarded, joins, added, joinedBy, granted, top, raced>>

-----------------------------------------------------------------------------
(* Moderation *)

CheckCallerIgnoresOwner(q, caller, target, op) ==
  /\ req[q].pc = "idle"
  /\ Admitted(caller)
  /\ Goto(q, [NoRequest EXCEPT !.pc = "check", !.user = caller, !.target = target,
                               !.arg = op, !.rank = Rank(caller)])
  /\ UNCHANGED <<tables, history>>

\* KickMember, BanMember, SetTimeout: the caller's rank is read first.
CheckCaller(q, caller, target, op) ==
  /\ req[q].pc = "idle"
  /\ Admitted(caller)
  /\ target # Owner
  /\ Goto(q, [NoRequest EXCEPT !.pc = "check", !.user = caller, !.target = target,
                               !.arg = op, !.rank = Rank(caller)])
  /\ UNCHANGED <<tables, history>>

\* checkHierarchy: the target must be ranked strictly below the caller.
CheckTarget(q) ==
  /\ req[q].pc = "check"
  /\ IF req[q].rank < Rank(req[q].target)
     THEN Goto(q, [req[q] EXCEPT !.pc = req[q].arg])
     ELSE Return(q)
  /\ UNCHANGED <<tables, history>>

\* Delete; without a members row it is ErrNotFound.
Kick(q) ==
  /\ req[q].pc = "kick"
  /\ member' = [member EXCEPT ![req[q].target] = "none"]
  /\ Return(q)
  /\ UNCHANGED <<accounts, memberRoles, roles, bans, invite, config, history>>

\* Past its ban check and on the way to CreatePending.
Joining(u) == \E q \in Requests : /\ req[q].user = u
                                  /\ req[q].pc \in {"validate", "use", "create"}

BanKeepsMember(q) ==
  LET u == req[q].target IN
  /\ req[q].pc = "ban"
  /\ IF u \in accounts \ bans
     THEN /\ bans' = bans \cup {u}
          /\ raced' = IF Joining(u) THEN raced \cup {u} ELSE raced \ {u}
     ELSE UNCHANGED <<bans, raced>>
  /\ Return(q)
  /\ UNCHANGED <<accounts, member, memberRoles, roles, invite, config, onboarded, joins,
                 added, joinedBy, granted, top, refused>>

\* Ban: the bans row and the removal in one transaction; a second ban, or one
\* of a deleted account, fails.
Ban(q) ==
  LET u == req[q].target IN
  /\ req[q].pc = "ban"
  /\ IF u \in accounts \ bans
     THEN /\ bans' = bans \cup {u}
          /\ member' = [member EXCEPT ![u] = "none"]
          /\ raced' = IF Joining(u) THEN raced \cup {u} ELSE raced \ {u}
     ELSE UNCHANGED <<bans, member, raced>>
  /\ Return(q)
  /\ UNCHANGED <<accounts, memberRoles, roles, invite, config, onboarded, joins, added,
                 joinedBy, granted, top, refused>>

\* SetTimeout: whatever the status of the row.
SetTimeout(q) ==
  /\ req[q].pc = "timeout"
  /\ member' = [member EXCEPT ![req[q].target] = IF @ = "none" THEN @ ELSE "timed_out"]
  /\ Return(q)
  /\ UNCHANGED <<accounts, memberRoles, roles, bans, invite, config, history>>

\* ClearTimeout checks neither the target's rank nor its status.  Here and in
\* Unban the caller's admission is checked in the step of the write: a caller
\* whose admission ended in between does what the owner can do at any time.
ClearTimeout(caller, u) ==
  /\ Admitted(caller)
  /\ member[u] # "none"
  /\ member' = [member EXCEPT ![u] = "active"]
  /\ UNCHANGED <<accounts, memberRoles, roles, bans, invite, config, req, history>>

Leave(u) ==
  /\ u # Owner
  /\ member[u] # "none"
  /\ member' = [member EXCEPT ![u] = "none"]
  /\ UNCHANGED <<accounts, memberRoles, roles, bans, invite, config, req, history>>

Unban(caller, u) ==
  /\ Admitted(caller)
  /\ u \in bans
  /\ bans' = bans \ {u}
  /\ UNCHANGED <<accounts, member, memberRoles, roles, invite, config, req, history>>

\* DeleteAccount: everything that references the user cascades.
DeleteAccount(u) ==
  /\ u \in accounts \ {Owner}
  /\ accounts' = accounts \ {u}
  /\ member' = [member EXCEPT ![u] = "none"]
  /\ memberRoles' = [memberRoles EXCEPT ![u] = {}]
  /\ bans' = bans \ {u}
  /\ UNCHANGED <<roles, invite, config, req, history>>

-----------------------------------------------------------------------------
(* Roles *)

CheckRoleEqual(q, caller, target, r, op) ==
  /\ req[q].pc = "idle"
  /\ Admitted(caller)
  /\ r \in roles \ {Everyone}
  /\ Position[r] >= Rank(caller)
  /\ op = "assign" => Admitted(target)
  /\ Goto(q, [NoRequest EXCEPT !.pc = op, !.user = caller, !.target = target, !.arg = r])
  /\ UNCHANGED <<tables, history>>

\* AssignRole and RemoveRole: the role must rank strictly below the caller;
\* AssignRole also looks the target up (GetByUserID hides pending members).
CheckRole(q, caller, target, r, op) ==
  /\ req[q].pc = "idle"
  /\ Admitted(caller)
  /\ r \in roles \ {Everyone}
  /\ Position[r] > Rank(caller)
  /\ op = "assign" => Admitted(target)
  /\ Goto(q, [NoRequest EXCEPT !.pc = op, !.user = caller, !.target = target, !.arg = r])
  /\ UNCHANGED <<tables, history>>

\* INSERT: refused when the role or the account is gone or the row is there.
AssignRole(q) ==
  LET u == req[q].target IN
  /\ req[q].pc = "assign"
  /\ IF req[q].arg \in roles \ memberRoles[u] /\ u \in accounts
     THEN memberRoles' = [memberRoles EXCEPT ![u] = @ \cup {req[q].arg}]
     ELSE UNCHANGED memberRoles
  /\ Return(q)
  /\ UNCHANGED <<accounts, member, roles, bans, invite, config, history>>

RemoveRole(q) ==
  LET u == req[q].target IN
  /\ req[q].pc = "remove"
  /\ memberRoles' = [memberRoles EXCEPT ![u] = @ \ {req[q].arg}]
  /\ Return(q)
  /\ UNCHANGED <<accounts, member, roles, bans, invite, config, history>>

\* DeleteRole: the role must rank strictly below the caller.
CheckDeleteRole(q, caller, r) ==
  /\ req[q].pc = "idle"
  /\ Admitted(caller)
  /\ r \in roles
  /\ Position[r] > Rank(caller)
  /\ Goto(q, [NoRequest EXCEPT !.pc = "delete_role", !.arg = r])
  /\ UNCHANGED <<tables, history>>

\* Delete spares @everyone; the assignments cascade, config.autoRoles does not.
DeleteRole(q) ==
  LET gone == {req[q].arg} \ {Everyone} IN
  /\ req[q].pc = "delete_role"
  /\ roles' = roles \ gone
  /\ memberRoles' = [u \in Users |-> memberRoles[u] \ gone]
  /\ Return(q)
  /\ UNCHANGED <<accounts, member, bans, invite, config, history>>

\* A query fails and the handler answers 500.
Fail(q) ==
  /\ req[q].pc # "idle"
  /\ Return(q)
  /\ UNCHANGED <<tables, history>>

-----------------------------------------------------------------------------
Join(q) ==
  \/ \E u \in Users, c \in Codes \cup {None} : CheckBan(q, u, c)
  \/ ValidateInvite(q)
  \/ Use(q)
  \/ CreatePending(q)
  \/ CreatePendingFails(q)

Onboard(q) ==
  \/ \E u \in Users : BeginActivate(q, u)
  \/ Activate(q)
  \/ ActivateFails(q)

Moderate(q) ==
  \/ \E caller, target \in Users, op \in {"kick", "ban", "timeout"} :
       CheckCaller(q, caller, target, op)
  \/ CheckTarget(q)
  \/ Kick(q)
  \/ Ban(q)
  \/ SetTimeout(q)

ChangeRoles(q) ==
  \/ \E caller, target \in Users, r \in Roles, op \in {"assign", "remove"} :
       CheckRole(q, caller, target, r, op)
  \/ AssignRole(q)
  \/ RemoveRole(q)
  \/ \E caller \in Users, r \in Roles : CheckDeleteRole(q, caller, r)
  \/ DeleteRole(q)

Configure ==
  \/ \E c \in Codes, max \in MaxUses : CreateInvite(c, max)
  \/ \E c \in Codes : CloseInvite(c)
  \/ \E new \in Configs : UpdateOnboarding(new)

Next ==
  \/ \E q \in Requests : Join(q) \/ Onboard(q) \/ Moderate(q) \/ ChangeRoles(q) \/ Fail(q)
  \/ Configure
  \/ \E u \in Users : Leave(u) \/ DeleteAccount(u)
  \/ \E caller, u \in Users : ClearTimeout(caller, u) \/ Unban(caller, u)

Spec == Init /\ [][Next]_vars

-----------------------------------------------------------------------------
(* Properties *)

Phases == {"idle", "validate", "use", "create", "activate", "check", "kick", "ban",
           "timeout", "assign", "remove", "delete_role"}

Request == [pc : Phases, user : Users \cup {None}, target : Users \cup {None},
            arg : Codes \cup Roles \cup {None, "kick", "ban", "timeout"},
            rank : Nat, roles : SUBSET Roles]

TypeOK ==
  /\ accounts \subseteq Users
  /\ member \in [Users -> Statuses]
  /\ memberRoles \in [Users -> SUBSET Roles]
  /\ \A u \in Users \ accounts : member[u] = "none" /\ memberRoles[u] = {}
  /\ \A u \in Users : memberRoles[u] \subseteq roles
  /\ roles \subseteq Roles
  /\ bans \subseteq accounts
  /\ invite \in [Codes -> [open : BOOLEAN, max : Nat, used : Nat]]
  /\ config \in Configs
  /\ req \in [Requests -> Request]
  /\ onboarded \subseteq Users
  /\ joins \in [Users -> Nat] /\ added \in [Users -> Nat]
  /\ joinedBy \in [Codes -> Nat]
  /\ raced \subseteq Users
  /\ granted \subseteq Users \X Roles
  /\ top \in Nat
  /\ refused \subseteq {"join", "activate"}

\* However many joins hold a validated code, Use hands out at most max_uses, and
\* no member gets in on a code without a use of it.
InviteUsesBounded ==
  \A c \in Codes : joinedBy[c] <= invite[c].used /\ invite[c].used <= invite[c].max

\* No sequence of kicks, bans, timeouts, leaves and deletions takes the server
\* from its owner, who has no rank to protect it.
OwnerKeepsServer ==
  Owner \in accounts /\ Owner \notin bans /\ member[Owner] = "active"

\* Concurrent AcceptOnboarding and GetOnboardingStatus announce a new member
\* once: no more MEMBER_ADD events than members rows made.
AnnouncedOnce == \A u \in Users : added[u] <= joins[u]

\* A banned user has a members row only if its join had passed the ban check
\* when the ban was committed.
BannedMembersRaced ==
  \A u \in bans : member[u] # "none" => u \in raced

\* Role assignment never reaches the top: whatever chain of members assigned
\* them, and however stale their checks, a role that Activate did not give its
\* holder ranks below the best role Activate ever gave anybody.
AssignedBelowTop ==
  \A u \in Users : \A r \in memberRoles[u] \ {Everyone} :
    <<u, r>> \in granted \/ top < Position[r]

\* Violated: only a member who finished onboarding is admitted.  RequireActiveMember:
\* "Onboarding must be completed first"; memberQuery: pending members should not
\* "be targetable by moderation actions".
AdmittedAreOnboarded == \A u \in Users : Admitted(u) => u \in onboarded

\* Violated: a user without a members row holds no roles.  Delete: "The member_roles rows
\* cascade automatically."
RolesGoWithMember == \A u \in Users : member[u] = "none" => memberRoles[u] = {}

\* Violated: CreatePending fails only for a user who already has a membership record.
JoinRefusedOnlyToMembers == "join" \notin refused

\* Violated: Activate fails only for a member who is not pending.
ActivateRefusedOnlyIfNotPending == "activate" \notin refused

\* Violated: Ban removes the member together with inserting the ban, and joins
\* check for the ban, so a banned user is not a member.
BannedAreOut == \A u \in bans : member[u] = "none"
=============================================================================
