-------------------------- MODULE MembershipProofs ---------------------------
(***************************************************************************)
(* Proofs about Membership, for every set of users, roles, codes and       *)
(* requests.  Each property has an inductive invariant of its own, on top  *)
(* of the typing of the tables and of what a request in flight carries.    *)
(***************************************************************************)
EXTENDS Membership, FiniteSetTheorems, TLAPS

\* What a request carries from its checks to the statement they guard.
RequestsCarry ==
  \A q \in Requests :
    LET r == req[q] IN
    /\ r.pc \in {"validate", "use"} => r.user \in Users /\ r.arg \in Codes
    /\ r.pc = "create" => r.user \in Users /\ r.arg \in Codes \cup {None}
    /\ r.pc = "activate" => r.user \in Users /\ r.roles \subseteq Roles \ {Everyone}
    /\ r.pc = "check" => r.arg \in {"kick", "ban", "timeout"}
    /\ r.pc \in {"check", "kick", "ban", "timeout"} => r.target \in Users \ {Owner}
    /\ r.pc \in {"assign", "remove"} => r.target \in Users /\ r.arg \in Roles \ {Everyone}

Typed == TypeOK /\ RequestsCarry

\* Requests that have paid for a use of code c and have not joined yet.
Holders(c) == {q \in Requests : req[q].pc = "create" /\ req[q].arg = c}

\* A use of a code is a join made, a join still to be made, or lost.
InviteInv ==
  \A c \in Codes :
    /\ IsFiniteSet(Holders(c))
    /\ joinedBy[c] + Cardinality(Holders(c)) <= invite[c].used
    /\ invite[c].used <= invite[c].max

\* A members row that is still pending was made and not announced.
AnnounceInv ==
  \A u \in Users : added[u] + (IF member[u] = "pending" THEN 1 ELSE 0) <= joins[u]

\* A join past its check for a user who is banned now was overtaken by the ban.
BanInv ==
  /\ BannedMembersRaced
  /\ \A u \in bans : Joining(u) => u \in raced

\* Nothing that was granted, assigned or is about to be assigned outranks top.
TopInv ==
  /\ top <= Lowest
  /\ \A g \in granted : top <= Position[g[2]]
  /\ AssignedBelowTop
  /\ \A q \in Requests : req[q].pc = "assign" => top < Position[req[q].arg]

-----------------------------------------------------------------------------
(* Operators. *)

\* A nonempty set of naturals has a least element: the finite sets of its
\* elements up to one of them are well-founded under inclusion.
LEMMA NatSetHasLeast ==
  ASSUME NEW S \in SUBSET Nat, S # {}
  PROVE  \E p \in S : \A o \in S : p <= o
<1> DEFINE UpTo(m) == {k \in S : k <= m}
           Initials == {UpTo(m) : m \in S}
<1>1. Initials \subseteq FiniteSubsetsOf(S)
  <2>1. ASSUME NEW m \in S PROVE IsFiniteSet(UpTo(m))
    BY FS_BoundedSetOfNaturals
  <2>2. QED
    BY <2>1 DEF FiniteSubsetsOf
<1>2. PICK A \in Initials : \A B \in Initials : <<B, A>> \notin StrictSubsetOrdering(S)
  <2>1. Initials # {}
    OBVIOUS
  <2> HIDE DEF Initials
  <2>2. QED
    BY <1>1, <2>1, FS_StrictSubsetOrderingWellFounded, WFMin
<1>3. PICK p \in S : A = UpTo(p)
  BY <1>2
<1>4. ASSUME NEW o \in S, o < p PROVE FALSE
  <2>1. UpTo(o) \subseteq UpTo(p) /\ UpTo(o) # UpTo(p)
    <3>1. p \in UpTo(p) /\ p \notin UpTo(o)
      BY <1>4
    <3>2. ASSUME NEW k \in UpTo(o) PROVE k \in UpTo(p)
      BY <1>4
    <3>3. QED
      BY <3>1, <3>2
  <2>2. UpTo(o) \in SUBSET S /\ UpTo(p) \in SUBSET S /\ UpTo(o) \in Initials
    OBVIOUS
  <2> HIDE DEF UpTo, Initials
  <2>3. QED
    BY <2>1, <2>2, <1>2, <1>3 DEF StrictSubsetOrdering
<1>5. QED
  BY <1>4

\* HighestPosition answers the position of a role the user holds that none of
\* its roles outranks, or the lowest rank of all.
LEMMA RankIsBest ==
  ASSUME TypeOK, NEW u \in Users
  PROVE  /\ Rank(u) \in Nat /\ Rank(u) <= Lowest
         /\ Rank(u) = Lowest \/ \E r \in memberRoles[u] \ {Everyone} : Rank(u) = Position[r]
<1> DEFINE held == {Position[r] : r \in memberRoles[u] \ {Everyone}}
<1> USE MembershipAssumption
<1>1. held \in SUBSET Nat /\ \A p \in held : p < Lowest
  BY DEF TypeOK
<1>2. CASE held = {}
  BY <1>2 DEF Rank
<1>3. CASE held # {}
  <2>1. \E p \in held : \A o \in held : p <= o
    BY <1>1, <1>3, NatSetHasLeast
  <2> HIDE DEF held
  <2>2. Rank(u) \in held
    BY <1>3, <2>1 DEF Rank, held
  <2>3. QED
    BY <1>1, <2>2 DEF held
<1>4. QED
  BY <1>2, <1>3

LEMMA BestIsLess ==
  ASSUME NEW a \in Nat, NEW b \in Nat
  PROVE  Best(a, b) \in Nat /\ Best(a, b) <= a /\ Best(a, b) <= b
BY DEF Best

\* The best position among some roles.
LEMMA LeastPosition ==
  ASSUME NEW auto \in SUBSET Roles, auto # {}
  PROVE  LET least == CHOOSE p \in {Position[r] : r \in auto} : \A r \in auto : p <= Position[r]
         IN  least \in Nat /\ \A r \in auto : least <= Position[r]
<1> DEFINE held == {Position[r] : r \in auto}
<1>1. held \in SUBSET Nat /\ held # {}
  BY MembershipAssumption
<1>2. \E p \in held : \A r \in auto : p <= Position[r]
  <2>1. \A r \in auto : Position[r] \in held
    OBVIOUS
  <2> HIDE DEF held
  <2>2. QED
    BY <1>1, <2>1, NatSetHasLeast
<1> HIDE DEF held
<1>3. QED
  BY <1>1, <1>2 DEF held

\* A handler's move changes its own request and no other.
LEMMA GotoMoves ==
  ASSUME TypeOK, NEW q \in Requests, NEW r \in Request, Goto(q, r)
  PROVE  /\ req' \in [Requests -> Request]
         /\ req'[q] = r
         /\ \A p \in Requests : p # q => req'[p] = req[p]
BY DEF Goto, TypeOK

LEMMA NoRequestTyped == NoRequest \in Request
BY DEF NoRequest, Request, Phases

\* A move that carries what its phase needs keeps the requests well formed.
LEMMA GotoCarries ==
  ASSUME Typed, NEW q \in Requests, NEW r \in Request, Goto(q, r),
         /\ r.pc \in {"validate", "use"} => r.user \in Users /\ r.arg \in Codes
         /\ r.pc = "create" => r.user \in Users /\ r.arg \in Codes \cup {None}
         /\ r.pc = "activate" => r.user \in Users /\ r.roles \subseteq Roles \ {Everyone}
         /\ r.pc = "check" => r.arg \in {"kick", "ban", "timeout"}
         /\ r.pc \in {"check", "kick", "ban", "timeout"} => r.target \in Users \ {Owner}
         /\ r.pc \in {"assign", "remove"} => r.target \in Users /\ r.arg \in Roles \ {Everyone}
  PROVE  req' \in [Requests -> Request] /\ RequestsCarry'
<1>1. /\ req' \in [Requests -> Request] /\ req'[q] = r
      /\ \A p \in Requests : p # q => req'[p] = req[p]
  BY GotoMoves DEF Typed
<1>2. QED
  BY <1>1 DEF RequestsCarry, Typed

\* A handler that answers keeps the requests well formed.
LEMMA ReturnCarries ==
  ASSUME Typed, NEW q \in Requests, Return(q)
  PROVE  req' \in [Requests -> Request] /\ RequestsCarry'
<1>1. NoRequest.pc = "idle" /\ Goto(q, NoRequest)
  BY DEF NoRequest, Return
<1>2. QED
  BY <1>1, NoRequestTyped, GotoCarries

-----------------------------------------------------------------------------
(* Types. *)

\* The tables and counters, without the requests.
TablesTyped ==
  /\ accounts \subseteq Users
  /\ member \in [Users -> Statuses]
  /\ memberRoles \in [Users -> SUBSET Roles]
  /\ \A u \in Users \ accounts : member[u] = "none" /\ memberRoles[u] = {}
  /\ \A u \in Users : memberRoles[u] \subseteq roles
  /\ Everyone \in roles /\ roles \subseteq Roles
  /\ bans \subseteq accounts
  /\ invite \in [Codes -> [open : BOOLEAN, max : Nat, used : Nat]]
  /\ config \in Configs

HistoryTyped ==
  /\ onboarded \subseteq Users
  /\ joins \in [Users -> Nat] /\ added \in [Users -> Nat]
  /\ joinedBy \in [Codes -> Nat]
  /\ raced \subseteq Users
  /\ granted \subseteq Users \X Roles
  /\ top \in Nat
  /\ refused \subseteq {"join", "activate"}

\* A step that only moves a request keeps the tables and the history.
LEMMA FrameTyped ==
  ASSUME TablesTyped, HistoryTyped, UNCHANGED <<tables, history>>
  PROVE  TablesTyped' /\ HistoryTyped'
BY DEF TablesTyped, HistoryTyped, tables, history

\* Joining keeps the types: the members row is made for a user of the table.
LEMMA JoinTyped ==
  ASSUME Typed, TablesTyped, HistoryTyped, NEW q \in Requests, Join(q)
  PROVE  Typed' /\ TablesTyped' /\ HistoryTyped'
<1> USE MembershipAssumption
<1>s. SUFFICES req' \in [Requests -> Request] /\ RequestsCarry' /\ TablesTyped' /\ HistoryTyped'
  BY DEF Typed, TypeOK, TablesTyped, HistoryTyped
<1>0. req[q] \in Request
  BY DEF Typed, TypeOK
<1>1. ASSUME NEW u \in Users, NEW c \in Codes \cup {None}, CheckBan(q, u, c)
      PROVE  req' \in [Requests -> Request] /\ RequestsCarry' /\ TablesTyped' /\ HistoryTyped'
  <2> DEFINE r == [NoRequest EXCEPT !.pc = IF c = None THEN "create" ELSE "validate",
                                    !.user = u, !.arg = c]
  <2>1. /\ r \in Request /\ r.user = u /\ r.arg = c
        /\ r.pc = IF c = None THEN "create" ELSE "validate"
    BY DEF NoRequest, Request, Phases
  <2>2. Goto(q, r) /\ UNCHANGED <<tables, history>>
    BY <1>1 DEF CheckBan
  <2> HIDE DEF r
  <2>3. QED
    BY <2>1, <2>2, GotoCarries, FrameTyped
<1>2. CASE ValidateInvite(q)
  <2> DEFINE r == [req[q] EXCEPT !.pc = "use"]
  <2>1. r \in Request /\ r.pc = "use" /\ r.user = req[q].user /\ r.arg = req[q].arg
    BY <1>0 DEF Request, Phases
  <2>2. /\ Goto(q, r) \/ Return(q)
        /\ req[q].pc = "validate" /\ UNCHANGED <<tables, history>>
    BY <1>2 DEF ValidateInvite
  <2> HIDE DEF r
  <2>3. QED
    BY <2>1, <2>2, GotoCarries, ReturnCarries, FrameTyped DEF Typed, RequestsCarry
<1>3. CASE Use(q)
  <2> DEFINE r == [req[q] EXCEPT !.pc = "create"]
  <2>1. r \in Request /\ r.pc = "create" /\ r.user = req[q].user /\ r.arg = req[q].arg
    BY <1>0 DEF Request, Phases
  <2>2. /\ Goto(q, r) \/ Return(q)
        /\ req[q].pc = "use"
        /\ UNCHANGED <<accounts, member, memberRoles, roles, bans, config, history>>
    BY <1>3 DEF Use
  <2>3. req[q].arg \in Codes
    BY <2>2 DEF Typed, RequestsCarry
  <2>4. invite' \in [Codes -> [open : BOOLEAN, max : Nat, used : Nat]]
    BY <1>3, <2>3 DEF Use, TablesTyped
  <2>5. TablesTyped' /\ HistoryTyped'
    BY <2>2, <2>4 DEF TablesTyped, HistoryTyped, history
  <2> HIDE DEF r
  <2>6. QED
    BY <2>1, <2>2, <2>5, GotoCarries, ReturnCarries DEF Typed, RequestsCarry
<1>4. CASE CreatePending(q)
  <2>1. req[q].user \in Users /\ req[q].arg \in Codes \cup {None}
    BY <1>4 DEF CreatePending, Typed, RequestsCarry
  <2>2. TablesTyped'
    BY <1>4, <2>1 DEF CreatePending, TablesTyped, Statuses
  <2>3. HistoryTyped'
    BY <1>4, <2>1 DEF CreatePending, HistoryTyped
  <2>4. QED
    BY <1>4, <2>2, <2>3, ReturnCarries DEF CreatePending
<1>5. CASE CreatePendingFails(q)
  <2>1. TablesTyped' /\ HistoryTyped'
    BY <1>5 DEF CreatePendingFails, tables, TablesTyped, HistoryTyped
  <2>2. QED
    BY <1>5, <2>1, ReturnCarries DEF CreatePendingFails
<1>6. QED
  BY <1>1, <1>2, <1>3, <1>4, <1>5 DEF Join

\* Activating keeps the types: the roles are those the request read.
LEMMA OnboardTyped ==
  ASSUME Typed, TablesTyped, HistoryTyped, NEW q \in Requests, Onboard(q)
  PROVE  Typed' /\ TablesTyped' /\ HistoryTyped'
<1> USE MembershipAssumption
<1>s. SUFFICES req' \in [Requests -> Request] /\ RequestsCarry' /\ TablesTyped' /\ HistoryTyped'
  BY DEF Typed, TypeOK, TablesTyped, HistoryTyped
<1>1. ASSUME NEW u \in Users, BeginActivate(q, u)
      PROVE  req' \in [Requests -> Request] /\ RequestsCarry' /\ TablesTyped' /\ HistoryTyped'
  <2> DEFINE r == [NoRequest EXCEPT !.pc = "activate", !.user = u, !.roles = config.autoRoles]
  <2>1. config.autoRoles \subseteq Roles \ {Everyone}
    BY DEF TablesTyped
  <2>2. r \in Request /\ r.user = u /\ r.pc = "activate" /\ r.roles = config.autoRoles
    BY <2>1 DEF NoRequest, Request, Phases
  <2>3. Goto(q, r) /\ UNCHANGED <<tables, history>>
    BY <1>1 DEF BeginActivate
  <2> HIDE DEF r
  <2>4. QED
    BY <2>1, <2>2, <2>3, GotoCarries, FrameTyped
<1>2. CASE Activate(q)
  <2>1. req[q].user \in Users /\ req[q].roles \subseteq Roles
    BY <1>2 DEF Activate, Typed, RequestsCarry
  <2>2. TablesTyped'
    BY <1>2, <2>1 DEF Activate, TablesTyped, Statuses
  <2>3. top' \in Nat
    BY <1>2, <2>1, LeastPosition, BestIsLess DEF Activate, HistoryTyped
  <2>4. HistoryTyped'
    BY <1>2, <2>1, <2>3 DEF Activate, HistoryTyped
  <2>5. QED
    BY <1>2, <2>2, <2>4, ReturnCarries DEF Activate
<1>3. CASE ActivateFails(q)
  <2>1. TablesTyped' /\ HistoryTyped'
    BY <1>3 DEF ActivateFails, tables, TablesTyped, HistoryTyped
  <2>2. QED
    BY <1>3, <2>1, ReturnCarries DEF ActivateFails
<1>4. QED
  BY <1>1, <1>2, <1>3 DEF Onboard

\* Moderation keeps the types, and its target is never the owner.
LEMMA ModerateTyped ==
  ASSUME Typed, TablesTyped, HistoryTyped, NEW q \in Requests, Moderate(q)
  PROVE  Typed' /\ TablesTyped' /\ HistoryTyped'
<1>s. SUFFICES req' \in [Requests -> Request] /\ RequestsCarry' /\ TablesTyped' /\ HistoryTyped'
  BY DEF Typed, TypeOK, TablesTyped, HistoryTyped
<1>0. req[q] \in Request
  BY DEF Typed, TypeOK
<1>1. ASSUME NEW caller \in Users, NEW target \in Users, NEW op \in {"kick", "ban", "timeout"},
             CheckCaller(q, caller, target, op)
      PROVE  req' \in [Requests -> Request] /\ RequestsCarry' /\ TablesTyped' /\ HistoryTyped'
  <2> DEFINE r == [NoRequest EXCEPT !.pc = "check", !.user = caller, !.target = target,
                                    !.arg = op, !.rank = Rank(caller)]
  <2>1. Rank(caller) \in Nat
    BY RankIsBest DEF Typed
  <2>2. r \in Request /\ r.pc = "check" /\ r.target = target /\ r.arg = op
    BY <2>1 DEF NoRequest, Request, Phases
  <2>3. Goto(q, r) /\ target # Owner /\ UNCHANGED <<tables, history>>
    BY <1>1 DEF CheckCaller
  <2> HIDE DEF r
  <2>4. QED
    BY <2>2, <2>3, GotoCarries, FrameTyped
<1>2. CASE CheckTarget(q)
  <2> DEFINE r == [req[q] EXCEPT !.pc = req[q].arg]
  <2>1. req[q].arg \in {"kick", "ban", "timeout"} /\ req[q].target \in Users \ {Owner}
    BY <1>2 DEF CheckTarget, Typed, RequestsCarry
  <2>2. r \in Request /\ r.pc = req[q].arg /\ r.target = req[q].target
    BY <1>0, <2>1 DEF Request, Phases
  <2>3. (Goto(q, r) \/ Return(q)) /\ UNCHANGED <<tables, history>>
    BY <1>2 DEF CheckTarget
  <2> HIDE DEF r
  <2>4. QED
    BY <2>1, <2>2, <2>3, GotoCarries, ReturnCarries, FrameTyped
<1>3. CASE Kick(q)
  <2>1. TablesTyped' /\ HistoryTyped'
    BY <1>3 DEF Kick, TablesTyped, HistoryTyped, history, Statuses
  <2>2. QED
    BY <1>3, <2>1, ReturnCarries DEF Kick
<1>4. CASE Ban(q)
  <2>1. req[q].target \in Users
    BY <1>4 DEF Ban, Typed, RequestsCarry
  <2>2. TablesTyped'
    BY <1>4, <2>1 DEF Ban, TablesTyped, Statuses
  <2>3. HistoryTyped'
    BY <1>4, <2>1 DEF Ban, HistoryTyped
  <2>4. QED
    BY <1>4, <2>2, <2>3, ReturnCarries DEF Ban
<1>5. CASE SetTimeout(q)
  <2>1. TablesTyped' /\ HistoryTyped'
    BY <1>5 DEF SetTimeout, TablesTyped, HistoryTyped, history, Statuses
  <2>2. QED
    BY <1>5, <2>1, ReturnCarries DEF SetTimeout
<1>6. QED
  BY <1>1, <1>2, <1>3, <1>4, <1>5 DEF Moderate

\* Role assignment keeps the types: only roles that exist are assigned.
LEMMA ChangeRolesTyped ==
  ASSUME Typed, TablesTyped, HistoryTyped, NEW q \in Requests, ChangeRoles(q)
  PROVE  Typed' /\ TablesTyped' /\ HistoryTyped'
<1>s. SUFFICES req' \in [Requests -> Request] /\ RequestsCarry' /\ TablesTyped' /\ HistoryTyped'
  BY DEF Typed, TypeOK, TablesTyped, HistoryTyped
<1>1. ASSUME NEW caller \in Users, NEW target \in Users, NEW role \in Roles,
             NEW op \in {"assign", "remove"}, CheckRole(q, caller, target, role, op)
      PROVE  req' \in [Requests -> Request] /\ RequestsCarry' /\ TablesTyped' /\ HistoryTyped'
  <2> DEFINE r == [NoRequest EXCEPT !.pc = op, !.user = caller, !.target = target, !.arg = role]
  <2>1. r \in Request /\ r.pc = op /\ r.target = target /\ r.arg = role
    BY DEF NoRequest, Request, Phases
  <2>2. Goto(q, r) /\ role # Everyone /\ UNCHANGED <<tables, history>>
    BY <1>1 DEF CheckRole
  <2> HIDE DEF r
  <2>3. QED
    BY <2>1, <2>2, GotoCarries, FrameTyped
<1>2. CASE AssignRole(q)
  <2>1. TablesTyped' /\ HistoryTyped'
    BY <1>2 DEF AssignRole, TablesTyped, HistoryTyped, history
  <2>2. QED
    BY <1>2, <2>1, ReturnCarries DEF AssignRole
<1>3. CASE RemoveRole(q)
  <2>1. TablesTyped' /\ HistoryTyped'
    BY <1>3 DEF RemoveRole, TablesTyped, HistoryTyped, history
  <2>2. QED
    BY <1>3, <2>1, ReturnCarries DEF RemoveRole
<1>4. ASSUME NEW caller \in Users, NEW role \in Roles, CheckDeleteRole(q, caller, role)
      PROVE  req' \in [Requests -> Request] /\ RequestsCarry' /\ TablesTyped' /\ HistoryTyped'
  <2> DEFINE r == [NoRequest EXCEPT !.pc = "delete_role", !.arg = role]
  <2>1. r \in Request /\ r.pc = "delete_role"
    BY DEF NoRequest, Request, Phases
  <2>2. Goto(q, r) /\ UNCHANGED <<tables, history>>
    BY <1>4 DEF CheckDeleteRole
  <2> HIDE DEF r
  <2>3. QED
    BY <2>1, <2>2, GotoCarries, FrameTyped
<1>5. CASE DeleteRole(q)
  <2>1. TablesTyped' /\ HistoryTyped'
    BY <1>5 DEF DeleteRole, TablesTyped, HistoryTyped, history
  <2>2. QED
    BY <1>5, <2>1, ReturnCarries DEF DeleteRole
<1>6. QED
  BY <1>1, <1>2, <1>3, <1>4, <1>5 DEF ChangeRoles

\* The steps that are one statement keep the types.
LEMMA StatementTyped ==
  ASSUME Typed, TablesTyped, HistoryTyped,
         \/ Configure
         \/ \E u \in Users : Leave(u) \/ DeleteAccount(u)
         \/ \E caller, u \in Users : ClearTimeout(caller, u) \/ Unban(caller, u)
  PROVE  Typed' /\ TablesTyped' /\ HistoryTyped'
<1> USE MembershipAssumption
<1>s. SUFFICES UNCHANGED req /\ TablesTyped' /\ UNCHANGED history
  BY DEF Typed, TypeOK, RequestsCarry, TablesTyped, HistoryTyped, history
<1>1. ASSUME NEW c \in Codes, NEW max \in MaxUses, CreateInvite(c, max)
      PROVE  UNCHANGED req /\ TablesTyped' /\ UNCHANGED history
  BY <1>1 DEF CreateInvite, TablesTyped
<1>2. ASSUME NEW c \in Codes, CloseInvite(c)
      PROVE  UNCHANGED req /\ TablesTyped' /\ UNCHANGED history
  BY <1>2 DEF CloseInvite, TablesTyped
<1>3. ASSUME NEW new \in Configs, UpdateOnboarding(new)
      PROVE  UNCHANGED req /\ TablesTyped' /\ UNCHANGED history
  BY <1>3 DEF UpdateOnboarding, TablesTyped
<1>4. ASSUME NEW u \in Users, Leave(u) \/ DeleteAccount(u)
      PROVE  UNCHANGED req /\ TablesTyped' /\ UNCHANGED history
  BY <1>4 DEF Leave, DeleteAccount, TablesTyped, Statuses
<1>5. ASSUME NEW caller \in Users, NEW u \in Users,
             ClearTimeout(caller, u) \/ Unban(caller, u)
      PROVE  UNCHANGED req /\ TablesTyped' /\ UNCHANGED history
  BY <1>5 DEF ClearTimeout, Unban, TablesTyped, Statuses
<1>6. QED
  BY <1>1, <1>2, <1>3, <1>4, <1>5 DEF Configure

\* Every step keeps the types and what the requests carry.
LEMMA StepTyped ==
  ASSUME Typed, TablesTyped, HistoryTyped, [Next]_vars
  PROVE  Typed' /\ TablesTyped' /\ HistoryTyped'
<1>1. ASSUME NEW q \in Requests, Fail(q)
      PROVE  Typed' /\ TablesTyped' /\ HistoryTyped'
  <2>1. req' \in [Requests -> Request] /\ RequestsCarry'
    BY <1>1, ReturnCarries DEF Fail
  <2>2. TablesTyped' /\ HistoryTyped'
    BY <1>1, FrameTyped DEF Fail
  <2>3. QED
    BY <2>1, <2>2 DEF Typed, TypeOK, TablesTyped, HistoryTyped
<1>2. CASE UNCHANGED vars
  <2>1. TablesTyped' /\ HistoryTyped' /\ UNCHANGED req
    BY <1>2, FrameTyped DEF vars
  <2>2. QED
    BY <2>1 DEF Typed, TypeOK, RequestsCarry, TablesTyped, HistoryTyped
<1>3. QED
  BY <1>1, <1>2, JoinTyped, OnboardTyped, ModerateTyped, ChangeRolesTyped, StatementTyped
     DEF Next

\* What a request carries to the statement its checks guard is well formed in
\* every reachable state, and so are the tables.
THEOREM RequestsWellFormed == Spec => [](Typed /\ TablesTyped /\ HistoryTyped)
<1>1. Init => Typed /\ TablesTyped /\ HistoryTyped
  <2> SUFFICES ASSUME Init PROVE Typed /\ TablesTyped /\ HistoryTyped
    OBVIOUS
  <2> USE MembershipAssumption
  <2>1. TablesTyped
    BY DEF Init, TablesTyped, Statuses, NoInvite, Revoked
  <2>2. HistoryTyped
    BY DEF Init, HistoryTyped
  <2>3. req \in [Requests -> Request] /\ RequestsCarry
    BY NoRequestTyped DEF Init, RequestsCarry, NoRequest
  <2>4. QED
    BY <2>1, <2>2, <2>3 DEF Typed, TypeOK, TablesTyped, HistoryTyped
<1>2. Typed /\ TablesTyped /\ HistoryTyped /\ [Next]_vars
        => Typed' /\ TablesTyped' /\ HistoryTyped'
  BY StepTyped
<1>3. QED
  BY <1>1, <1>2, PTL DEF Spec

\* Type correctness of the membership tables and the requests in flight.
THEOREM TypeCorrect == Spec => []TypeOK
<1>1. Typed => TypeOK
  BY DEF Typed
<1>2. QED
  BY <1>1, RequestsWellFormed, PTL

-----------------------------------------------------------------------------
(* Steps. *)

\* A handler's checks read the tables and write none.
LEMMA ChecksReadOnly ==
  ASSUME NEW q \in Requests
  PROVE  (\/ \E u \in Users, c \in Codes \cup {None} : CheckBan(q, u, c)
          \/ ValidateInvite(q)
          \/ \E u \in Users : BeginActivate(q, u)
          \/ \E caller, target \in Users, op \in {"kick", "ban", "timeout"} :
               CheckCaller(q, caller, target, op)
          \/ CheckTarget(q)
          \/ \E caller, target \in Users, r \in Roles, op \in {"assign", "remove"} :
               CheckRole(q, caller, target, r, op)
          \/ \E caller \in Users, r \in Roles : CheckDeleteRole(q, caller, r)
          \/ Fail(q)) => UNCHANGED <<tables, history>>
<1>1. ASSUME NEW u \in Users, NEW c \in Codes \cup {None}, CheckBan(q, u, c)
      PROVE  UNCHANGED <<tables, history>>
  BY <1>1 DEF CheckBan
<1>2. ASSUME ValidateInvite(q) PROVE UNCHANGED <<tables, history>>
  BY <1>2 DEF ValidateInvite
<1>3. ASSUME NEW u \in Users, BeginActivate(q, u)
      PROVE  UNCHANGED <<tables, history>>
  BY <1>3 DEF BeginActivate
<1>4. ASSUME NEW caller \in Users, NEW target \in Users, NEW op \in {"kick", "ban", "timeout"},
             CheckCaller(q, caller, target, op)
      PROVE  UNCHANGED <<tables, history>>
  BY <1>4 DEF CheckCaller
<1>5. ASSUME CheckTarget(q) PROVE UNCHANGED <<tables, history>>
  BY <1>5 DEF CheckTarget
<1>6. ASSUME NEW caller \in Users, NEW target \in Users, NEW r \in Roles,
             NEW op \in {"assign", "remove"}, CheckRole(q, caller, target, r, op)
      PROVE  UNCHANGED <<tables, history>>
  BY <1>6 DEF CheckRole
<1>7. ASSUME Fail(q) PROVE UNCHANGED <<tables, history>>
  BY <1>7 DEF Fail
<1>8. ASSUME NEW caller \in Users, NEW r \in Roles, CheckDeleteRole(q, caller, r)
      PROVE  UNCHANGED <<tables, history>>
  BY <1>8 DEF CheckDeleteRole
<1>9. QED
  BY <1>1, <1>2, <1>3, <1>4, <1>5, <1>6, <1>7, <1>8

\* A step is a check, a handler's statement or a statement on its own.
LEMMA StepCases ==
  ASSUME [Next]_vars
  PROVE  \/ UNCHANGED <<tables, history>>
         \/ \E q \in Requests :
              \/ Use(q) \/ CreatePending(q) \/ CreatePendingFails(q)
              \/ Activate(q) \/ ActivateFails(q)
              \/ Kick(q) \/ Ban(q) \/ SetTimeout(q)
              \/ AssignRole(q) \/ RemoveRole(q) \/ DeleteRole(q)
         \/ Configure
         \/ \E u \in Users : Leave(u) \/ DeleteAccount(u)
         \/ \E caller, u \in Users : ClearTimeout(caller, u) \/ Unban(caller, u)
BY ChecksReadOnly DEF Next, vars, Join, Onboard, Moderate, ChangeRoles

-----------------------------------------------------------------------------
(* The owner. *)

\* No step takes the server from its owner.
LEMMA StepOwner ==
  ASSUME Typed, OwnerKeepsServer, [Next]_vars
  PROVE  OwnerKeepsServer'
<1> USE DEF OwnerKeepsServer
<1>t. member \in [Users -> Statuses] /\ Owner \in Users
  BY MembershipAssumption DEF Typed, TypeOK
<1>1. CASE UNCHANGED <<tables, history>>
  BY <1>1 DEF tables
<1>2. ASSUME NEW q \in Requests, Use(q) \/ CreatePending(q) \/ CreatePendingFails(q)
      PROVE  OwnerKeepsServer'
  BY <1>2, <1>t DEF Use, CreatePending, CreatePendingFails, tables
<1>3. ASSUME NEW q \in Requests, Activate(q) \/ ActivateFails(q)
      PROVE  OwnerKeepsServer'
  BY <1>3, <1>t DEF Activate, ActivateFails, tables
<1>4. ASSUME NEW q \in Requests, Kick(q) \/ Ban(q) \/ SetTimeout(q)
      PROVE  OwnerKeepsServer'
  <2>1. req[q].target # Owner
    BY <1>4 DEF Typed, RequestsCarry, Kick, Ban, SetTimeout
  <2>2. QED
    BY <1>4, <1>t, <2>1 DEF Kick, Ban, SetTimeout
<1>5. ASSUME NEW q \in Requests, AssignRole(q) \/ RemoveRole(q) \/ DeleteRole(q)
      PROVE  OwnerKeepsServer'
  BY <1>5 DEF AssignRole, RemoveRole, DeleteRole
<1>6. CASE Configure
  BY <1>6 DEF Configure, CreateInvite, CloseInvite, UpdateOnboarding
<1>7. ASSUME NEW u \in Users, Leave(u) \/ DeleteAccount(u)
      PROVE  OwnerKeepsServer'
  BY <1>7, <1>t DEF Leave, DeleteAccount
<1>8. ASSUME NEW caller \in Users, NEW u \in Users, ClearTimeout(caller, u) \/ Unban(caller, u)
      PROVE  OwnerKeepsServer'
  BY <1>8, <1>t DEF ClearTimeout, Unban
<1>9. QED
  BY <1>1, <1>2, <1>3, <1>4, <1>5, <1>6, <1>7, <1>8, StepCases

\* The owner keeps its account and its active membership, and is never banned
\* (member.go: the checks against the owner; user.go: DeleteAccount).
THEOREM OwnerNeverLosesServer == Spec => []OwnerKeepsServer
<1>1. Init => OwnerKeepsServer
  BY MembershipAssumption DEF Init, OwnerKeepsServer
<1>2. Typed /\ OwnerKeepsServer /\ [Next]_vars => OwnerKeepsServer'
  BY StepOwner
<1>3. QED
  BY <1>1, <1>2, RequestsWellFormed, PTL DEF Spec

-----------------------------------------------------------------------------
(* Announcements. *)

\* Only the row that CreatePending made and nobody changed is announced.
LEMMA StepAnnounce ==
  ASSUME Typed, AnnounceInv, [Next]_vars
  PROVE  AnnounceInv'
<1> USE DEF AnnounceInv
<1>t. member \in [Users -> Statuses] /\ joins \in [Users -> Nat] /\ added \in [Users -> Nat]
  BY DEF Typed, TypeOK
<1>1. CASE UNCHANGED <<tables, history>>
  BY <1>1 DEF tables, history
<1>2. ASSUME NEW q \in Requests, CreatePending(q)
      PROVE  AnnounceInv'
  BY <1>2, <1>t DEF CreatePending
<1>3. ASSUME NEW q \in Requests, Activate(q)
      PROVE  AnnounceInv'
  BY <1>3, <1>t DEF Activate
<1>4. ASSUME NEW q \in Requests,
             \/ Use(q) \/ CreatePendingFails(q) \/ ActivateFails(q)
             \/ AssignRole(q) \/ RemoveRole(q) \/ DeleteRole(q)
      PROVE  UNCHANGED <<member, joins, added>>
  BY <1>4 DEF Use, CreatePendingFails, ActivateFails, AssignRole, RemoveRole, DeleteRole, tables,
     history
<1>5. ASSUME NEW q \in Requests, Kick(q) \/ Ban(q) \/ SetTimeout(q)
      PROVE  AnnounceInv'
  BY <1>5, <1>t DEF Kick, Ban, SetTimeout, history
<1>6. CASE Configure
  BY <1>6 DEF Configure, CreateInvite, CloseInvite, UpdateOnboarding, history
<1>7. ASSUME NEW u \in Users, Leave(u) \/ DeleteAccount(u)
      PROVE  AnnounceInv'
  BY <1>7, <1>t DEF Leave, DeleteAccount, history
<1>8. ASSUME NEW caller \in Users, NEW u \in Users, ClearTimeout(caller, u) \/ Unban(caller, u)
      PROVE  AnnounceInv'
  BY <1>8, <1>t DEF ClearTimeout, Unban, history
<1>9. QED
  BY <1>1, <1>2, <1>3, <1>4, <1>5, <1>6, <1>7, <1>8, StepCases

\* However many handlers activate a member at once, MEMBER_ADD is sent at most
\* once for each members row (member/repository.go: Activate updates only a
\* pending row).
THEOREM AnnouncementsBounded == Spec => []AnnouncedOnce
<1>1. Init => AnnounceInv
  BY DEF Init, AnnounceInv
<1>2. Typed /\ AnnounceInv /\ [Next]_vars => AnnounceInv'
  BY StepAnnounce
<1>3. Typed /\ AnnounceInv => AnnouncedOnce
  BY DEF AnnounceInv, AnnouncedOnce, Typed, TypeOK
<1>4. QED
  BY <1>1, <1>2, <1>3, RequestsWellFormed, PTL DEF Spec

-----------------------------------------------------------------------------
(* The requests. *)

\* How a step moves request q: it stays, answers, or enters the next phase with
\* what that phase's checks established.
Moves(q) ==
  LET old == req[q]
      new == req'[q]
  IN
  \/ new = old
  \/ new.pc \in {"idle", "activate", "check", "kick", "ban", "timeout", "remove", "delete_role"}
  \/ /\ new.pc = "validate" \/ (new.pc = "create" /\ new.arg = None)
     /\ new.user \notin bans
     /\ UNCHANGED <<tables, history>>
  \/ /\ old.pc = "validate" /\ new.pc = "use"
     /\ new.user = old.user /\ UNCHANGED <<tables, history>>
  \/ /\ old.pc = "use" /\ new.pc = "create" /\ new.user = old.user /\ new.arg = old.arg
     /\ invite' = [invite EXCEPT ![old.arg].used = @ + 1]
     /\ UNCHANGED <<accounts, member, memberRoles, roles, bans, config, history>>
  \/ /\ new.pc = "assign"
     /\ \E caller \in Users : Position[new.arg] > Rank(caller)
     /\ UNCHANGED <<tables, history>>

\* A handler that answers goes idle.
LEMMA ReturnMoves ==
  ASSUME Typed, NEW q \in Requests, Return(q)
  PROVE  /\ req'[q].pc = "idle"
         /\ \A p \in Requests : p # q => req'[p] = req[p]
<1>1. Goto(q, NoRequest) /\ NoRequest.pc = "idle"
  BY DEF Return, NoRequest
<1>2. QED
  BY <1>1, GotoMoves, NoRequestTyped DEF Typed

\* A handler's step moves its own request along its phases and no other.
LEMMA HandlerMoves ==
  ASSUME Typed, NEW q \in Requests
  PROVE  (Join(q) \/ Onboard(q) \/ Moderate(q) \/ ChangeRoles(q) \/ Fail(q)) =>
           Moves(q) /\ \A p \in Requests : p # q => req'[p] = req[p]
<1> DEFINE Others == \A p \in Requests : p # q => req'[p] = req[p]
<1>0. req[q] \in Request
  BY DEF Typed, TypeOK
<1>1. ASSUME Return(q) PROVE Moves(q) /\ Others
  BY <1>1, ReturnMoves DEF Moves
<1>2. ASSUME NEW u \in Users, NEW c \in Codes \cup {None}, CheckBan(q, u, c)
      PROVE  Moves(q) /\ Others
  <2> DEFINE r == [NoRequest EXCEPT !.pc = IF c = None THEN "create" ELSE "validate",
                                    !.user = u, !.arg = c]
  <2>1. /\ r \in Request /\ r.user = u /\ r.arg = c
        /\ r.pc = IF c = None THEN "create" ELSE "validate"
    BY DEF NoRequest, Request, Phases
  <2>2. Goto(q, r) /\ u \notin bans /\ UNCHANGED <<tables, history>>
    BY <1>2 DEF CheckBan
  <2> HIDE DEF r
  <2>3. req'[q] = r /\ Others
    BY <2>1, <2>2, GotoMoves DEF Typed
  <2>4. QED
    BY <2>1, <2>2, <2>3 DEF Moves
<1>3. ASSUME ValidateInvite(q) PROVE Moves(q) /\ Others
  <2> DEFINE r == [req[q] EXCEPT !.pc = "use"]
  <2>1. r \in Request /\ r.pc = "use" /\ r.user = req[q].user
    BY <1>0 DEF Request, Phases
  <2>2. /\ Goto(q, r) \/ Return(q)
        /\ req[q].pc = "validate" /\ UNCHANGED <<tables, history>>
    BY <1>3 DEF ValidateInvite
  <2> HIDE DEF r
  <2>3. CASE Goto(q, r)
    <3>1. req'[q] = r /\ Others
      BY <2>1, <2>3, GotoMoves DEF Typed
    <3>2. QED
      BY <2>1, <2>2, <3>1 DEF Moves
  <2>4. QED
    BY <2>2, <2>3, <1>1
<1>4. ASSUME Use(q) PROVE Moves(q) /\ Others
  <2> DEFINE r == [req[q] EXCEPT !.pc = "create"]
  <2>1. r \in Request /\ r.pc = "create" /\ r.user = req[q].user /\ r.arg = req[q].arg
    BY <1>0 DEF Request, Phases
  <2>2. /\ \/ Return(q)
           \/ Goto(q, r) /\ invite' = [invite EXCEPT ![req[q].arg].used = @ + 1]
        /\ req[q].pc = "use"
        /\ UNCHANGED <<accounts, member, memberRoles, roles, bans, config, history>>
    BY <1>4 DEF Use
  <2> HIDE DEF r
  <2>3. CASE Goto(q, r) /\ invite' = [invite EXCEPT ![req[q].arg].used = @ + 1]
    <3>1. req'[q] = r /\ Others
      BY <2>1, <2>3, GotoMoves DEF Typed
    <3>2. QED
      BY <2>1, <2>2, <2>3, <3>1 DEF Moves
  <2>4. QED
    BY <2>2, <2>3, <1>1
<1>5. ASSUME NEW u \in Users, BeginActivate(q, u)
      PROVE  Moves(q) /\ Others
  <2> DEFINE r == [NoRequest EXCEPT !.pc = "activate", !.user = u, !.roles = config.autoRoles]
  <2>1. config.autoRoles \subseteq Roles
    BY MembershipAssumption DEF Typed, TypeOK
  <2>2. r \in Request /\ r.pc = "activate"
    BY <2>1 DEF NoRequest, Request, Phases
  <2>3. Goto(q, r)
    BY <1>5 DEF BeginActivate
  <2> HIDE DEF r
  <2>4. req'[q] = r /\ Others
    BY <2>2, <2>3, GotoMoves DEF Typed
  <2>5. QED
    BY <2>2, <2>4 DEF Moves
<1>6. ASSUME NEW caller \in Users, NEW target \in Users, NEW op \in {"kick", "ban", "timeout"},
             CheckCaller(q, caller, target, op)
      PROVE  Moves(q) /\ Others
  <2> DEFINE r == [NoRequest EXCEPT !.pc = "check", !.user = caller, !.target = target,
                                    !.arg = op, !.rank = Rank(caller)]
  <2>1. Rank(caller) \in Nat
    BY RankIsBest DEF Typed
  <2>2. r \in Request /\ r.pc = "check"
    BY <2>1 DEF NoRequest, Request, Phases
  <2>3. Goto(q, r)
    BY <1>6 DEF CheckCaller
  <2> HIDE DEF r
  <2>4. req'[q] = r /\ Others
    BY <2>2, <2>3, GotoMoves DEF Typed
  <2>5. QED
    BY <2>2, <2>4 DEF Moves
<1>7. ASSUME CheckTarget(q) PROVE Moves(q) /\ Others
  <2> DEFINE r == [req[q] EXCEPT !.pc = req[q].arg]
  <2>1. req[q].arg \in {"kick", "ban", "timeout"}
    BY <1>7 DEF CheckTarget, Typed, RequestsCarry
  <2>2. r \in Request /\ r.pc = req[q].arg
    BY <1>0, <2>1 DEF Request, Phases
  <2>3. Goto(q, r) \/ Return(q)
    BY <1>7 DEF CheckTarget
  <2> HIDE DEF r
  <2>4. CASE Goto(q, r)
    <3>1. req'[q] = r /\ Others
      BY <2>2, <2>4, GotoMoves DEF Typed
    <3>2. QED
      BY <2>1, <2>2, <3>1 DEF Moves
  <2>5. QED
    BY <2>3, <2>4, <1>1
<1>8. ASSUME NEW caller \in Users, NEW target \in Users, NEW role \in Roles,
             NEW op \in {"assign", "remove"}, CheckRole(q, caller, target, role, op)
      PROVE  Moves(q) /\ Others
  <2> DEFINE r == [NoRequest EXCEPT !.pc = op, !.user = caller, !.target = target, !.arg = role]
  <2>1. r \in Request /\ r.pc = op /\ r.arg = role
    BY DEF NoRequest, Request, Phases
  <2>2. Goto(q, r) /\ Position[role] > Rank(caller) /\ UNCHANGED <<tables, history>>
    BY <1>8 DEF CheckRole
  <2> HIDE DEF r
  <2>3. req'[q] = r /\ Others
    BY <2>1, <2>2, GotoMoves DEF Typed
  <2>4. QED
    BY <2>1, <2>2, <2>3 DEF Moves
<1>9. ASSUME \/ CreatePending(q) \/ CreatePendingFails(q) \/ Activate(q) \/ ActivateFails(q)
             \/ Kick(q) \/ Ban(q) \/ SetTimeout(q)
             \/ AssignRole(q) \/ RemoveRole(q) \/ DeleteRole(q) \/ Fail(q)
      PROVE  Return(q)
  BY <1>9 DEF CreatePending, CreatePendingFails, Activate, ActivateFails, Kick, Ban,
     SetTimeout, AssignRole, RemoveRole, DeleteRole, Fail
<1>10. ASSUME NEW caller \in Users, NEW role \in Roles, CheckDeleteRole(q, caller, role)
       PROVE  Moves(q) /\ Others
  <2> DEFINE r == [NoRequest EXCEPT !.pc = "delete_role", !.arg = role]
  <2>1. r \in Request /\ r.pc = "delete_role"
    BY DEF NoRequest, Request, Phases
  <2>2. Goto(q, r) /\ UNCHANGED <<tables, history>>
    BY <1>10 DEF CheckDeleteRole
  <2> HIDE DEF r
  <2>3. req'[q] = r /\ Others
    BY <2>1, <2>2, GotoMoves DEF Typed
  <2>4. QED
    BY <2>1, <2>2, <2>3 DEF Moves
<1> HIDE DEF Others
<1>11. (Join(q) \/ Onboard(q) \/ Moderate(q) \/ ChangeRoles(q) \/ Fail(q)) => Moves(q) /\ Others
  BY <1>1, <1>2, <1>3, <1>4, <1>5, <1>6, <1>7, <1>8, <1>9, <1>10
     DEF Join, Onboard, Moderate, ChangeRoles
<1>12. QED
  BY <1>11 DEF Others

\* Every step moves at most one request.
LEMMA StepMoves ==
  ASSUME Typed, [Next]_vars
  PROVE  \/ \A p \in Requests : req'[p] = req[p]
         \/ \E q \in Requests : Moves(q) /\ \A p \in Requests : p # q => req'[p] = req[p]
<1>1. ASSUME \/ Configure \/ UNCHANGED vars
             \/ \E u \in Users : Leave(u) \/ DeleteAccount(u)
             \/ \E caller, u \in Users : ClearTimeout(caller, u) \/ Unban(caller, u)
      PROVE  req' = req
  BY <1>1 DEF Configure, CreateInvite, CloseInvite, UpdateOnboarding, Leave,
     DeleteAccount, ClearTimeout, Unban, vars
<1>2. QED
  BY <1>1, HandlerMoves DEF Next

-----------------------------------------------------------------------------
(* Bans. *)

\* A join gets past the ban check only for a user who is not banned.
LEMMA JoiningStarts ==
  ASSUME Typed, [Next]_vars, NEW u, Joining(u)', ~Joining(u)
  PROVE  u \notin bans /\ UNCHANGED <<tables, history>>
<1>1. PICK q \in Requests : /\ req'[q].user = u
                            /\ req'[q].pc \in {"validate", "use", "create"}
  BY DEF Joining
<1>2. req'[q] # req[q]
  BY <1>1 DEF Joining
<1>3. Moves(q)
  BY <1>2, StepMoves
<1>4. ~(req[q].user = u /\ req[q].pc \in {"validate", "use", "create"})
  BY DEF Joining
<1>5. QED
  BY <1>1, <1>2, <1>3, <1>4 DEF Moves

\* The ban and the removal are one transaction, and CreatePending comes after
\* a check that found no ban.
LEMMA StepBans ==
  ASSUME Typed, BanInv, [Next]_vars
  PROVE  BanInv'
<1> USE DEF BanInv, BannedMembersRaced
<1>t. member \in [Users -> Statuses] /\ bans \subseteq Users /\ accounts \subseteq Users
  BY DEF Typed, TypeOK
<1>1. CASE UNCHANGED <<tables, history>>
  BY <1>1, JoiningStarts DEF tables, history
<1>2. CASE ~UNCHANGED <<tables, history>>
  <2>0. \A u : Joining(u)' => Joining(u)
    BY <1>2, JoiningStarts
  <2>1. ASSUME NEW q \in Requests, CreatePending(q)
        PROVE  BanInv'
    <3>1. Joining(req[q].user)
      BY <2>1 DEF CreatePending, Joining
    <3>2. QED
      BY <2>0, <2>1, <1>t, <3>1 DEF CreatePending
  <2>2. ASSUME NEW q \in Requests, Ban(q)
        PROVE  BanInv'
    <3>1. req[q].target \in Users
      BY <2>2 DEF Ban, Typed, RequestsCarry
    <3>2. QED
      BY <2>0, <2>2, <1>t, <3>1 DEF Ban
  <2>3. ASSUME NEW q \in Requests, Activate(q) \/ Kick(q) \/ SetTimeout(q)
        PROVE  BanInv'
    BY <2>0, <2>3, <1>t DEF Activate, Kick, SetTimeout, history
  <2>4. ASSUME NEW q \in Requests,
               \/ Use(q) \/ CreatePendingFails(q) \/ ActivateFails(q)
               \/ AssignRole(q) \/ RemoveRole(q) \/ DeleteRole(q)
        PROVE  BanInv'
    <3>1. UNCHANGED <<bans, member, raced>>
      BY <2>4 DEF Use, CreatePendingFails, ActivateFails, AssignRole, RemoveRole, DeleteRole,
         tables, history
    <3>2. QED
      BY <2>0, <3>1
  <2>5. CASE Configure
    <3>1. UNCHANGED <<bans, member, raced>>
      BY <2>5 DEF Configure, CreateInvite, CloseInvite, UpdateOnboarding, history
    <3>2. QED
      BY <2>0, <3>1
  <2>6. ASSUME NEW u \in Users, Leave(u) \/ DeleteAccount(u)
        PROVE  BanInv'
    BY <2>0, <2>6, <1>t DEF Leave, DeleteAccount, history
  <2>7. ASSUME NEW caller \in Users, NEW u \in Users, ClearTimeout(caller, u) \/ Unban(caller, u)
        PROVE  BanInv'
    BY <2>0, <2>7, <1>t DEF ClearTimeout, Unban, history
  <2>8. QED
    BY <1>2, <2>1, <2>2, <2>3, <2>4, <2>5, <2>6, <2>7, StepCases
<1>3. QED
  BY <1>1, <1>2

\* A banned user is a member only if its join was past the ban check when the
\* ban was committed (member/repository.go: Ban; invite.go, onboarding.go).
THEOREM BannedMembersAreRaces == Spec => []BannedMembersRaced
<1>1. Init => BanInv
  BY DEF Init, BanInv, BannedMembersRaced
<1>2. Typed /\ BanInv /\ [Next]_vars => BanInv'
  BY StepBans
<1>3. BanInv => BannedMembersRaced
  BY DEF BanInv
<1>4. QED
  BY <1>1, <1>2, <1>3, RequestsWellFormed, PTL DEF Spec

-----------------------------------------------------------------------------
(* Invites. *)

\* Only Use lets a request hold a use of a code.
LEMMA HoldersShrink ==
  ASSUME Typed, [Next]_vars, NEW c \in Codes, invite' = invite
  PROVE  Holders(c)' \subseteq Holders(c)
<1> SUFFICES ASSUME NEW q \in Requests, req'[q].pc = "create", req'[q].arg = c
             PROVE  req[q].pc = "create" /\ req[q].arg = c
  BY DEF Holders
<1>1. req'[q] = req[q] \/ Moves(q)
  BY StepMoves
<1>2. c # None
  BY MembershipAssumption
<1>3. ASSUME req[q].pc = "use", req[q].arg = c,
             invite' = [invite EXCEPT ![c].used = @ + 1]
      PROVE  FALSE
  BY <1>3 DEF Typed, TypeOK
<1>4. QED
  BY <1>1, <1>2, <1>3 DEF Moves

\* A smaller set of holders, with the counters as they were, is accounted for.
LEMMA FewerHolders ==
  ASSUME Typed, InviteInv, Typed', NEW c \in Codes, Holders(c)' \subseteq Holders(c)
  PROVE  IsFiniteSet(Holders(c)') /\ Cardinality(Holders(c)') <= Cardinality(Holders(c))
         /\ Cardinality(Holders(c)) \in Nat /\ Cardinality(Holders(c)') \in Nat
<1>1. IsFiniteSet(Holders(c))
  BY DEF InviteInv
<1>2. QED
  BY <1>1, FS_Subset, FS_CardinalityType

\* Use counts the use it hands out; CreatePending spends one.
LEMMA StepInvites ==
  ASSUME Typed, Typed', InviteInv, [Next]_vars
  PROVE  InviteInv'
<1>t. /\ invite \in [Codes -> [open : BOOLEAN, max : Nat, used : Nat]]
      /\ joinedBy \in [Codes -> Nat]
  BY DEF Typed, TypeOK
<1>f. ASSUME UNCHANGED <<invite, joinedBy>> PROVE InviteInv'
  <2> SUFFICES ASSUME NEW c \in Codes
               PROVE  /\ IsFiniteSet(Holders(c)')
                      /\ joinedBy[c] + Cardinality(Holders(c)') <= invite[c].used
                      /\ invite[c].used <= invite[c].max
    BY <1>f DEF InviteInv
  <2>1. Holders(c)' \subseteq Holders(c)
    BY <1>f, HoldersShrink
  <2>2. QED
    BY <2>1, <1>t, FewerHolders DEF InviteInv
<1>1. CASE UNCHANGED <<tables, history>>
  BY <1>1, <1>f DEF tables, history
<1>2. ASSUME NEW q \in Requests, Use(q)
      PROVE  InviteInv'
  <2>1. req[q].pc = "use" /\ req[q].arg \in Codes
    BY <1>2 DEF Use, Typed, RequestsCarry
  <2>2. CASE invite' = invite
    BY <1>2, <1>f, <2>2 DEF Use, history
  <2>3. CASE invite' # invite
    <3>0. PICK c \in Codes : c = req[q].arg
      BY <2>1
    <3>1. /\ Usable(c) /\ Goto(q, [req[q] EXCEPT !.pc = "create"])
          /\ invite' = [invite EXCEPT ![c].used = @ + 1]
      BY <1>2, <2>3, <3>0 DEF Use
    <3>2. UNCHANGED joinedBy
      BY <1>2 DEF Use, history
    <3>3. /\ req'[q] = [req[q] EXCEPT !.pc = "create"]
          /\ \A p \in Requests : p # q => req'[p] = req[p]
      <4>1. req[q] \in Request
        BY DEF Typed, TypeOK
      <4>2. [req[q] EXCEPT !.pc = "create"] \in Request
        BY <4>1 DEF Request, Phases
      <4>3. QED
        BY <3>1, <4>2, GotoMoves DEF Typed
    <3>4. req'[q].pc = "create" /\ req'[q].arg = c
      BY <3>0, <3>3 DEF Typed, TypeOK, Request
    <3>5. Holders(c)' = Holders(c) \cup {q} /\ q \notin Holders(c)
      BY <2>1, <3>3, <3>4 DEF Holders
    <3>6. ASSUME NEW d \in Codes, d # c PROVE Holders(d)' = Holders(d)
      BY <2>1, <3>3, <3>4, <3>6 DEF Holders
    <3>7. /\ IsFiniteSet(Holders(c)') /\ Cardinality(Holders(c)) \in Nat
          /\ Cardinality(Holders(c)') = Cardinality(Holders(c)) + 1
      BY <3>5, FS_AddElement, FS_CardinalityType DEF InviteInv
    <3>8. /\ invite[c].used < invite[c].max
          /\ invite'[c].used = invite[c].used + 1 /\ invite'[c].max = invite[c].max
          /\ \A d \in Codes : d # c => invite'[d] = invite[d]
      BY <1>t, <3>1 DEF Usable
    <3>9. joinedBy[c] + Cardinality(Holders(c)) <= invite[c].used
      BY DEF InviteInv
    <3>10. ASSUME NEW d \in Codes
           PROVE  /\ IsFiniteSet(Holders(d)')
                  /\ joinedBy'[d] + Cardinality(Holders(d)') <= invite'[d].used
                  /\ invite'[d].used <= invite'[d].max
      <4>1. CASE d = c
        BY <4>1, <1>t, <3>2, <3>7, <3>8, <3>9
      <4>2. CASE d # c
        BY <4>2, <3>2, <3>6, <3>8 DEF InviteInv
      <4>3. QED
        BY <4>1, <4>2
    <3>11. QED
      BY <3>10 DEF InviteInv
  <2>4. QED
    BY <2>2, <2>3
<1>3. ASSUME NEW q \in Requests, CreatePending(q)
      PROVE  InviteInv'
  <2>1. req[q].pc = "create" /\ UNCHANGED invite /\ Return(q)
    BY <1>3 DEF CreatePending
  <2>2. CASE req[q].arg = None
    BY <1>3, <1>f, <2>2 DEF CreatePending
  <2>3. CASE req[q].arg # None
    <3>1. PICK c \in Codes : c = req[q].arg
      BY <2>1, <2>3 DEF Typed, RequestsCarry
    <3>2. joinedBy' = [joinedBy EXCEPT ![c] = @ + 1]
      BY <1>3, <2>3, <3>1 DEF CreatePending
    <3>3. req'[q].pc = "idle" /\ \A p \in Requests : p # q => req'[p] = req[p]
      BY <2>1, ReturnMoves
    <3>4. Holders(c)' = Holders(c) \ {q} /\ q \in Holders(c)
      BY <2>1, <3>1, <3>3 DEF Holders
    <3>5. /\ IsFiniteSet(Holders(c)') /\ Cardinality(Holders(c)) \in Nat
          /\ Cardinality(Holders(c)') = Cardinality(Holders(c)) - 1
      BY <3>4, FS_RemoveElement, FS_CardinalityType DEF InviteInv
    <3>6. ASSUME NEW d \in Codes
          PROVE  /\ IsFiniteSet(Holders(d)')
                 /\ joinedBy'[d] + Cardinality(Holders(d)') <= invite'[d].used
                 /\ invite'[d].used <= invite'[d].max
      <4>1. CASE d = c
        <5>1. /\ joinedBy[c] + Cardinality(Holders(c)) <= invite[c].used
              /\ invite[c].used <= invite[c].max
          BY DEF InviteInv
        <5>2. QED
          BY <4>1, <5>1, <1>t, <2>1, <3>2, <3>5
      <4>2. CASE d # c
        <5>1. Holders(d)' \subseteq Holders(d)
          BY <2>1, HoldersShrink
        <5>2. joinedBy'[d] = joinedBy[d]
          BY <4>2, <1>t, <3>2
        <5>3. QED
          BY <1>t, <2>1, <5>1, <5>2, FewerHolders DEF InviteInv
      <4>3. QED
        BY <4>1, <4>2
    <3>7. QED
      BY <3>6 DEF InviteInv
  <2>4. QED
    BY <2>2, <2>3
<1>4. ASSUME NEW q \in Requests,
             \/ CreatePendingFails(q) \/ Activate(q) \/ ActivateFails(q)
             \/ Kick(q) \/ Ban(q) \/ SetTimeout(q) \/ AssignRole(q) \/ RemoveRole(q)
             \/ DeleteRole(q)
      PROVE  InviteInv'
  <2>1. UNCHANGED <<invite, joinedBy>>
    BY <1>4 DEF CreatePendingFails, Activate, ActivateFails, Kick, Ban, SetTimeout,
       AssignRole, RemoveRole, DeleteRole, tables, history
  <2>2. QED
    BY <2>1, <1>f
<1>5. ASSUME NEW c \in Codes,
             (\E max \in MaxUses : CreateInvite(c, max)) \/ CloseInvite(c)
      PROVE  InviteInv'
  <2>1. UNCHANGED joinedBy /\ UNCHANGED req
    BY <1>5 DEF CreateInvite, CloseInvite, history
  <2>2. \A d \in Codes : Holders(d)' = Holders(d)
    BY <2>1 DEF Holders
  <2>3. \A d \in Codes : /\ invite'[d].used = invite[d].used
                         /\ invite'[d].used <= invite'[d].max
    BY <1>5, <1>t, MembershipAssumption DEF CreateInvite, CloseInvite, NoInvite, InviteInv
  <2>4. QED
    BY <2>1, <2>2, <2>3 DEF InviteInv
<1>6. ASSUME \/ \E new \in Configs : UpdateOnboarding(new)
             \/ \E u \in Users : Leave(u) \/ DeleteAccount(u)
             \/ \E caller, u \in Users : ClearTimeout(caller, u) \/ Unban(caller, u)
      PROVE  InviteInv'
  <2>1. UNCHANGED <<invite, joinedBy>>
    BY <1>6 DEF UpdateOnboarding, Leave, DeleteAccount, ClearTimeout, Unban, history
  <2>2. QED
    BY <2>1, <1>f
<1>7. QED
  BY <1>1, <1>2, <1>3, <1>4, <1>5, <1>6, StepCases DEF Configure

\* An invite never lets in more members than it was used, nor is it used more
\* than max_uses times (invite/repository.go: Use), for every number of
\* concurrent joins.
THEOREM InvitesBounded == Spec => []InviteUsesBounded
<1>1. Init => InviteInv
  <2> SUFFICES ASSUME Init, NEW c \in Codes
               PROVE  /\ IsFiniteSet(Holders(c))
                      /\ joinedBy[c] + Cardinality(Holders(c)) <= invite[c].used
                      /\ invite[c].used <= invite[c].max
    BY DEF InviteInv
  <2>1. Holders(c) = {}
    BY DEF Init, Holders, NoRequest
  <2>2. joinedBy[c] = 0 /\ invite[c].used = 0 /\ invite[c].max \in {0, 1}
    BY DEF Init, NoInvite, Revoked
  <2>3. QED
    BY <2>1, <2>2, FS_EmptySet
<1>2. Typed /\ Typed' /\ InviteInv /\ [Next]_vars => InviteInv'
  BY StepInvites
<1>3. Typed /\ InviteInv => InviteUsesBounded
  <2> SUFFICES ASSUME Typed, InviteInv, NEW c \in Codes
               PROVE  joinedBy[c] <= invite[c].used /\ invite[c].used <= invite[c].max
    BY DEF InviteUsesBounded
  <2>1. Cardinality(Holders(c)) \in Nat
    BY FS_CardinalityType DEF InviteInv
  <2>2. QED
    BY <2>1 DEF InviteInv, Typed, TypeOK
<1>4. QED
  BY <1>1, <1>2, <1>3, RequestsWellFormed, PTL DEF Spec

-----------------------------------------------------------------------------
(* Ranks. *)

\* Nobody outranks the best role that onboarding granted.
LEMMA NobodyOutranksTop ==
  ASSUME Typed, TopInv, NEW u \in Users
  PROVE  top <= Rank(u)
<1> USE MembershipAssumption
<1>1. CASE Rank(u) = Lowest
  BY <1>1 DEF TopInv
<1>2. CASE Rank(u) # Lowest
  <2>1. PICK r \in memberRoles[u] \ {Everyone} : Rank(u) = Position[r]
    BY <1>2, RankIsBest DEF Typed
  <2>2. r \in Roles /\ top \in Nat
    BY DEF Typed, TypeOK
  <2>3. <<u, r>> \in granted => top <= Position[r]
    BY DEF TopInv
  <2>4. <<u, r>> \in granted \/ top < Position[r]
    BY DEF TopInv, AssignedBelowTop
  <2>5. QED
    BY <2>1, <2>2, <2>3, <2>4
<1>3. QED
  BY <1>1, <1>2

\* Every assignment in flight stays below the top, which only rises.
LEMMA AssignmentsStayBelow ==
  ASSUME Typed, Typed', TopInv, [Next]_vars, top' <= top
  PROVE  \A q \in Requests : req'[q].pc = "assign" => top' < Position[req'[q].arg]
<1> SUFFICES ASSUME NEW q \in Requests, req'[q].pc = "assign"
             PROVE  top' < Position[req'[q].arg]
  OBVIOUS
<1>1. req'[q] = req[q] \/ Moves(q)
  BY StepMoves
<1>2. top \in Nat /\ top' \in Nat /\ Position[req'[q].arg] \in Nat
  BY MembershipAssumption DEF Typed, TypeOK, RequestsCarry
<1>3. CASE req'[q] = req[q]
  <2>1. top < Position[req'[q].arg]
    BY <1>3 DEF TopInv
  <2>2. QED
    BY <2>1, <1>2
<1>4. ASSUME NEW caller \in Users, Position[req'[q].arg] > Rank(caller)
      PROVE  top' < Position[req'[q].arg]
  <2>1. top <= Rank(caller) /\ Rank(caller) \in Nat
    BY NobodyOutranksTop, RankIsBest DEF Typed
  <2>2. QED
    BY <1>2, <1>4, <2>1
<1>5. QED
  BY <1>1, <1>3, <1>4 DEF Moves

\* Activate grants what it puts below the new top; AssignRole inserts what the
\* check put below the old one; every other statement takes roles away.
LEMMA StepTop ==
  ASSUME Typed, Typed', TopInv, [Next]_vars
  PROVE  TopInv'
<1> USE MembershipAssumption
<1>t. /\ memberRoles \in [Users -> SUBSET Roles] /\ top \in Nat
      /\ granted \subseteq Users \X Roles
  BY DEF Typed, TypeOK
<1>f. ASSUME UNCHANGED <<granted, top>>,
             \A u \in Users : memberRoles'[u] \subseteq memberRoles[u] \cup {Everyone}
      PROVE  TopInv'
  <2>1. \A q \in Requests : req'[q].pc = "assign" => top' < Position[req'[q].arg]
    BY <1>f, <1>t, AssignmentsStayBelow
  <2>2. ASSUME NEW u \in Users, NEW r \in memberRoles'[u] \ {Everyone}
        PROVE  <<u, r>> \in granted' \/ top' < Position[r]
    BY <1>f, <2>2 DEF TopInv, AssignedBelowTop
  <2>3. QED
    BY <1>f, <2>1, <2>2 DEF TopInv, AssignedBelowTop
<1>1. CASE UNCHANGED <<tables, history>>
  BY <1>1, <1>f DEF tables, history
<1>2. ASSUME NEW q \in Requests, Activate(q)
      PROVE  TopInv'
  <2>1. PICK auto \in SUBSET (Roles \ {Everyone}) : auto = req[q].roles
    BY <1>2 DEF Activate, Typed, RequestsCarry
  <2>2. PICK v \in Users : v = req[q].user
    BY <1>2 DEF Activate, Typed, RequestsCarry
  <2>3. /\ memberRoles' = [memberRoles EXCEPT ![v] = @ \cup auto]
        /\ granted' = granted \cup ({v} \X auto)
        /\ top' = IF auto = {} THEN top
                  ELSE Best(top, CHOOSE p \in {Position[r] : r \in auto} :
                                   \A r \in auto : p <= Position[r])
    BY <1>2, <2>1, <2>2 DEF Activate
  <2>4. top' \in Nat /\ top' <= top /\ \A r \in auto : top' <= Position[r]
    <3>1. CASE auto = {}
      BY <2>3, <3>1, <1>t
    <3>2. CASE auto # {}
      <4>1. PICK least \in Nat : /\ \A r \in auto : least <= Position[r]
                                 /\ top' = Best(top, least)
        BY <2>3, <3>2, LeastPosition
      <4>2. \A r \in auto : Position[r] \in Nat
        OBVIOUS
      <4>3. QED
        BY <1>t, <4>1, <4>2, BestIsLess
    <3>3. QED
      BY <3>1, <3>2
  <2>5. \A q2 \in Requests : req'[q2].pc = "assign" => top' < Position[req'[q2].arg]
    BY <2>4, AssignmentsStayBelow
  <2>6. ASSUME NEW g \in granted' PROVE top' <= Position[g[2]]
    <3>1. CASE g \in granted
      <4>1. top <= Position[g[2]] /\ Position[g[2]] \in Nat
        BY <3>1, <1>t DEF TopInv
      <4>2. QED
        BY <4>1, <2>4, <1>t
    <3>2. CASE g \in {v} \X auto
      BY <2>4, <3>2
    <3>3. QED
      BY <2>3, <3>1, <3>2
  <2>7. ASSUME NEW u \in Users, NEW r \in memberRoles'[u] \ {Everyone}
        PROVE  <<u, r>> \in granted' \/ top' < Position[r]
    <3>1. CASE r \in memberRoles[u]
      <4>1. <<u, r>> \in granted \/ top < Position[r]
        BY <3>1 DEF TopInv, AssignedBelowTop
      <4>2. Position[r] \in Nat
        BY <3>1, <1>t
      <4>3. QED
        BY <4>1, <4>2, <2>3, <2>4, <1>t
    <3>2. CASE r \notin memberRoles[u]
      BY <3>2, <2>3, <1>t
    <3>3. QED
      BY <3>1, <3>2
  <2>8. top' <= Lowest
    BY <1>t, <2>4 DEF TopInv
  <2>9. QED
    BY <2>5, <2>6, <2>7, <2>8 DEF TopInv, AssignedBelowTop
<1>3. ASSUME NEW q \in Requests, AssignRole(q)
      PROVE  TopInv'
  <2>1. UNCHANGED <<granted, top>> /\ req[q].pc = "assign"
    BY <1>3 DEF AssignRole, history
  <2>2. top < Position[req[q].arg]
    BY <2>1 DEF TopInv
  <2>3. ASSUME NEW u \in Users, NEW r \in memberRoles'[u] \ {Everyone}
        PROVE  <<u, r>> \in granted' \/ top' < Position[r]
    <3>1. r \in memberRoles[u] \/ r = req[q].arg
      BY <1>3, <1>t, <2>3 DEF AssignRole
    <3>2. r \in memberRoles[u] => <<u, r>> \in granted \/ top < Position[r]
      BY DEF TopInv, AssignedBelowTop
    <3>3. QED
      BY <2>1, <2>2, <3>1, <3>2
  <2>4. \A p \in Requests : req'[p].pc = "assign" => top' < Position[req'[p].arg]
    BY <2>1, <1>t, AssignmentsStayBelow
  <2>5. QED
    BY <2>1, <2>3, <2>4 DEF TopInv, AssignedBelowTop
<1>4. ASSUME NEW q \in Requests, CreatePending(q) \/ RemoveRole(q) \/ DeleteRole(q)
      PROVE  TopInv'
  <2>1. UNCHANGED <<granted, top>>
    BY <1>4 DEF CreatePending, RemoveRole, DeleteRole, history
  <2>2. \A u \in Users : memberRoles'[u] \subseteq memberRoles[u] \cup {Everyone}
    BY <1>4, <1>t DEF CreatePending, RemoveRole, DeleteRole
  <2>3. QED
    BY <2>1, <2>2, <1>f
<1>5. ASSUME NEW q \in Requests,
             \/ Use(q) \/ CreatePendingFails(q) \/ ActivateFails(q)
             \/ Kick(q) \/ Ban(q) \/ SetTimeout(q)
      PROVE  TopInv'
  <2>1. UNCHANGED <<granted, top, memberRoles>>
    BY <1>5 DEF Use, CreatePendingFails, ActivateFails, Kick, Ban, SetTimeout, tables, history
  <2>2. QED
    BY <2>1, <1>f
<1>6. CASE Configure
  <2>1. UNCHANGED <<granted, top>>
    BY <1>6 DEF Configure, CreateInvite, CloseInvite, UpdateOnboarding, history
  <2>2. \A u \in Users : memberRoles'[u] \subseteq memberRoles[u]
    BY <1>6, <1>t DEF Configure, CreateInvite, CloseInvite, UpdateOnboarding
  <2>3. QED
    BY <2>1, <2>2, <1>f
<1>7. ASSUME NEW u \in Users, Leave(u) \/ DeleteAccount(u)
      PROVE  TopInv'
  <2>1. UNCHANGED <<granted, top>>
    BY <1>7 DEF Leave, DeleteAccount, history
  <2>2. \A v \in Users : memberRoles'[v] \subseteq memberRoles[v]
    BY <1>7, <1>t DEF Leave, DeleteAccount
  <2>3. QED
    BY <2>1, <2>2, <1>f
<1>8. ASSUME NEW caller \in Users, NEW u \in Users, ClearTimeout(caller, u) \/ Unban(caller, u)
      PROVE  TopInv'
  <2>1. UNCHANGED <<granted, top, memberRoles>>
    BY <1>8 DEF ClearTimeout, Unban, history
  <2>2. QED
    BY <2>1, <1>f
<1>9. QED
  BY <1>1, <1>2, <1>3, <1>4, <1>5, <1>6, <1>7, <1>8, StepCases

\* Whatever chain of members assigns roles, a role that onboarding did not give
\* its holder ranks below the best that onboarding ever gave (member.go:
\* AssignRole; role/repository.go: HighestPosition).
THEOREM AssignmentsBelowTop == Spec => []AssignedBelowTop
<1>1. Init => TopInv
  BY MembershipAssumption DEF Init, TopInv, AssignedBelowTop, NoRequest
<1>2. Typed /\ Typed' /\ TopInv /\ [Next]_vars => TopInv'
  BY StepTop
<1>3. TopInv => AssignedBelowTop
  BY DEF TopInv
<1>4. QED
  BY <1>1, <1>2, <1>3, RequestsWellFormed, PTL DEF Spec

=============================================================================
