-------------------------- MODULE PermissionsProofs --------------------------
(***************************************************************************)
(* What the permission algorithm computes, for every set of permission     *)
(* bits, roles, users and override rows; and that every stale entry of the *)
(* permission cache is explained, for any number of calls and handlers.    *)
(***************************************************************************)
EXTENDS PermissionResolution, PermissionCache, TLAPS

\* A database: role bitfields and the override rows of a channel and of its
\* category.
Database(bits, catRows, chanRows) ==
  /\ bits \in [Roles -> SUBSET Perms]
  /\ catRows \in [Principals -> Override]
  /\ chanRows \in [Principals -> Override]

\* One level of overrides, bit by bit: the user's row decides first, then the
\* merged rows of the held roles, then what came from below; at each of them
\* deny beats allow (applyOverrides).
LEMMA ApplyOverridesPerBit ==
  ASSUME NEW base, NEW rows, NEW roles, NEW u, NEW p
  PROVE  p \in ApplyOverrides(base, rows, roles, u) <=>
           /\ p \notin rows[u].deny
           /\ \/ p \in rows[u].allow
              \/ /\ p \notin Merged(rows, roles).deny
                 /\ \/ p \in Merged(rows, roles).allow
                    \/ p \in base
BY DEF ApplyOverrides, Merged

\* One level of overrides stays inside the defined bits.
LEMMA ApplyOverridesIsPerms ==
  ASSUME NEW base \in SUBSET Perms, NEW rows \in [Principals -> Override],
         NEW u \in Users, NEW roles \in SUBSET Roles
  PROVE  ApplyOverrides(base, rows, roles, u) \subseteq Perms
<1>1. \A q \in Principals : rows[q].allow \subseteq Perms
  BY DEF Override
<1>2. UNION {rows[r].allow : r \in roles} \subseteq Perms
  BY <1>1 DEF Principals
<1>3. u \in Principals
  BY DEF Principals
<1> QED BY <1>1, <1>2, <1>3 DEF ApplyOverrides

\* The algorithm stays inside the defined bits.
LEMMA ComputeIsPerms ==
  ASSUME NEW bits, NEW catRows, NEW chanRows,
         Database(bits, catRows, chanRows),
         NEW u \in Users, NEW roles \in SUBSET Roles
  PROVE  Compute(u, bits, roles, catRows, chanRows) \subseteq Perms
<1> DEFINE base == RoleUnion(bits, roles)
<1>1. base \subseteq Perms
  BY DEF Database, RoleUnion
<1>3. CASE IsAdmin(u, bits, roles)
  BY <1>3 DEF Compute, BasePermissions
<1>4. CASE ~IsAdmin(u, bits, roles)
  <2>1. ApplyOverrides(base, catRows, roles, u) \subseteq Perms
    BY <1>1, ApplyOverridesIsPerms DEF Database
  <2>2. ApplyOverrides(ApplyOverrides(base, catRows, roles, u), chanRows, roles, u)
          \subseteq Perms
    BY <2>1, ApplyOverridesIsPerms DEF Database
  <2> QED BY <1>4, <2>2 DEF Compute, BasePermissions, ChannelOverrides
<1> QED BY <1>3, <1>4

\* The layered reading of a bit: some layer allows it, and neither it nor a
\* later one denies it.
LEMMA GrantedUnfolded ==
  ASSUME NEW p, NEW a, NEW b, NEW c, NEW d, NEW e
  PROVE  Granted(p, <<a, b, c, d, e>>) <=>
           \/ p \in e.allow /\ p \notin e.deny
           \/ p \in d.allow /\ p \notin d.deny /\ p \notin e.deny
           \/ p \in c.allow /\ p \notin c.deny /\ p \notin d.deny /\ p \notin e.deny
           \/ /\ p \in b.allow /\ p \notin b.deny /\ p \notin c.deny
              /\ p \notin d.deny /\ p \notin e.deny
           \/ /\ p \in a.allow /\ p \notin a.deny /\ p \notin b.deny
              /\ p \notin c.deny /\ p \notin d.deny /\ p \notin e.deny
<1> DEFINE L == <<a, b, c, d, e>>
<1>1. L[1] = a /\ L[2] = b /\ L[3] = c /\ L[4] = d /\ L[5] = e
  OBVIOUS
<1> HIDE DEF L
<1>2. 1..5 = {1, 2, 3, 4, 5} /\ 2..5 = {2, 3, 4, 5} /\ 3..5 = {3, 4, 5}
      /\ 4..5 = {4, 5} /\ 5..5 = {5}
  OBVIOUS
<1>3. Granted(p, L) <=>
        \/ p \in L[5].allow /\ p \notin L[5].deny
        \/ p \in L[4].allow /\ p \notin L[4].deny /\ p \notin L[5].deny
        \/ /\ p \in L[3].allow /\ p \notin L[3].deny /\ p \notin L[4].deny
           /\ p \notin L[5].deny
        \/ /\ p \in L[2].allow /\ p \notin L[2].deny /\ p \notin L[3].deny
           /\ p \notin L[4].deny /\ p \notin L[5].deny
        \/ /\ p \in L[1].allow /\ p \notin L[1].deny /\ p \notin L[2].deny
           /\ p \notin L[3].deny /\ p \notin L[4].deny /\ p \notin L[5].deny
  BY <1>2 DEF Granted
<1> QED BY <1>1, <1>3 DEF L

\* compute answers the reference for every database: owner and ManageServer
\* bypass everything, and otherwise the last layer that speaks about a bit
\* decides it, deny winning within a layer.
THEOREM ComputeIsReference ==
  ASSUME NEW bits, NEW catRows, NEW chanRows,
         Database(bits, catRows, chanRows),
         NEW u \in Users, NEW roles \in SUBSET Roles
  PROVE  Compute(u, bits, roles, catRows, chanRows)
           = Reference(u, bits, roles, catRows, chanRows)
<1> DEFINE C == Compute(u, bits, roles, catRows, chanRows)
           base == RoleUnion(bits, roles)
           cat == ApplyOverrides(base, catRows, roles, u)
<1>1. C \subseteq Perms
  BY ComputeIsPerms
<1>2. CASE IsAdmin(u, bits, roles)
  BY <1>2 DEF Compute, BasePermissions, Reference
<1>3. CASE ~IsAdmin(u, bits, roles)
  <2>1. C = ApplyOverrides(cat, chanRows, roles, u)
    BY <1>3 DEF Compute, BasePermissions, ChannelOverrides
  <2>2. ASSUME NEW p
        PROVE  p \in C <=> Granted(p, Layers(u, bits, roles, catRows, chanRows))
    <3>1. p \in C <=>
            /\ p \notin chanRows[u].deny
            /\ \/ p \in chanRows[u].allow
               \/ /\ p \notin Merged(chanRows, roles).deny
                  /\ \/ p \in Merged(chanRows, roles).allow
                     \/ p \in cat
      BY <2>1, ApplyOverridesPerBit
    <3>2. p \in cat <=>
            /\ p \notin catRows[u].deny
            /\ \/ p \in catRows[u].allow
               \/ /\ p \notin Merged(catRows, roles).deny
                  /\ \/ p \in Merged(catRows, roles).allow
                     \/ p \in base
      BY ApplyOverridesPerBit
    <3>3. LET a == [allow |-> base, deny |-> {}] IN p \in a.allow <=> p \in base
      OBVIOUS
    <3>4. LET a == [allow |-> base, deny |-> {}] IN p \notin a.deny
      OBVIOUS
    <3> HIDE DEF C, base, cat
    <3> QED BY <3>1, <3>2, <3>3, <3>4, GrantedUnfolded DEF Layers, base
  <2> QED BY <1>1, <1>3, <2>2 DEF Reference
<1> QED BY <1>2, <1>3

\* A deny in the user's own channel row is final for everyone but an admin: no
\* role, category or channel row can give the bit back.
THEOREM UserDenyIsFinal ==
  ASSUME NEW bits, NEW catRows, NEW chanRows,
         Database(bits, catRows, chanRows),
         NEW u \in Users, NEW roles \in SUBSET Roles,
         ~IsAdmin(u, bits, roles), NEW p \in chanRows[u].deny
  PROVE  p \notin Compute(u, bits, roles, catRows, chanRows)
BY ApplyOverridesPerBit DEF Compute, BasePermissions, ChannelOverrides

-----------------------------------------------------------------------------
\* The inputs are a database throughout, and the answer is the reference.
AnswerIsReference ==
  /\ requester \in Users
  /\ assigned \in SUBSET Roles
  /\ Database(roleBits, category, channel)
  /\ ResolvesToReference

\* Every answer of Resolve on a cache miss is the reference's, whatever the
\* sets of bits, users and roles and whatever the rows.
THEOREM ResolutionCorrect == ResolutionSpec => []ResolvesToReference
<1>1. ResolutionInit => AnswerIsReference
  BY PermissionsAssumption
     DEF ResolutionInit, AnswerIsReference, Database, ResolvesToReference, NoAnswer
<1>2. AnswerIsReference /\ [Answer]_resolutionVars => AnswerIsReference'
  <2> SUFFICES ASSUME AnswerIsReference, [Answer]_resolutionVars
               PROVE  AnswerIsReference'
    OBVIOUS
  <2>1. CASE Answer
    <3>1. RoleIDs(assigned) \in SUBSET Roles
      BY PermissionsAssumption DEF AnswerIsReference, RoleIDs
    <3>2. Compute(requester, roleBits, RoleIDs(assigned), category, channel)
            = Reference(requester, roleBits, RoleIDs(assigned), category, channel)
      BY <3>1, ComputeIsReference DEF AnswerIsReference
    <3>3. UNCHANGED <<requester, roleBits, assigned, category, channel>>
      BY <2>1 DEF Answer, input
    <3>4. answer'.perm = Compute(requester, roleBits, RoleIDs(assigned), category, channel)
      BY <2>1 DEF Answer
    <3> QED BY <3>2, <3>3, <3>4 DEF AnswerIsReference, Database, ResolvesToReference
  <2>2. CASE UNCHANGED resolutionVars
    BY <2>2 DEF resolutionVars, input, AnswerIsReference, Database, ResolvesToReference
  <2> QED BY <2>1, <2>2
<1>3. AnswerIsReference => ResolvesToReference
  BY DEF AnswerIsReference
<1> QED BY <1>1, <1>2, <1>3, PTL DEF ResolutionSpec


-----------------------------------------------------------------------------
(* The cache.  What a call has read of a key is the database's until a     *)
(* write overtakes it; a write overtakes, and its handler announces, every *)
(* key whose permissions it can change.                                    *)

\* The base and the roles a call read for key k are those of the database, and
\* the channel's overrides count for k.
ReadIsCurrent(call, k) ==
  /\ k[2] \in Channels
  /\ ~IsAdmin(k[1], rolePerms, RoleIDs(held[k[1]]))
  /\ call.roles = RoleIDs(held[k[1]])
  /\ call.base = BasePermissions(k[1], rolePerms, RoleIDs(held[k[1]]))

\* What a call holds is current for every key no write has overtaken: the base
\* FilterPermitted read before MGET, the base of the keys it is to compute, and
\* the results it is to store.
CallCurrent(call) ==
  /\ call.pc = "mget" =>
       /\ call.user \in Users /\ call.ready = {} /\ Outcome(call) = {}
       /\ \A k \in UserScope(call.user) :
            k[2] \in Channels /\ k \notin call.raced => ReadIsCurrent(call, k)
  /\ \A k \in call.ready :
       k[2] \in Channels /\ (k \notin call.raced => ReadIsCurrent(call, k))
  /\ \A k \in Keys :
       call.out[k].hit /\ k \notin call.raced => call.out[k].perm = Effective(k)

CallsCurrent == \A p \in Resolvers : CallCurrent(resolver[p])

\* The inductive invariant of the cache.
CacheInv == TypeOK /\ CallsCurrent /\ StaleIsExplained


\* Facts about keys and rows that the steps below use.
LEMMA KeyParts ==
  ASSUME NEW k \in Keys
  PROVE  k[1] \in Users /\ k[2] \in Channels \cup {ServerKey} /\ k = <<k[1], k[2]>>
BY DEF Keys

LEMMA NoOverridesTyped == NoOverride \in Override /\ NoOverrides \in [Principals -> Override]
BY DEF NoOverride, NoOverrides, Override

LEMMA EveryoneIsHeld ==
  ASSUME NEW roles \in SUBSET Roles
  PROVE  RoleIDs(roles) \in SUBSET Roles
BY PermissionsAssumption DEF RoleIDs

\* What basePermissions reads is a set of defined bits.
LEMMA BaseIsPerms ==
  ASSUME NEW bits \in [Roles -> SUBSET Perms], NEW u, NEW roles \in SUBSET Roles
  PROVE  BasePermissions(u, bits, roles) \in SUBSET Perms
<1>1. RoleUnion(bits, roles) \subseteq Perms
  BY DEF RoleUnion
<1> QED BY <1>1 DEF BasePermissions

\* So is what channelOverrides makes of it.
LEMMA ChannelOverridesIsPerms ==
  ASSUME NEW base \in SUBSET Perms, NEW rows \in [Principals -> Override],
         NEW u \in Users, NEW roles \in SUBSET Roles
  PROVE  ChannelOverrides(base, NoOverrides, rows, roles, u) \in SUBSET Perms
<1>1. ApplyOverrides(base, NoOverrides, roles, u) \subseteq Perms
  BY NoOverridesTyped, ApplyOverridesIsPerms
<1>2. ApplyOverrides(ApplyOverrides(base, NoOverrides, roles, u), rows, roles, u)
        \subseteq Perms
  BY <1>1, ApplyOverridesIsPerms
<1> QED BY <1>2 DEF ChannelOverrides

\* An idle call, and an entry that is a miss or a hit, have their types.
LEMMA EntriesTyped == Miss \in Entry /\ \A perm \in SUBSET Perms : Hit(perm) \in Entry
BY DEF Miss, Hit, Entry

LEMMA NoCallTyped ==
  /\ NoCall \in Call
  /\ Outcome(NoCall) = {}
  /\ NoCall.pc = "idle" /\ NoCall.todo = {} /\ NoCall.ready = {} /\ NoCall.raced = {}
  /\ \A k \in Keys : NoCall.out[k] = Miss
BY EntriesTyped DEF NoCall, Call, Outcome, Miss

\* The part of TypeOK that speaks of one call.
CallOK(call) ==
  /\ call \in Call
  /\ call.ready \subseteq call.todo
  /\ call.todo \cap Outcome(call) = {}
  /\ call.pc = "overrides" => call.ready # {}

\* Advance only moves on; Computed settles one key.
LEMMA AdvanceParts ==
  ASSUME NEW call \in Call
  PROVE  /\ Advance(call) \in Call
         /\ Advance(call).todo = call.todo /\ Advance(call).ready = call.ready
         /\ Advance(call).base = call.base /\ Advance(call).roles = call.roles
         /\ Advance(call).out = call.out /\ Advance(call).raced = call.raced
         /\ Advance(call).user = call.user
         /\ Advance(call).pc \in {"base", "overrides", "store"}
         /\ Advance(call).pc = "overrides" => call.ready # {}
         /\ Outcome(Advance(call)) = Outcome(call)
BY DEF Advance, Call, Outcome

LEMMA ComputedParts ==
  ASSUME NEW call \in Call, NEW k \in Keys, NEW perm \in SUBSET Perms
  PROVE  LET next == Computed(call, k, perm) IN
         /\ next \in Call
         /\ next.todo = call.todo \ {k} /\ next.ready = call.ready \ {k}
         /\ next.base = call.base /\ next.roles = call.roles
         /\ next.out = [call.out EXCEPT ![k] = Hit(perm)]
         /\ next.raced = call.raced
         /\ next.pc \in {"base", "overrides", "store"}
         /\ next.pc = "overrides" => next.ready # {}
         /\ Outcome(next) = Outcome(call) \cup {k}
<1> DEFINE mid == [call EXCEPT !.todo = @ \ {k}, !.ready = @ \ {k}, !.out[k] = Hit(perm)]
<1>1. mid \in Call
  BY EntriesTyped DEF Call
<1>2. mid.out = [call.out EXCEPT ![k] = Hit(perm)]
  BY DEF Call
<1>3. Outcome(mid) = Outcome(call) \cup {k}
  BY <1>2 DEF Outcome, Hit, Call
<1>4. /\ mid.todo = call.todo \ {k} /\ mid.ready = call.ready \ {k}
      /\ mid.base = call.base /\ mid.roles = call.roles /\ mid.raced = call.raced
  BY DEF Call
<1>5. Computed(call, k, perm) = Advance(mid)
  BY DEF Computed
<1> HIDE DEF mid
<1> QED BY <1>1, <1>2, <1>3, <1>4, <1>5, AdvanceParts


-----------------------------------------------------------------------------
(* A resolver's steps *)

\* What Effective answers for a key whose base is all there is to it, and for
\* one whose base a call has read.
LEMMA BaseIsEffective ==
  ASSUME NEW k \in Keys,
         k[2] = ServerKey \/ IsAdmin(k[1], rolePerms, RoleIDs(held[k[1]]))
  PROVE  Effective(k) = BasePermissions(k[1], rolePerms, RoleIDs(held[k[1]]))
BY DEF Effective, Compute

LEMMA OverridesAreEffective ==
  ASSUME NEW k \in Keys, NEW call, ReadIsCurrent(call, k)
  PROVE  ChannelOverrides(call.base, NoOverrides, overrides[k[2]], call.roles, k[1])
           = Effective(k)
<1>1. k[2] # ServerKey
  BY CacheAssumption DEF ReadIsCurrent
<1> QED BY <1>1 DEF Effective, Compute, ReadIsCurrent

\* While the database stays, so does what is current.
LEMMA SameDatabase ==
  ASSUME UNCHANGED database
  PROVE  /\ \A k \in Keys : Effective(k)' = Effective(k)
         /\ \A call : CallCurrent(call)' <=> CallCurrent(call)
<1>0. UNCHANGED <<rolePerms, held, overrides, pending>>
  BY DEF database
<1>1. \A k \in Keys : Effective(k)' = Effective(k)
  BY <1>0 DEF Effective
<1>2. \A call, k : ReadIsCurrent(call, k)' <=> ReadIsCurrent(call, k)
  BY <1>0 DEF ReadIsCurrent
<1> QED BY <1>1, <1>2 DEF CallCurrent

\* One call moves on to a state that is well formed and current.
LEMMA CallMoves ==
  ASSUME TypeOK, CallsCurrent, NEW p \in Resolvers, NEW next,
         resolver' = [resolver EXCEPT ![p] = next],
         UNCHANGED database, UNCHANGED <<handler, inbox, left, writes, lost>>,
         CallOK(next), CallCurrent(next),
         cache' \in [Keys -> Entry], why' \in [Keys -> SUBSET Reasons]
  PROVE  TypeOK' /\ CallsCurrent'
<1>0. UNCHANGED <<rolePerms, held, overrides, pending>>
  BY DEF database
<1>1. \A q \in Resolvers : resolver'[q] = IF q = p THEN next ELSE resolver[q]
  BY DEF TypeOK
<1>2. resolver' \in [Resolvers -> Call]
  BY DEF TypeOK, CallOK
<1>3. ASSUME NEW q \in Resolvers
      PROVE  CallOK(resolver'[q]) /\ CallCurrent(resolver[q])'
  <2>1. PICK c : c = resolver'[q]
    OBVIOUS
  <2>2. CallOK(c) /\ CallCurrent(c)
    BY <1>1, <2>1 DEF TypeOK, CallsCurrent, CallOK
  <2>3. CallCurrent(c)'
    BY <2>2, SameDatabase
  <2> QED BY <2>1, <2>2, <2>3 DEF CallCurrent, ReadIsCurrent
<1>4. TypeOK'
  BY <1>0, <1>2, <1>3 DEF TypeOK, CallOK, Outcome
<1>5. CallsCurrent'
  BY <1>3 DEF CallsCurrent
<1> QED BY <1>4, <1>5


\* A call that has read nothing is current.
LEMMA FreshCall ==
  ASSUME NEW todo \in SUBSET Keys
  PROVE  /\ CallOK([NoCall EXCEPT !.pc = "base", !.todo = todo])
         /\ CallCurrent([NoCall EXCEPT !.pc = "base", !.todo = todo])
BY NoCallTyped, EntriesTyped
   DEF NoCall, CallOK, CallCurrent, Call, Outcome, Miss

LEMMA IdleCall == CallOK(NoCall) /\ CallCurrent(NoCall)
BY NoCallTyped DEF NoCall, CallOK, CallCurrent, Miss

\* A key's result joins the others.
LEMMA ResultIsCurrent ==
  ASSUME NEW call, CallOK(call), CallCurrent(call), NEW k \in Keys,
         NEW perm \in SUBSET Perms, k \notin call.raced => perm = Effective(k)
  PROVE  CallOK(Computed(call, k, perm)) /\ CallCurrent(Computed(call, k, perm))
<1> DEFINE next == Computed(call, k, perm)
<1>1. /\ next \in Call
      /\ next.todo = call.todo \ {k} /\ next.ready = call.ready \ {k}
      /\ next.base = call.base /\ next.roles = call.roles
      /\ next.out = [call.out EXCEPT ![k] = Hit(perm)]
      /\ next.raced = call.raced
      /\ next.pc \in {"base", "overrides", "store"}
      /\ next.pc = "overrides" => next.ready # {}
      /\ Outcome(next) = Outcome(call) \cup {k}
  BY ComputedParts DEF CallOK
<1> HIDE DEF next
<1>2. CallOK(next)
  BY <1>1 DEF CallOK
<1>3. \A j \in Keys : next.out[j] = IF j = k THEN Hit(perm) ELSE call.out[j]
  BY <1>1 DEF CallOK, Call
<1>4. CallCurrent(next)
  BY <1>1, <1>3 DEF CallCurrent, ReadIsCurrent, Hit
<1> QED BY <1>2, <1>4 DEF next

\* The steps of a call that write nothing but its own state.
QuietWork(p) ==
  \/ \E k \in Keys, ok \in BOOLEAN : Resolve(p, k, ok)
  \/ \E c \in Channels, ok \in BOOLEAN : FilterUsersPermitted(p, c, ok)
  \/ \E u \in Users : FilterPermitted(p, u)
  \/ \E ok \in BOOLEAN : GetMany(p, ok)
  \/ ReadBase(p)
  \/ ReadOverrides(p)
  \/ Abandon(p)

LEMMA QuietWorkMoves ==
  ASSUME TypeOK, CallsCurrent, NEW p \in Resolvers, QuietWork(p)
  PROVE  \E next : /\ resolver' = [resolver EXCEPT ![p] = next]
                   /\ CallOK(next) /\ CallCurrent(next)
<1> USE DEF Goto
<1>c. /\ resolver[p] \in Call /\ CallOK(resolver[p]) /\ CallCurrent(resolver[p])
  BY DEF TypeOK, CallsCurrent, CallOK
<1>1. CASE \E k \in Keys, ok \in BOOLEAN : Resolve(p, k, ok)
  <2>1. PICK k \in Keys, ok \in BOOLEAN : Resolve(p, k, ok)
    BY <1>1
  <2>2. {k} \in SUBSET Keys
    OBVIOUS
  <2> QED BY <2>1, <2>2, FreshCall, Zenon DEF Resolve
<1>2. CASE \E c \in Channels, ok \in BOOLEAN : FilterUsersPermitted(p, c, ok)
  <2>1. PICK c \in Channels, ok \in BOOLEAN : FilterUsersPermitted(p, c, ok)
    BY <1>2
  <2>2. PICK asked \in SUBSET ChannelScope(c) :
          resolver' = [resolver EXCEPT ![p] = [NoCall EXCEPT !.pc = "base", !.todo = Missed(asked, ok)]]
    BY <2>1, Zenon DEF FilterUsersPermitted
  <2>3. Missed(asked, ok) \in SUBSET Keys
    BY DEF ChannelScope, Missed
  <2> QED BY <2>2, <2>3, FreshCall, Zenon
<1>3. CASE \E u \in Users : FilterPermitted(p, u)
  <2>1. PICK u \in Users : FilterPermitted(p, u)
    BY <1>3
  <2> DEFINE roles == RoleIDs(held[u])
             base == BasePermissions(u, rolePerms, roles)
             next == [NoCall EXCEPT !.pc = "mget", !.user = u, !.roles = roles,
                                    !.base = base]
  <2>2. roles \in SUBSET Roles /\ base \in SUBSET Perms
    BY EveryoneIsHeld, BaseIsPerms DEF TypeOK
  <2>3. ~IsAdmin(u, rolePerms, roles) /\ resolver' = [resolver EXCEPT ![p] = next]
    BY <2>1 DEF FilterPermitted
  <2>4. /\ next \in Call /\ next.pc = "mget" /\ next.user = u /\ next.roles = roles
        /\ next.base = base /\ next.todo = {} /\ next.ready = {} /\ next.raced = {}
        /\ next.out = NoCall.out
    BY <2>2, NoCallTyped DEF NoCall, Call
  <2>5. \A k \in UserScope(u) : k[2] \in Channels => ReadIsCurrent(next, k)
    BY <2>3, <2>4 DEF UserScope, ReadIsCurrent
  <2> HIDE DEF next
  <2>6. CallOK(next)
    BY <2>4, NoCallTyped DEF CallOK, Outcome
  <2>7. CallCurrent(next)
    BY <2>4, <2>5, NoCallTyped DEF CallCurrent, Miss, Outcome
  <2> QED BY <2>3, <2>6, <2>7
<1>4. CASE \E ok \in BOOLEAN : GetMany(p, ok)
  <2>0. PICK ok \in BOOLEAN : GetMany(p, ok)
    BY <1>4
  <2>1. PICK asked \in SUBSET Channels :
          LET missed == Missed({resolver[p].user} \X asked, ok) IN
          Goto(p, IF missed = {} THEN NoCall
                  ELSE Advance([resolver[p] EXCEPT !.todo = missed, !.ready = missed]))
    BY <2>0, Zenon DEF GetMany
  <2> DEFINE missed == Missed({resolver[p].user} \X asked, ok)
             mid == [resolver[p] EXCEPT !.todo = missed, !.ready = missed]
             next == IF missed = {} THEN NoCall ELSE Advance(mid)
  <2>2. resolver[p].pc = "mget" /\ resolver[p].user \in Users
    BY <2>0, <1>c DEF GetMany, CallCurrent
  <2>3. missed \subseteq UserScope(resolver[p].user) /\ \A k \in missed : k[2] \in Channels
    BY <2>2 DEF UserScope, Keys, Missed
  <2>4. missed \in SUBSET Keys
    BY <2>3 DEF UserScope
  <2>5. CASE missed = {}
    BY <2>1, <2>5, IdleCall
  <2>6. CASE missed # {}
    <3>1. /\ mid \in Call /\ mid.todo = missed /\ mid.ready = missed
          /\ mid.base = resolver[p].base /\ mid.roles = resolver[p].roles
          /\ mid.out = resolver[p].out /\ mid.raced = resolver[p].raced
      BY <1>c, <2>4 DEF Call
    <3>2. \A k \in missed : k \notin mid.raced => ReadIsCurrent(mid, k)
      BY <1>c, <2>2, <2>3, <3>1 DEF CallCurrent, ReadIsCurrent
    <3> DEFINE adv == Advance(mid)
    <3>3. resolver' = [resolver EXCEPT ![p] = adv]
      BY <2>1, <2>6
    <3> HIDE DEF mid
    <3>4. /\ adv \in Call /\ adv.todo = missed /\ adv.ready = missed
          /\ adv.base = mid.base /\ adv.roles = mid.roles /\ adv.raced = mid.raced
          /\ adv.out = resolver[p].out /\ adv.pc # "mget"
          /\ adv.pc = "overrides" => adv.ready # {}
      BY <3>1, AdvanceParts
    <3> HIDE DEF adv
    <3>5. CallCurrent(adv)
      BY <2>3, <3>1, <3>2, <3>4, <1>c DEF CallCurrent, ReadIsCurrent
    <3>6. CallOK(adv)
      <4>1. Outcome(resolver[p]) = {}
        BY <1>c, <2>2 DEF CallCurrent
      <4> QED BY <3>4, <4>1 DEF CallOK, Outcome
    <3> QED BY <3>3, <3>5, <3>6
  <2> QED BY <2>5, <2>6

<1>5. CASE ReadBase(p)
  <2>1. PICK k \in resolver[p].todo :
          LET roles == RoleIDs(held[k[1]])
              base  == BasePermissions(k[1], rolePerms, roles)
          IN  Goto(p, IF k[2] = ServerKey \/ IsAdmin(k[1], rolePerms, roles)
                      THEN Computed(resolver[p], k, base)
                      ELSE Advance([resolver[p] EXCEPT !.ready = {k}, !.base = base,
                                                       !.roles = roles]))
    BY <1>5, Zenon DEF ReadBase
  <2> DEFINE roles == RoleIDs(held[k[1]])
             base == BasePermissions(k[1], rolePerms, roles)
  <2>2. k \in Keys /\ k[1] \in Users
    BY <1>c, KeyParts DEF Call
  <2>3. roles \in SUBSET Roles /\ base \in SUBSET Perms
    BY <2>2, EveryoneIsHeld, BaseIsPerms DEF TypeOK
  <2>4. CASE k[2] = ServerKey \/ IsAdmin(k[1], rolePerms, roles)
    <3>1. resolver' = [resolver EXCEPT ![p] = Computed(resolver[p], k, base)]
      BY <2>1, <2>4
    <3>2. base = Effective(k)
      BY <2>2, <2>4, BaseIsEffective
    <3> HIDE DEF base
    <3> QED BY <1>c, <2>2, <2>3, <3>1, <3>2, ResultIsCurrent
  <2>5. CASE ~(k[2] = ServerKey \/ IsAdmin(k[1], rolePerms, roles))
    <3> DEFINE mid == [resolver[p] EXCEPT !.ready = {k}, !.base = base, !.roles = roles]
               adv == Advance(mid)
    <3>1. resolver' = [resolver EXCEPT ![p] = adv]
      BY <2>1, <2>5
    <3>2. /\ mid \in Call /\ mid.todo = resolver[p].todo /\ mid.ready = {k}
          /\ mid.base = base /\ mid.roles = roles
          /\ mid.out = resolver[p].out /\ mid.raced = resolver[p].raced
      BY <1>c, <2>2, <2>3 DEF Call
    <3> HIDE DEF mid
    <3>3. /\ adv \in Call /\ adv.todo = resolver[p].todo /\ adv.ready = {k}
          /\ adv.base = base /\ adv.roles = roles /\ adv.raced = resolver[p].raced
          /\ adv.out = resolver[p].out /\ adv.pc # "mget"
      BY <3>2, AdvanceParts
    <3> HIDE DEF adv
    <3>4. ReadIsCurrent(adv, k)
      BY <2>2, <2>5, <3>3, KeyParts DEF ReadIsCurrent
    <3> HIDE DEF base, roles
    <3>5. CallOK(adv)
      BY <1>c, <3>3 DEF CallOK, Outcome
    <3>6. CallCurrent(adv)
      BY <1>c, <3>3, <3>4, <2>2, <2>5, KeyParts DEF CallCurrent
    <3> QED BY <3>1, <3>5, <3>6
  <2> QED BY <2>4, <2>5
<1>6. CASE ReadOverrides(p)
  <2>1. PICK k \in resolver[p].ready :
          Goto(p, Computed(resolver[p], k,
                    ChannelOverrides(resolver[p].base, NoOverrides, overrides[k[2]],
                                     resolver[p].roles, k[1])))
    BY <1>6 DEF ReadOverrides
  <2> DEFINE perm == ChannelOverrides(resolver[p].base, NoOverrides, overrides[k[2]],
                                      resolver[p].roles, k[1])
  <2>2. k \in Keys /\ k[1] \in Users /\ k[2] \in Channels
    BY <1>c, KeyParts DEF Call, CallCurrent
  <2>3. perm \in SUBSET Perms
    BY <1>c, <2>2, ChannelOverridesIsPerms DEF Call, TypeOK
  <2>4. k \notin resolver[p].raced => perm = Effective(k)
    BY <1>c, <2>2, OverridesAreEffective DEF CallCurrent
  <2>5. resolver' = [resolver EXCEPT ![p] = Computed(resolver[p], k, perm)]
    BY <2>1
  <2> HIDE DEF perm
  <2> QED BY <1>c, <2>2, <2>3, <2>4, <2>5, ResultIsCurrent
<1>7. CASE Abandon(p)
  BY <1>7, IdleCall DEF Abandon
<1> QED BY <1>1, <1>2, <1>3, <1>4, <1>5, <1>6, <1>7 DEF QuietWork


\* A step that leaves the database, the entries and the announcements alone
\* leaves every stale entry explained.
LEMMA NothingNewStale ==
  ASSUME StaleIsExplained, UNCHANGED database,
         UNCHANGED <<cache, handler, inbox, left, why>>
  PROVE  StaleIsExplained'
BY SameDatabase DEF StaleIsExplained, Stale, Announced

LEMMA QuietWorkKeeps ==
  ASSUME CacheInv, NEW p \in Resolvers, QuietWork(p)
  PROVE  CacheInv'
<1>1. UNCHANGED database /\ UNCHANGED <<cache, handler, inbox, left, writes, history>>
  BY Zenon DEF QuietWork, Resolve, FilterUsersPermitted, FilterPermitted, GetMany,
     ReadBase, ReadOverrides, Abandon
<1>2. UNCHANGED <<why, lost>>
  BY <1>1 DEF history
<1>3. PICK next : /\ resolver' = [resolver EXCEPT ![p] = next]
                  /\ CallOK(next) /\ CallCurrent(next)
  BY QuietWorkMoves DEF CacheInv
<1>4. TypeOK' /\ CallsCurrent'
  BY <1>1, <1>2, <1>3, CallMoves DEF CacheInv, TypeOK
<1>5. StaleIsExplained'
  BY <1>1, <1>2, NothingNewStale DEF CacheInv
<1> QED BY <1>4, <1>5 DEF CacheInv

\* A result is stored: what it says is the database's, or a write overtook it.
LEMMA StoreKeeps ==
  ASSUME CacheInv, NEW p \in Resolvers, NEW k \in Keys, Store(p, k)
  PROVE  CacheInv'
<1> DEFINE call == resolver[p]
           rest == [call EXCEPT !.out[k] = Miss]
           next == IF Outcome(rest) = {} THEN NoCall ELSE rest
<1>1. /\ call.pc = "store" /\ call.out[k].hit
      /\ cache' = [cache EXCEPT ![k] = call.out[k]]
      /\ why' = [why EXCEPT ![k] = IF k \in call.raced THEN {"race"} ELSE {}]
      /\ resolver' = [resolver EXCEPT ![p] = next]
      /\ UNCHANGED database /\ UNCHANGED <<handler, inbox, left, writes, lost>>
  BY Zenon DEF Store, Goto
<1>2. call \in Call /\ CallOK(call) /\ CallCurrent(call)
  BY DEF CacheInv, TypeOK, CallsCurrent, CallOK
<1>3. /\ rest \in Call /\ rest.pc = "store" /\ rest.ready = call.ready
      /\ rest.todo = call.todo /\ rest.raced = call.raced
      /\ rest.base = call.base /\ rest.roles = call.roles
      /\ \A j \in Keys : rest.out[j] = IF j = k THEN Miss ELSE call.out[j]
  BY <1>1, <1>2, EntriesTyped DEF Call
<1>4. CallOK(next) /\ CallCurrent(next)
  <2> HIDE DEF rest, call
  <2>1. CallOK(rest)
    BY <1>2, <1>3 DEF CallOK, Outcome, Miss
  <2>2. CallCurrent(rest)
    BY <1>2, <1>3 DEF CallCurrent, ReadIsCurrent, Miss
  <2> QED BY <2>1, <2>2, IdleCall
<1>5. cache' \in [Keys -> Entry] /\ why' \in [Keys -> SUBSET Reasons]
  BY <1>1, <1>2 DEF CacheInv, TypeOK, Call, Reasons
<1>6. TypeOK' /\ CallsCurrent'
  <2>1. PICK c : c = next
    OBVIOUS
  <2> HIDE DEF next
  <2>2. resolver' = [resolver EXCEPT ![p] = c] /\ CallOK(c) /\ CallCurrent(c)
    BY <1>1, <1>4, <2>1
  <2> QED BY <1>1, <1>5, <2>2, CallMoves DEF CacheInv
<1>7. StaleIsExplained'
  <2> SUFFICES ASSUME NEW j \in Keys, Stale(j)'
               PROVE  (Announced(j) \/ why[j] # {})'
    BY DEF StaleIsExplained
  <2>1. Effective(j)' = Effective(j)
    BY <1>1, SameDatabase
  <2>2. CASE j = k
    <3>1. cache'[k] = call.out[k]
      BY <1>1 DEF CacheInv, TypeOK
    <3>2. k \in call.raced
      BY <1>1, <1>2, <2>1, <2>2, <3>1 DEF Stale, CallCurrent
    <3>3. why'[k] = {"race"}
      BY <1>1, <3>2 DEF CacheInv, TypeOK
    <3> QED BY <2>2, <3>3
  <2>3. CASE j # k
    <3>1. cache'[j] = cache[j] /\ why'[j] = why[j]
      BY <1>1, <2>3 DEF CacheInv, TypeOK
    <3>2. Stale(j)
      BY <2>1, <3>1 DEF Stale
    <3> QED BY <1>1, <3>1, <3>2 DEF CacheInv, StaleIsExplained, Announced
  <2> QED BY <2>2, <2>3
<1> QED BY <1>6, <1>7 DEF CacheInv

-----------------------------------------------------------------------------
(* A write *)

\* The rows of other principals do not count.
LEMMA ApplyOverridesLocal ==
  ASSUME NEW base, NEW rows, NEW newRows, NEW roles, NEW u,
         \A q \in roles \cup {u} : newRows[q] = rows[q]
  PROVE  ApplyOverrides(base, newRows, roles, u) = ApplyOverrides(base, rows, roles, u)
<1>1. \A r \in roles : newRows[r] = rows[r]
  OBVIOUS
<1>2. {newRows[r].allow : r \in roles} = {rows[r].allow : r \in roles}
  BY <1>1
<1>3. {newRows[r].deny : r \in roles} = {rows[r].deny : r \in roles}
  BY <1>1
<1> QED BY <1>2, <1>3 DEF ApplyOverrides

\* What a write leaves alone.
Untouched(scope) ==
  \A k \in Keys \ scope :
    /\ Effective(k)' = Effective(k)
    /\ \A call : ReadIsCurrent(call, k) => ReadIsCurrent(call, k)'

\* A key is untouched when its user's roles and bits, and the rows that count
\* for them in its channel, are.
LEMMA UntouchedKey ==
  ASSUME TypeOK, NEW k \in Keys,
         rolePerms' = rolePerms, held'[k[1]] = held[k[1]],
         k[2] \in Channels =>
           \A q \in RoleIDs(held[k[1]]) \cup {k[1]} :
             overrides'[k[2]][q] = overrides[k[2]][q]
  PROVE  /\ Effective(k)' = Effective(k)
         /\ \A call : ReadIsCurrent(call, k) => ReadIsCurrent(call, k)'
<1>1. CASE k[2] = ServerKey
  BY <1>1 DEF Effective, ReadIsCurrent
<1>2. CASE k[2] \in Channels
  <2> DEFINE base == BasePermissions(k[1], rolePerms, RoleIDs(held[k[1]]))
             cat == ApplyOverrides(base, NoOverrides, RoleIDs(held[k[1]]), k[1])
  <2>1. ApplyOverrides(cat, overrides'[k[2]], RoleIDs(held[k[1]]), k[1])
          = ApplyOverrides(cat, overrides[k[2]], RoleIDs(held[k[1]]), k[1])
    <3> HIDE DEF cat
    <3> QED BY <1>2, ApplyOverridesLocal
  <2>2. Effective(k)' = Effective(k)
    BY <2>1 DEF Effective, Compute, ChannelOverrides
  <2> QED BY <2>2 DEF ReadIsCurrent
<1> QED BY <1>1, <1>2, KeyParts

\* The calls that read what the write changed are marked; the others are as
\* current as before.
LEMMA OvertakenCalls ==
  ASSUME TypeOK, CallsCurrent, NEW scope \in SUBSET Keys,
         Overtake(scope), Untouched(scope)
  PROVE  /\ CallsCurrent'
         /\ resolver' \in [Resolvers -> Call]
         /\ \A p \in Resolvers : CallOK(resolver'[p])
<1> SUFFICES ASSUME NEW p \in Resolvers
             PROVE  CallCurrent(resolver[p])' /\ CallOK(resolver'[p])
  BY DEF Overtake, CallsCurrent, CallOK
<1>1. PICK old : old = resolver[p]
  OBVIOUS
<1>2. PICK new : new = resolver'[p]
  OBVIOUS
<1>3. old \in Call /\ CallOK(old) /\ CallCurrent(old)
  BY <1>1 DEF TypeOK, CallsCurrent, CallOK
<1>4. new = [old EXCEPT !.raced = @ \cup (scope \cap Begun(old))]
  BY <1>1, <1>2 DEF Overtake
<1>5. /\ new \in Call /\ new.raced = old.raced \cup (scope \cap Begun(old))
      /\ new.pc = old.pc /\ new.user = old.user /\ new.todo = old.todo
      /\ new.ready = old.ready /\ new.base = old.base /\ new.roles = old.roles
      /\ new.out = old.out
  BY <1>3, <1>4 DEF Call
<1>6. Outcome(new) = Outcome(old)
  BY <1>5 DEF Outcome
<1>7. CallOK(new)
  BY <1>3, <1>5, <1>6 DEF CallOK
<1>8. \A k \in Keys : ReadIsCurrent(old, k) /\ k \notin scope => ReadIsCurrent(new, k)'
  BY <1>5 DEF Untouched, ReadIsCurrent
<1>9. CallCurrent(new)'
  <2>1. \A k \in Begun(old) : k \notin new.raced => k \notin scope
    BY <1>5
  <2>2. CASE new.pc = "mget"
    <3>1. Begun(old) = UserScope(new.user) /\ Outcome(old) = {} /\ old.ready = {}
      BY <1>3, <1>5, <2>2 DEF Begun, CallCurrent
    <3> QED BY <1>3, <1>5, <1>6, <1>8, <2>1, <2>2, <3>1
            DEF CallCurrent, UserScope, Outcome
  <2>3. CASE new.pc # "mget"
    <3>1. Begun(old) = old.ready \cup Outcome(old)
      BY <1>5, <2>3 DEF Begun
    <3>2. old.ready \subseteq Keys
      BY <1>3 DEF Call
    <3>3. \A k \in new.ready :
            k[2] \in Channels /\ (k \notin new.raced => ReadIsCurrent(new, k)')
      BY <1>3, <1>5, <1>8, <2>1, <3>1, <3>2 DEF CallCurrent
    <3>4. \A k \in Keys :
            new.out[k].hit /\ k \notin new.raced => new.out[k].perm = Effective(k)'
      BY <1>3, <1>5, <2>1, <3>1 DEF CallCurrent, Outcome, Untouched
    <3> QED BY <2>3, <3>3, <3>4 DEF CallCurrent
  <2> QED BY <2>2, <2>3
<1> QED BY <1>2, <1>7, <1>9 DEF CallCurrent, ReadIsCurrent


\* A handler commits and is to announce everything its write touched.
LEMMA CommitKeeps ==
  ASSUME CacheInv, NEW h \in Handlers, NEW scope \in SUBSET Keys,
         Commit(h, scope), Untouched(scope),
         rolePerms' \in [Roles -> SUBSET Perms], held' \in [Users -> SUBSET Roles],
         overrides' \in [Channels -> [Principals -> Override]], pending' \subseteq Users
  PROVE  CacheInv'
<1>1. /\ handler[h] = {} /\ writes < MaxWrites /\ writes' = writes + 1
      /\ Overtake(scope) /\ handler' = [handler EXCEPT ![h] = scope]
      /\ UNCHANGED <<cache, inbox, left, why, lost>>
  BY DEF Commit, history
<1>2. /\ CallsCurrent' /\ resolver' \in [Resolvers -> Call]
      /\ \A p \in Resolvers : CallOK(resolver'[p])
  BY <1>1, OvertakenCalls DEF CacheInv
<1>3. writes' \in 0..MaxWrites
  BY <1>1, CacheAssumption DEF CacheInv, TypeOK
<1>4. TypeOK'
  BY <1>1, <1>2, <1>3 DEF CacheInv, TypeOK, CallOK, Outcome
<1>5. StaleIsExplained'
  <2> SUFFICES ASSUME NEW k \in Keys, Stale(k)'
               PROVE  (Announced(k) \/ why[k] # {})'
    BY DEF StaleIsExplained
  <2>1. handler'[h] = scope /\ \A g \in Handlers \ {h} : handler'[g] = handler[g]
    BY <1>1 DEF CacheInv, TypeOK
  <2>2. CASE k \in scope
    BY <2>1, <2>2 DEF Announced
  <2>3. CASE k \notin scope
    <3>1. Stale(k)
      BY <1>1, <2>3 DEF Stale, Untouched
    <3>2. Announced(k) => Announced(k)'
      BY <1>1, <2>1 DEF Announced
    <3> QED BY <1>1, <3>1, <3>2 DEF CacheInv, StaleIsExplained
  <2> QED BY <2>2, <2>3
<1> QED BY <1>2, <1>4, <1>5 DEF CacheInv

\* The writes of the handlers.
Writes(h) ==
  \/ \E r \in Roles, value \in RoleValues : UpdateRole(h, r, value)
  \/ \E r \in Roles : DeleteRole(h, r)
  \/ \E c \in Channels, q \in Principals, row \in OverrideValues :
       SetOverride(h, c, q, row)
  \/ \E u \in Users, r \in Roles : AssignRole(h, u, r) \/ RemoveRole(h, u, r)
  \/ \E u \in Users : ChangeMembership(h, u) \/ DeleteAccount(h, u)

\* Every handler announces at least what its write touches.
LEMMA WritesKeep ==
  ASSUME CacheInv, NEW h \in Handlers, Writes(h)
  PROVE  CacheInv'
<1>t. TypeOK
  BY DEF CacheInv
<1>s. /\ Keys \in SUBSET Keys
      /\ \A u : UserScope(u) \in SUBSET Keys
      /\ \A c : ChannelScope(c) \in SUBSET Keys
  BY DEF UserScope, ChannelScope
<1>1. CASE \E r \in Roles, value \in RoleValues : UpdateRole(h, r, value)
  <2>1. PICK r \in Roles, value \in RoleValues : UpdateRole(h, r, value)
    BY <1>1
  <2>2. rolePerms' \in [Roles -> SUBSET Perms]
    BY <1>t, <2>1, PermissionsAssumption DEF UpdateRole, TypeOK
  <2>3. Untouched(Keys)
    BY DEF Untouched
  <2> QED BY <1>t, <1>s, <2>1, <2>2, <2>3, CommitKeeps DEF UpdateRole, TypeOK
<1>2. CASE \E r \in Roles : DeleteRole(h, r)
  <2>1. PICK r \in Roles : DeleteRole(h, r)
    BY <1>2
  <2>2. held' \in [Users -> SUBSET Roles]
    BY <1>t, <2>1 DEF DeleteRole, TypeOK
  <2>3. overrides' \in [Channels -> [Principals -> Override]]
    BY <1>t, <2>1, NoOverridesTyped DEF DeleteRole, TypeOK, Principals
  <2>4. Untouched(Keys)
    BY DEF Untouched
  <2> QED BY <1>t, <1>s, <2>1, <2>2, <2>3, <2>4, CommitKeeps DEF DeleteRole, TypeOK
<1>3. CASE \E c \in Channels, q \in Principals, row \in OverrideValues :
             SetOverride(h, c, q, row)
  <2>1. PICK c \in Channels, q \in Principals, row \in OverrideValues :
          SetOverride(h, c, q, row)
    BY <1>3
  <2>2. overrides' \in [Channels -> [Principals -> Override]]
    BY <1>t, <2>1, PermissionsAssumption DEF SetOverride, TypeOK
  <2>3. ASSUME NEW k \in Keys \ ChannelScope(c)
        PROVE  /\ Effective(k)' = Effective(k)
               /\ \A call : ReadIsCurrent(call, k) => ReadIsCurrent(call, k)'
    <3>1. k[2] # c
      BY DEF ChannelScope
    <3>2. k[2] \in Channels => overrides'[k[2]] = overrides[k[2]]
      BY <1>t, <2>1, <3>1 DEF SetOverride, TypeOK
    <3> QED BY <1>t, <2>1, <3>2, UntouchedKey DEF SetOverride
  <2> QED BY <1>t, <1>s, <2>1, <2>2, <2>3, CommitKeeps DEF SetOverride, TypeOK, Untouched
<1>4. CASE \E u \in Users, r \in Roles : AssignRole(h, u, r) \/ RemoveRole(h, u, r)
  <2>1. PICK u \in Users, r \in Roles : AssignRole(h, u, r) \/ RemoveRole(h, u, r)
    BY <1>4
  <2>2. held' \in [Users -> SUBSET Roles] /\ \A v \in Users \ {u} : held'[v] = held[v]
    BY <1>t, <2>1 DEF AssignRole, RemoveRole, TypeOK
  <2>3. ASSUME NEW k \in Keys \ UserScope(u)
        PROVE  /\ Effective(k)' = Effective(k)
               /\ \A call : ReadIsCurrent(call, k) => ReadIsCurrent(call, k)'
    <3>1. held'[k[1]] = held[k[1]]
      BY <2>2, KeyParts DEF UserScope
    <3> QED BY <1>t, <2>1, <3>1, UntouchedKey DEF AssignRole, RemoveRole
  <2> QED BY <1>t, <1>s, <2>1, <2>2, <2>3, CommitKeeps
          DEF AssignRole, RemoveRole, TypeOK, Untouched
<1>5. CASE \E u \in Users : ChangeMembership(h, u)
  <2>1. PICK u \in Users : ChangeMembership(h, u)
    BY <1>5
  <2>2. Untouched(UserScope(u))
    BY <1>t, <2>1, UntouchedKey DEF ChangeMembership, Untouched
  <2> QED BY <1>t, <1>s, <2>1, <2>2, CommitKeeps DEF ChangeMembership, TypeOK
<1>6. CASE \E u \in Users : DeleteAccount(h, u)
  <2>1. PICK u \in Users : DeleteAccount(h, u)
    BY <1>6
  <2>2. held' \in [Users -> SUBSET Roles] /\ \A v \in Users \ {u} : held'[v] = held[v]
    BY <1>t, <2>1 DEF DeleteAccount, TypeOK
  <2>3. overrides' \in [Channels -> [Principals -> Override]]
    BY <1>t, <2>1, NoOverridesTyped DEF DeleteAccount, TypeOK, Principals
  <2>4. ASSUME NEW k \in Keys \ UserScope(u)
        PROVE  /\ Effective(k)' = Effective(k)
               /\ \A call : ReadIsCurrent(call, k) => ReadIsCurrent(call, k)'
    <3>1. k[1] \in Users \ {u}
      BY KeyParts DEF UserScope
    <3>2. RoleIDs(held[k[1]]) \cup {k[1]} \subseteq Principals \ {u}
      BY <1>t, <3>1, EveryoneIsHeld, PermissionsAssumption DEF TypeOK, Principals
    <3>3. \A c \in Channels, q \in Principals \ {u} : overrides'[c][q] = overrides[c][q]
      BY <1>t, <2>1 DEF DeleteAccount, TypeOK
    <3> QED BY <1>t, <2>1, <2>2, <3>1, <3>2, <3>3, UntouchedKey DEF DeleteAccount
  <2> QED BY <1>t, <1>s, <2>1, <2>2, <2>3, <2>4, CommitKeeps
          DEF DeleteAccount, TypeOK, Untouched
<1> QED BY <1>1, <1>2, <1>3, <1>4, <1>5, <1>6 DEF Writes


\* An activation announces nothing, and leaves a reason with every entry of the
\* user that is there.
LEMMA ActivateKeeps ==
  ASSUME CacheInv, NEW u \in Users, Activate(u)
  PROVE  CacheInv'
<1>t. TypeOK
  BY DEF CacheInv
<1>1. /\ u \in pending /\ writes < MaxWrites /\ writes' = writes + 1
      /\ pending' = pending \ {u} /\ held' = [held EXCEPT ![u] = @ \cup AutoRoles]
      /\ Overtake(UserScope(u))
      /\ why' = [k \in Keys |-> IF k \in UserScope(u) \cap Cached
                                THEN why[k] \cup {"unannounced"} ELSE why[k]]
      /\ UNCHANGED <<rolePerms, overrides, cache, handler, inbox, left, lost>>
  BY Zenon DEF Activate
<1>2. UserScope(u) \in SUBSET Keys
  BY DEF UserScope
<1>3. held' \in [Users -> SUBSET Roles] /\ \A v \in Users \ {u} : held'[v] = held[v]
  BY <1>t, <1>1, CacheAssumption DEF TypeOK
<1>4. ASSUME NEW k \in Keys \ UserScope(u)
      PROVE  /\ Effective(k)' = Effective(k)
             /\ \A call : ReadIsCurrent(call, k) => ReadIsCurrent(call, k)'
  <2>1. held'[k[1]] = held[k[1]]
    BY <1>3, KeyParts DEF UserScope
  <2> QED BY <1>t, <1>1, <2>1, UntouchedKey
<1>5. Untouched(UserScope(u))
  BY <1>4 DEF Untouched
<1>6. /\ CallsCurrent' /\ resolver' \in [Resolvers -> Call]
      /\ \A p \in Resolvers : CallOK(resolver'[p])
  BY <1>1, <1>2, <1>5, OvertakenCalls DEF CacheInv
<1>7. writes' \in 0..MaxWrites
  BY <1>t, <1>1, CacheAssumption DEF TypeOK
<1>8. why' \in [Keys -> SUBSET Reasons]
  BY <1>t, <1>1 DEF TypeOK, Reasons
<1>9. TypeOK'
  BY <1>t, <1>1, <1>3, <1>6, <1>7, <1>8 DEF TypeOK, CallOK, Outcome
<1>10. StaleIsExplained'
  <2> SUFFICES ASSUME NEW k \in Keys, Stale(k)'
               PROVE  (Announced(k) \/ why[k] # {})'
    BY DEF StaleIsExplained
  <2>1. k \in Cached
    BY <1>1 DEF Stale, Cached
  <2>2. CASE k \in UserScope(u)
    BY <1>1, <2>1, <2>2
  <2>3. CASE k \notin UserScope(u)
    <3>1. Stale(k) /\ why'[k] = why[k]
      BY <1>1, <1>4, <2>3 DEF Stale
    <3>2. Announced(k) => Announced(k)'
      BY <1>1 DEF Announced
    <3> QED BY <3>1, <3>2 DEF CacheInv, StaleIsExplained
  <2> QED BY <2>2, <2>3
<1> QED BY <1>6, <1>9, <1>10 DEF CacheInv

-----------------------------------------------------------------------------
(* Announcements *)

\* A step that moves announcements on, gives them up with a reason, or evicts
\* entries.
LEMMA AnnouncementMoves ==
  ASSUME CacheInv, UNCHANGED database, UNCHANGED <<resolver, writes>>,
         cache' \in [Keys -> Entry], handler' \in [Handlers -> SUBSET Keys],
         inbox' \in Seq(SUBSET Keys), left' \subseteq Keys,
         why' \in [Keys -> SUBSET Reasons], lost' \in BOOLEAN,
         \A k \in Keys :
           \/ ~cache'[k].hit
           \/ /\ cache'[k] = cache[k]
              /\ why[k] # {} => why'[k] # {}
              /\ Announced(k) => Announced(k)' \/ why'[k] # {}
  PROVE  CacheInv'
<1>0. UNCHANGED <<rolePerms, held, overrides, pending>>
  BY DEF database
<1>1. TypeOK'
  BY <1>0 DEF CacheInv, TypeOK, Outcome
<1>2. CallsCurrent'
  <2> SUFFICES ASSUME NEW p \in Resolvers
               PROVE  CallCurrent(resolver[p])'
    BY DEF CallsCurrent
  <2>1. PICK c : c = resolver[p]
    OBVIOUS
  <2>2. CallCurrent(c)'
    BY <2>1, SameDatabase DEF CacheInv, CallsCurrent
  <2> QED BY <2>1, <2>2 DEF CallCurrent, ReadIsCurrent
<1>3. StaleIsExplained'
  BY SameDatabase DEF CacheInv, StaleIsExplained, Stale
<1> QED BY <1>1, <1>2, <1>3 DEF CacheInv

\* What Lose and Evict do to the reasons and the entries.
LEMMA LoseParts ==
  ASSUME TypeOK, NEW keys, Lose(keys), cache' = cache
  PROVE  /\ why' \in [Keys -> SUBSET Reasons] /\ lost' \in BOOLEAN
         /\ \A k \in Keys : why[k] # {} => why'[k] # {}
         /\ \A k \in Keys : k \in keys /\ cache'[k].hit => why'[k] # {}
BY DEF Lose, TypeOK, Reasons, Cached

LEMMA EvictParts ==
  ASSUME TypeOK, NEW k \in Keys, Evict(k)
  PROVE  /\ why' \in [Keys -> SUBSET Reasons] /\ lost' \in BOOLEAN
         /\ cache' \in [Keys -> Entry] /\ ~cache'[k].hit
         /\ \A j \in Keys \ {k} : cache'[j] = cache[j] /\ why'[j] = why[j]
BY EntriesTyped DEF Evict, TypeOK, Miss

LEMMA PublishKeeps ==
  ASSUME CacheInv, NEW h \in Handlers, Publish(h) \/ PublishFails(h)
  PROVE  CacheInv'
<1>t. TypeOK
  BY DEF CacheInv
<1>1. CASE Publish(h)
  <2>1. /\ inbox' = Append(inbox, handler[h])
        /\ handler' = [handler EXCEPT ![h] = {}]
        /\ UNCHANGED database /\ UNCHANGED <<cache, resolver, left, writes, why, lost>>
    BY <1>1 DEF Publish, history
  <2>2. inbox' \in Seq(SUBSET Keys) /\ handler' \in [Handlers -> SUBSET Keys]
    BY <1>t, <2>1 DEF TypeOK
  <2>3. /\ \A i \in 1..Len(inbox) : i \in 1..Len(inbox') /\ inbox'[i] = inbox[i]
        /\ Len(inbox') \in 1..Len(inbox') /\ inbox'[Len(inbox')] = handler[h]
    BY <1>t, <2>1 DEF TypeOK
  <2>4. \A g \in Handlers : g # h => handler'[g] = handler[g]
    BY <1>t, <2>1 DEF TypeOK
  <2>5. \A k \in Keys : Announced(k) => Announced(k)'
    BY <2>1, <2>3, <2>4 DEF Announced
  <2> QED BY <1>t, <2>1, <2>2, <2>5, AnnouncementMoves DEF TypeOK
<1>2. CASE PublishFails(h)
  <2>1. /\ Lose(handler[h]) /\ handler' = [handler EXCEPT ![h] = {}]
        /\ UNCHANGED database /\ UNCHANGED <<cache, resolver, inbox, left, writes>>
    BY <1>2 DEF PublishFails
  <2>2. \A g \in Handlers : g # h => handler'[g] = handler[g]
    BY <1>t, <2>1 DEF TypeOK
  <2>3. \A k \in Keys : Announced(k) => Announced(k)' \/ k \in handler[h]
    BY <2>1, <2>2 DEF Announced
  <2>4. handler' \in [Handlers -> SUBSET Keys]
    BY <1>t, <2>1 DEF TypeOK
  <2>5. /\ why' \in [Keys -> SUBSET Reasons] /\ lost' \in BOOLEAN
        /\ \A k \in Keys : why[k] # {} => why'[k] # {}
        /\ \A k \in Keys : k \in handler[h] /\ cache'[k].hit => why'[k] # {}
    BY <1>t, <2>1, LoseParts
  <2> QED BY <1>t, <2>1, <2>3, <2>4, <2>5, AnnouncementMoves DEF TypeOK
<1> QED BY <1>1, <1>2

\* The subscriber takes a message, deletes its keys or gives them up.
LEMMA SubscriberKeeps ==
  ASSUME CacheInv, HandleMessage \/ SweepFails \/ Disconnect
  PROVE  CacheInv'
<1>t. TypeOK
  BY DEF CacheInv
<1>q. ASSUME inbox # <<>>
      PROVE  /\ Head(inbox) \in SUBSET Keys /\ Tail(inbox) \in Seq(SUBSET Keys)
             /\ \A i \in 1..Len(inbox) :
                  \/ inbox[i] = Head(inbox)
                  \/ i - 1 \in 1..Len(Tail(inbox)) /\ Tail(inbox)[i - 1] = inbox[i]
  BY <1>t, <1>q DEF TypeOK
<1>1. CASE HandleMessage
  <2>1. /\ left = {} /\ inbox # <<>> /\ inbox' = Tail(inbox)
        /\ left' = Head(inbox) \cap Cached
        /\ UNCHANGED database /\ UNCHANGED <<cache, resolver, handler, writes, why, lost>>
    BY <1>1 DEF HandleMessage, history
  <2>2. \A k \in Keys : Announced(k) => Announced(k)' \/ k \in Head(inbox)
    BY <1>q, <2>1 DEF Announced
  <2>3. \A k \in Keys : k \in Head(inbox) /\ cache'[k].hit => Announced(k)'
    BY <2>1 DEF Announced, Cached
  <2> QED BY <1>t, <1>q, <2>1, <2>2, <2>3, AnnouncementMoves DEF TypeOK
<1>2. CASE SweepFails
  <2>1. /\ Lose(left) /\ left' = {}
        /\ UNCHANGED database /\ UNCHANGED <<cache, resolver, handler, inbox, writes>>
    BY <1>2 DEF SweepFails
  <2>2. \A k \in Keys : Announced(k) => Announced(k)' \/ k \in left
    BY <2>1 DEF Announced
  <2>3. /\ why' \in [Keys -> SUBSET Reasons] /\ lost' \in BOOLEAN
        /\ \A k \in Keys : why[k] # {} => why'[k] # {}
        /\ \A k \in Keys : k \in left /\ cache'[k].hit => why'[k] # {}
    BY <1>t, <2>1, LoseParts
  <2> QED BY <1>t, <2>1, <2>2, <2>3, AnnouncementMoves DEF TypeOK
<1>3. CASE Disconnect
  <2>1. /\ inbox # <<>> /\ inbox' = Tail(inbox) /\ Lose(Head(inbox))
        /\ UNCHANGED database /\ UNCHANGED <<cache, resolver, handler, left, writes>>
    BY <1>3 DEF Disconnect
  <2>2. \A k \in Keys : Announced(k) => Announced(k)' \/ k \in Head(inbox)
    BY <1>q, <2>1 DEF Announced
  <2>3. /\ why' \in [Keys -> SUBSET Reasons] /\ lost' \in BOOLEAN
        /\ \A k \in Keys : why[k] # {} => why'[k] # {}
        /\ \A k \in Keys : k \in Head(inbox) /\ cache'[k].hit => why'[k] # {}
    BY <1>t, <2>1, LoseParts
  <2> QED BY <1>t, <1>q, <2>1, <2>2, <2>3, AnnouncementMoves DEF TypeOK
<1> QED BY <1>1, <1>2, <1>3

\* An entry goes: a key the scan deletes, or one whose TTL runs out.
LEMMA EvictKeeps ==
  ASSUME CacheInv, NEW k \in Keys, DeleteKey(k) \/ Expire(k)
  PROVE  CacheInv'
<1>t. TypeOK
  BY DEF CacheInv
<1>1. /\ Evict(k) /\ left \ {k} \subseteq left' /\ left' \subseteq left
      /\ UNCHANGED database /\ UNCHANGED <<resolver, handler, inbox, writes>>
  BY DEF DeleteKey, Expire
<1>2. /\ why' \in [Keys -> SUBSET Reasons] /\ lost' \in BOOLEAN
      /\ cache' \in [Keys -> Entry] /\ ~cache'[k].hit
      /\ \A j \in Keys \ {k} : cache'[j] = cache[j] /\ why'[j] = why[j]
  BY <1>t, <1>1, EvictParts
<1>3. \A j \in Keys \ {k} : Announced(j) => Announced(j)'
  BY <1>1 DEF Announced
<1> QED BY <1>t, <1>1, <1>2, <1>3, AnnouncementMoves DEF TypeOK

-----------------------------------------------------------------------------
\* The invariant holds throughout.
THEOREM CacheSound == Spec => []CacheInv
<1>1. Init => CacheInv
  <2> SUFFICES ASSUME Init PROVE CacheInv
    OBVIOUS
  <2>1. \A p \in Resolvers : resolver[p] = NoCall
    BY DEF Init
  <2>2. TypeOK
    <3>1. /\ resolver \in [Resolvers -> Call]
          /\ \A p \in Resolvers :
               /\ resolver[p].ready \subseteq resolver[p].todo
               /\ resolver[p].todo \cap Outcome(resolver[p]) = {}
               /\ resolver[p].pc = "overrides" => resolver[p].ready # {}
      BY <2>1, IdleCall DEF Init, CallOK
    <3>2. rolePerms \in [Roles -> SUBSET Perms] /\ held \in [Users -> SUBSET Roles]
      BY PermissionsAssumption DEF Init
    <3>3. overrides \in [Channels -> [Principals -> Override]]
      BY NoOverridesTyped DEF Init
    <3>4. cache \in [Keys -> Entry] /\ why \in [Keys -> SUBSET Reasons]
      BY EntriesTyped DEF Init, NoReasons
    <3>5. inbox \in Seq(SUBSET Keys) /\ writes \in 0..MaxWrites
      BY CacheAssumption DEF Init
    <3> QED BY <3>1, <3>2, <3>3, <3>4, <3>5 DEF Init, TypeOK
  <2>3. CallsCurrent
    BY <2>1, IdleCall DEF CallsCurrent
  <2>4. StaleIsExplained
    BY DEF Init, StaleIsExplained, Stale, Miss
  <2> QED BY <2>2, <2>3, <2>4 DEF CacheInv
<1>2. CacheInv /\ [Next]_vars => CacheInv'
  <2> SUFFICES ASSUME CacheInv, [Next]_vars
               PROVE  CacheInv'
    OBVIOUS
  <2>1. CASE \E p \in Resolvers : QuietWork(p)
    BY <2>1, QuietWorkKeeps
  <2>2. CASE \E p \in Resolvers, k \in Keys : Store(p, k)
    BY <2>2, StoreKeeps
  <2>3. CASE \E h \in Handlers : Writes(h)
    BY <2>3, WritesKeep
  <2>4. CASE \E h \in Handlers : Publish(h) \/ PublishFails(h)
    BY <2>4, PublishKeeps
  <2>5. CASE \E u \in Users : Activate(u)
    BY <2>5, ActivateKeeps
  <2>6. CASE HandleMessage \/ SweepFails \/ Disconnect
    BY <2>6, SubscriberKeeps
  <2>7. CASE \E k \in Keys : DeleteKey(k) \/ Expire(k)
    BY <2>7, EvictKeeps
  <2>8. CASE UNCHANGED vars
    <3>1. /\ UNCHANGED database
          /\ UNCHANGED <<cache, resolver, handler, inbox, left, writes, why, lost>>
      BY <2>8, Zenon DEF vars, history
    <3>2. \A k \in Keys : Announced(k)' <=> Announced(k)
      BY <3>1 DEF Announced
    <3> QED BY <3>1, <3>2, AnnouncementMoves DEF CacheInv, TypeOK
  <2> QED BY <2>1, <2>2, <2>3, <2>4, <2>5, <2>6, <2>7, <2>8, Zenon
          DEF Next, Work, Handle, QuietWork, Writes
<1> QED BY <1>1, <1>2, PTL DEF Spec

\* The variables of the cache, the resolvers and the subscriber have their types.
THEOREM CacheTypeCorrect == Spec => []TypeOK
<1>1. CacheInv => TypeOK
  BY DEF CacheInv
<1> QED BY <1>1, CacheSound, PTL

\* Every handler invalidates at least what its write changes, and every message
\* is carried out, under way or given up with a reason: whatever the users, the
\* roles, the channels and the number of requests, a stale entry is announced
\* or has its reason.
THEOREM StaleEntriesAreExplained == Spec => []StaleIsExplained
<1>1. CacheInv => StaleIsExplained
  BY DEF CacheInv
<1> QED BY <1>1, CacheSound, PTL

=============================================================================
