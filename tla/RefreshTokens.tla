---------------------------- MODULE RefreshTokens ----------------------------
(***************************************************************************)
(* Refresh tokens (internal/auth/refresh.go) and the service operations    *)
(* that issue, rotate and revoke them (internal/auth/service.go).          *)
(*                                                                         *)
(* Valkey holds two keys with separate deadlines: refresh:{token}, whose   *)
(* value is the owner, and user_refresh:{user}, the set a revocation walks.*)
(* Each Lua script is one atomic step; everything a service operation does *)
(* between two scripts or queries can interleave with every other call.    *)
(***************************************************************************)
EXTENDS Naturals

CONSTANTS
  Users,      \* user identifiers
  Tokens,     \* the UUIDs uuid.New can return; bounds how many are issued
  Calls,      \* service calls that can be in flight together
  TTL,        \* config.JWTRefreshTTL
  MaxTime,    \* bound on the clock
  None        \* no user or token: a missing key, or a lookup that failed

ASSUME RefreshAssumption ==
  /\ TTL \in Nat \ {0}
  /\ MaxTime \in Nat
  /\ None \notin Users \cup Tokens

VARIABLES
  now,          \* Valkey's clock
  refresh,      \* refresh:{token} -> owner and deadline
  userRefresh,  \* user_refresh:{user} -> members and deadline
  accounts,     \* rows of the users table
  call,         \* the service calls in flight
  family,       \* history: the user each UUID was issued for
  delivered,    \* history: tokens some response carried to a client
  successors,   \* history: the tokens minted by rotating a token
  revoked       \* history: tokens issued to a user before a revocation of it

store == <<refresh, userRefresh>>
history == <<family, successors, revoked>>
vars == <<now, refresh, userRefresh, accounts, call, family, delivered,
          successors, revoked>>

Absent == [user |-> None, exp |-> 0]
NoSet  == [members |-> {}, exp |-> 0]

\* GET / EXISTS refresh:{token}: a key past its deadline reads as missing.
Live(t) == refresh[t].user # None /\ now < refresh[t].exp

\* SMEMBERS user_refresh:{user}
Members(u) == IF now < userRefresh[u].exp THEN userRefresh[u].members ELSE {}

Fresh == {t \in Tokens : family[t] = None}

-----------------------------------------------------------------------------
(* The scripts.  Each also drops the members whose token key is gone.      *)

\* A token added to its owner's set, both with a full TTL from now.
StoredToken(u) == [user |-> u, exp |-> now + TTL]

(* StoredSetKeepsDeadline, CreateDropsOthers, RotateKeepsOld and           *)
(* RevokeKeepsKeys, each before the definition it stands in for, are       *)
(* variants for mutation checks and no part of the model.                  *)
StoredSetKeepsDeadline(u, gone, new) ==
  [members |-> {m \in Members(u) \ gone : Live(m)} \cup {new},
   exp |-> IF now < userRefresh[u].exp THEN userRefresh[u].exp ELSE now + TTL]

StoredSet(u, gone, new) ==
  [members |-> {m \in Members(u) \ gone : Live(m)} \cup {new}, exp |-> now + TTL]

CreateDropsOthers(u, new) ==
  /\ refresh' = [t \in Tokens |-> IF t = new THEN StoredToken(u)
                                 ELSE IF t \in Members(u) THEN Absent ELSE refresh[t]]
  /\ userRefresh' = [userRefresh EXCEPT ![u] = StoredSet(u, Members(u), new)]
  /\ family' = [family EXCEPT ![new] = u]
  /\ UNCHANGED <<successors, revoked>>

CreateScript(u, new) ==
  /\ refresh' = [refresh EXCEPT ![new] = StoredToken(u)]
  /\ userRefresh' = [userRefresh EXCEPT ![u] = StoredSet(u, {}, new)]
  /\ family' = [family EXCEPT ![new] = u]
  /\ UNCHANGED <<successors, revoked>>

RotateKeepsOld(old, new) ==
  LET u == refresh[old].user IN
  /\ refresh' = [refresh EXCEPT ![new] = StoredToken(u)]
  /\ userRefresh' = [userRefresh EXCEPT ![u] = StoredSet(u, {}, new)]
  /\ family' = [family EXCEPT ![new] = u]
  /\ successors' = [successors EXCEPT ![old] = @ \cup {new}]
  /\ UNCHANGED revoked

RotateScript(old, new) ==
  LET u == refresh[old].user IN
  /\ refresh' = [refresh EXCEPT ![old] = Absent, ![new] = StoredToken(u)]
  /\ userRefresh' = [userRefresh EXCEPT ![u] = StoredSet(u, {old}, new)]
  /\ family' = [family EXCEPT ![new] = u]
  /\ successors' = [successors EXCEPT ![old] = @ \cup {new}]
  /\ UNCHANGED revoked

RevokeKeepsKeys(u) ==
  /\ userRefresh' = [userRefresh EXCEPT ![u] = NoSet]
  /\ revoked' = revoked \cup {t \in Tokens : family[t] = u}
  /\ UNCHANGED <<refresh, family, successors>>

RevokeAllScript(u) ==
  /\ refresh' = [t \in Tokens |-> IF t \in Members(u) THEN Absent ELSE refresh[t]]
  /\ userRefresh' = [userRefresh EXCEPT ![u] = NoSet]
  /\ revoked' = revoked \cup {t \in Tokens : family[t] = u}
  /\ UNCHANGED <<family, successors>>

-----------------------------------------------------------------------------
(* Calls.  A call record is the local state of one service operation: the  *)
(* token it was given, the user it works for, the new token it minted, and *)
(* whether the slot's last answer was ErrRefreshTokenReused.               *)
Phases == {"idle", "issuing", "looked_up", "reused", "rotated", "revoking"}

NoCall == [pc |-> "idle", token |-> None, user |-> None, new |-> None,
           saidReused |-> FALSE]

Init ==
  /\ now = 0
  /\ refresh = [t \in Tokens |-> Absent]
  /\ userRefresh = [u \in Users |-> NoSet]
  /\ accounts = Users
  /\ call = [c \in Calls |-> NoCall]
  /\ family = [t \in Tokens |-> None]
  /\ delivered = {}
  /\ successors = [t \in Tokens |-> {}]
  /\ revoked = {}

Tick ==
  /\ now < MaxTime
  /\ now' = now + 1
  /\ UNCHANGED <<refresh, userRefresh, accounts, call, family, delivered,
                 successors, revoked>>

Goto(c, record) == call' = [call EXCEPT ![c] = record]
Return(c) == Goto(c, NoCall)
ReturnReused(c) == Goto(c, [NoCall EXCEPT !.saidReused = TRUE])

\* Login, VerifyMFA, VerifyEmail and Register find the row, then issue tokens.
BeginIssue(c, u) ==
  /\ call[c].pc = "idle"
  /\ u \in accounts
  /\ Goto(c, [NoCall EXCEPT !.pc = "issuing", !.user = u])
  /\ UNCHANGED <<now, store, accounts, history, delivered>>

\* issueTokens: the script runs; its reply, and the token with it, can be lost.
IssueTokens(c, new) ==
  /\ call[c].pc = "issuing"
  /\ new \in Fresh
  /\ CreateScript(call[c].user, new)
  /\ delivered' \in {delivered, delivered \cup {new}}
  /\ Return(c)
  /\ UNCHANGED <<now, accounts>>

\* Refresh, the pre-lookup.  A failed command also leaves no user.
LookUp(c, t) ==
  /\ call[c].pc = "idle"
  /\ t \in delivered
  /\ \E u \in {IF Live(t) THEN refresh[t].user ELSE None, None} :
       Goto(c, [NoCall EXCEPT !.pc = "looked_up", !.token = t, !.user = u])
  /\ UNCHANGED <<now, store, accounts, history, delivered>>

\* Refresh, the rotation of a token that is still there.
Rotate(c, new) ==
  /\ call[c].pc = "looked_up"
  /\ Live(call[c].token)
  /\ new \in Fresh
  /\ RotateScript(call[c].token, new)
  /\ Goto(c, [call[c] EXCEPT !.pc = "rotated",
                             !.user = refresh[call[c].token].user, !.new = new])
  /\ UNCHANGED <<now, accounts, delivered>>

\* The reply to the rotation is lost and the Valkey client sends it again.
RotateReplyLost(c, new) ==
  /\ call[c].pc = "looked_up"
  /\ Live(call[c].token)
  /\ new \in Fresh
  /\ RotateScript(call[c].token, new)
  /\ UNCHANGED <<now, accounts, call, delivered>>

\* The script finds no token: the family is revoked if the lookup named a user.
RotateMissing(c) ==
  /\ call[c].pc = "looked_up"
  /\ ~Live(call[c].token)
  /\ IF call[c].user # None THEN Goto(c, [call[c] EXCEPT !.pc = "reused"])
                            ELSE ReturnReused(c)
  /\ UNCHANGED <<now, store, accounts, history, delivered>>

RevokeReused(c) ==
  /\ call[c].pc = "reused"
  /\ RevokeAllScript(call[c].user)
  /\ ReturnReused(c)
  /\ UNCHANGED <<now, accounts, delivered>>

\* Refresh reads the user row; without it the new token is dropped.
FinishRefresh(c) ==
  /\ call[c].pc = "rotated"
  /\ delivered' = IF call[c].user \in accounts THEN delivered \cup {call[c].new}
                                               ELSE delivered
  /\ Return(c)
  /\ UNCHANGED <<now, store, accounts, history>>

\* DeleteAccount commits the deletion, then revokes.
DeleteAccount(c, u) ==
  /\ call[c].pc = "idle"
  /\ u \in accounts
  /\ accounts' = accounts \ {u}
  /\ Goto(c, [NoCall EXCEPT !.pc = "revoking", !.user = u])
  /\ UNCHANGED <<now, store, history, delivered>>

RevokeDeleted(c) ==
  /\ call[c].pc = "revoking"
  /\ RevokeAllScript(call[c].user)
  /\ Return(c)
  /\ UNCHANGED <<now, accounts, delivered>>

\* Logout, and DisableMFA after its update, revoke for the bearer of an access
\* token, which stays valid after the account is gone.
RevokeAllUserTokens(u) ==
  /\ RevokeAllScript(u)
  /\ UNCHANGED <<now, accounts, call, delivered>>

\* A command or query failed: every operation gives up where it stands.
Fail(c) ==
  /\ call[c].pc # "idle"
  /\ Return(c)
  /\ UNCHANGED <<now, store, accounts, history, delivered>>

Next ==
  \/ Tick
  \/ \E u \in Users : RevokeAllUserTokens(u)
  \/ \E c \in Calls :
       \/ \E u \in Users : BeginIssue(c, u) \/ DeleteAccount(c, u)
       \/ \E t \in Tokens :
            IssueTokens(c, t) \/ LookUp(c, t) \/ Rotate(c, t) \/ RotateReplyLost(c, t)
       \/ RotateMissing(c)
       \/ RevokeReused(c)
       \/ FinishRefresh(c)
       \/ RevokeDeleted(c)
       \/ Fail(c)

Spec == Init /\ [][Next]_vars

-----------------------------------------------------------------------------
(* Properties *)

TypeOK ==
  /\ now \in Nat
  /\ refresh \in [Tokens -> [user : Users \cup {None}, exp : Nat]]
  /\ userRefresh \in [Users -> [members : SUBSET Tokens, exp : Nat]]
  /\ accounts \subseteq Users
  /\ call \in [Calls -> [pc : Phases, token : Tokens \cup {None},
                         user : Users \cup {None}, new : Tokens \cup {None},
                         saidReused : BOOLEAN]]
  /\ family \in [Tokens -> Users \cup {None}]
  /\ delivered \subseteq Tokens
  /\ successors \in [Tokens -> SUBSET Tokens]
  /\ revoked \subseteq Tokens

\* Every token that can be redeemed is in its owner's set, and the set key does
\* not expire before it: what makes revokeAllScript reach every token.
LiveTokensIndexed ==
  \A t \in Tokens : Live(t) =>
    LET u == refresh[t].user IN
    /\ u = family[t]
    /\ t \in userRefresh[u].members
    /\ refresh[t].exp <= userRefresh[u].exp

\* No token issued before its user's tokens were revoked (logout, DisableMFA,
\* account deletion, detected reuse) can be redeemed afterwards.
RevokedStayDead == \A t \in revoked : ~Live(t)

\* A refresh token is exchanged at most once, however many Refresh calls hold
\* it and however often the rotation is sent again.
RotatedOnce == \A t \in Tokens : \A a, b \in successors[t] : a = b

\* A token is lost only by its deadline, by its own rotation or by a
\* revocation of its own user: nobody else's logout, pruning or rotation.
LossExplained ==
  [][\A t \in Tokens : (Live(t) /\ ~Live(t)') =>
       (now' # now \/ successors'[t] # successors[t] \/ t \in revoked')]_vars

\* Violated (service.go, the comment on Refresh: when reuse is detected, all
\* refresh tokens of the user are revoked).  Reuse: a token that a rotation already consumed is
\* presented and answered ErrRefreshTokenReused.
ReuseRevokesFamily ==
  [][\A c \in Calls :
       LET t == call[c].token IN
       (/\ call[c].pc \in {"looked_up", "reused"}
        /\ call'[c].pc = "idle" /\ call'[c].saidReused
        /\ successors[t] # {}) =>
          \A m \in Tokens : (family[m] = family[t]) => ~Live(m)']_vars

\* Violated (service.go, the comment in Refresh: a rotation that finds no token
\* means "the token was already consumed by a legitimate rotation"): only then
\* is the family revoked.
FamilyRevokedOnlyOnReuse ==
  \A c \in Calls : call[c].pc = "reused" => successors[call[c].token] # {}

\* The store implements families of single-use tokens (TokenFamilies): a token
\* that was exchanged is gone in the same step and has one heir, and whatever
\* becomes of the keys, each step issues one token, exchanges one, empties one
\* user's family or lets tokens expire.
ValidTokens == [u \in Users |-> {t \in Tokens : Live(t) /\ refresh[t].user = u}]
SpentTokens == {t \in Tokens : family[t] # None /\ ~Live(t)}
Families == INSTANCE TokenFamilies
  WITH valid <- ValidTokens, spent <- SpentTokens, heir <- successors
FamiliesSpec == Families!Spec
=============================================================================
