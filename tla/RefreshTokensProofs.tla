-------------------------- MODULE RefreshTokensProofs --------------------------
(***************************************************************************)
(* Proofs about RefreshTokens for any users, tokens, calls, TTL and clock  *)
(* bound: the type invariant, that a revocation reaches every token, that  *)
(* a token is rotated once, and that the store implements TokenFamilies.   *)
(***************************************************************************)
EXTENDS RefreshTokens, TLAPS

(* The inductive invariant.  LiveTokensIndexed alone is not inductive: a   *)
(* token key must name the user the UUID was issued for, a fresh UUID must *)
(* not be mentioned anywhere, a rotated token must have no key, and no     *)
(* deadline may lie further off than one TTL, or writing the set would     *)
(* bring its deadline forward.                                             *)
KeysOwned ==
  \A t \in Tokens : refresh[t].user # None => refresh[t].user = family[t]

MembersOwned ==
  \A u \in Users : \A t \in userRefresh[u].members : family[t] = u

FreshUnused ==
  \A t \in Tokens : family[t] = None =>
    refresh[t].user = None /\ successors[t] = {} /\ t \notin revoked

RotatedGone ==
  \A t \in Tokens : successors[t] # {} => refresh[t].user = None

CallsTyped ==
  \A c \in Calls :
    /\ call[c].pc \in {"issuing", "reused", "revoking", "rotated"} => call[c].user \in Users
    /\ call[c].pc \in {"looked_up", "reused"} => call[c].token \in Tokens
    /\ call[c].pc = "rotated" => call[c].new \in Tokens

DeadlinesBounded ==
  \A t \in Tokens : refresh[t].exp <= now + TTL

\* TypeOK in two halves: what the scripts write, and the rest.
StoreTyped ==
  /\ now \in Nat
  /\ refresh \in [Tokens -> [user : Users \cup {None}, exp : Nat]]
  /\ userRefresh \in [Users -> [members : SUBSET Tokens, exp : Nat]]
  /\ family \in [Tokens -> Users \cup {None}]
  /\ successors \in [Tokens -> SUBSET Tokens]
  /\ revoked \subseteq Tokens

CallTyped ==
  /\ accounts \subseteq Users
  /\ call \in [Calls -> [pc : Phases, token : Tokens \cup {None},
                         user : Users \cup {None}, new : Tokens \cup {None},
                         saidReused : BOOLEAN]]
  /\ delivered \subseteq Tokens

StoreInv ==
  /\ KeysOwned
  /\ DeadlinesBounded
  /\ MembersOwned
  /\ FreshUnused
  /\ RotatedGone
  /\ LiveTokensIndexed
  /\ RevokedStayDead
  /\ RotatedOnce

IInv == TypeOK /\ CallsTyped /\ StoreInv

-----------------------------------------------------------------------------
\* createScript keeps the store's invariant.
LEMMA CreateKeeps ==
  ASSUME TypeOK, StoreInv, NEW u \in Users, NEW new \in Fresh,
         CreateScript(u, new), now' = now
  PROVE  StoreInv'
<1> USE RefreshAssumption DEF CreateScript, StoredToken, StoredSet, Members, Fresh, Live
<1>1. /\ new \in Tokens
      /\ \A t \in Tokens : t # new => refresh'[t] = refresh[t] /\ family'[t] = family[t]
      /\ refresh'[new] = [user |-> u, exp |-> now + TTL]
      /\ family'[new] = u
      /\ \A v \in Users : v # u => userRefresh'[v] = userRefresh[v]
      /\ userRefresh'[u].exp = now + TTL
      /\ userRefresh'[u].members = {m \in Members(u) \ {} : Live(m)} \cup {new}
      /\ family[new] = None /\ refresh[new].user = None
      /\ successors[new] = {} /\ new \notin revoked
  BY DEF TypeOK, StoreInv, FreshUnused
<1>2. KeysOwned'
  BY <1>1 DEF KeysOwned, StoreInv, TypeOK
<1>3. MembersOwned'
  BY <1>1 DEF MembersOwned, StoreInv, TypeOK
<1>4. FreshUnused'
  BY <1>1 DEF FreshUnused, StoreInv, TypeOK
<1>5. RotatedGone'
  BY <1>1 DEF RotatedGone, StoreInv, TypeOK
<1>6. LiveTokensIndexed'
  <2> SUFFICES ASSUME NEW t \in Tokens, Live(t)'
               PROVE  /\ refresh'[t].user = family'[t]
                      /\ t \in userRefresh'[refresh'[t].user].members
                      /\ refresh'[t].exp <= userRefresh'[refresh'[t].user].exp
    BY DEF LiveTokensIndexed
  <2>1. CASE t = new
    BY <1>1, <2>1 DEF TypeOK
  <2>2. CASE t # new
    <3>1. Live(t) /\ refresh'[t] = refresh[t] /\ family'[t] = family[t]
      BY <1>1, <2>2
    <3>2. /\ refresh[t].user = family[t] /\ refresh[t].user \in Users
          /\ t \in userRefresh[refresh[t].user].members
          /\ refresh[t].exp <= userRefresh[refresh[t].user].exp
          /\ refresh[t].exp \in Nat /\ now \in Nat
          /\ userRefresh[refresh[t].user].exp \in Nat
      BY <3>1 DEF StoreInv, LiveTokensIndexed, TypeOK
    <3>3. CASE refresh[t].user = u
      <4>1. t \in userRefresh'[u].members
        BY <1>1, <3>1, <3>2, <3>3
      <4>2. refresh[t].exp <= now + TTL
        BY <3>1, <3>2, <3>3 DEF StoreInv, DeadlinesBounded, TypeOK
      <4>3. QED
        BY <1>1, <3>1, <3>2, <3>3, <4>1, <4>2
    <3>4. CASE refresh[t].user # u
      BY <1>1, <3>1, <3>2, <3>4
    <3>5. QED
      BY <3>3, <3>4
  <2>3. QED
    BY <2>1, <2>2
<1>7. RevokedStayDead'
  BY <1>1 DEF RevokedStayDead, StoreInv, TypeOK
<1>8. RotatedOnce'
  BY DEF RotatedOnce, StoreInv
<1>9. DeadlinesBounded'
  BY <1>1 DEF DeadlinesBounded, StoreInv, TypeOK
<1>10. QED
  BY <1>9, <1>2, <1>3, <1>4, <1>5, <1>6, <1>7, <1>8 DEF StoreInv

\* rotateScript keeps the store's invariant.
LEMMA RotateKeeps ==
  ASSUME TypeOK, StoreInv, NEW old \in Tokens, NEW new \in Fresh,
         Live(old), RotateScript(old, new), now' = now
  PROVE  StoreInv'
<1> DEFINE u == refresh[old].user
<1> USE RefreshAssumption DEF StoredToken, StoredSet, Members, Fresh, Live
<1>1. /\ u \in Users /\ new \in Tokens /\ old # new /\ family[old] = u
      /\ family[new] = None /\ refresh[new].user = None
      /\ successors[new] = {} /\ new \notin revoked
      /\ successors[old] = {} /\ old \notin revoked
  BY DEF TypeOK, StoreInv, FreshUnused, KeysOwned, RotatedGone, RevokedStayDead
<1>2. /\ \A t \in Tokens : t \notin {old, new} => refresh'[t] = refresh[t]
      /\ \A t \in Tokens : t # new => family'[t] = family[t]
      /\ \A t \in Tokens : t # old => successors'[t] = successors[t]
      /\ refresh'[old] = [user |-> None, exp |-> 0]
      /\ refresh'[new] = [user |-> u, exp |-> now + TTL]
      /\ family'[new] = u
      /\ successors'[old] = {new}
      /\ \A v \in Users : v # u => userRefresh'[v] = userRefresh[v]
      /\ userRefresh'[u].exp = now + TTL
      /\ userRefresh'[u].members = {m \in Members(u) \ {old} : Live(m)} \cup {new}
      /\ revoked' = revoked
  BY <1>1 DEF RotateScript, TypeOK, Absent
<1> HIDE DEF u
<1>3. KeysOwned'
  BY <1>1, <1>2 DEF KeysOwned, StoreInv, TypeOK
<1>4. MembersOwned'
  BY <1>1, <1>2 DEF MembersOwned, StoreInv, TypeOK
<1>5. FreshUnused'
  BY <1>1, <1>2 DEF FreshUnused, StoreInv, TypeOK
<1>6. RotatedGone'
  BY <1>1, <1>2 DEF RotatedGone, StoreInv, TypeOK
<1>7. DeadlinesBounded'
  BY <1>1, <1>2 DEF DeadlinesBounded, StoreInv, TypeOK
<1>8. LiveTokensIndexed'
  <2> SUFFICES ASSUME NEW t \in Tokens, Live(t)'
               PROVE  /\ refresh'[t].user = family'[t]
                      /\ t \in userRefresh'[refresh'[t].user].members
                      /\ refresh'[t].exp <= userRefresh'[refresh'[t].user].exp
    BY DEF LiveTokensIndexed
  <2>1. CASE t = new
    BY <1>1, <1>2, <2>1 DEF TypeOK
  <2>2. CASE t # new
    <3>1. /\ t # old /\ Live(t)
          /\ refresh'[t] = refresh[t] /\ family'[t] = family[t]
      BY <1>1, <1>2, <2>2
    <3>2. /\ refresh[t].user = family[t] /\ refresh[t].user \in Users
          /\ t \in userRefresh[refresh[t].user].members
          /\ refresh[t].exp <= userRefresh[refresh[t].user].exp
          /\ refresh[t].exp <= now + TTL
          /\ refresh[t].exp \in Nat /\ now \in Nat
          /\ userRefresh[refresh[t].user].exp \in Nat
      BY <3>1 DEF StoreInv, LiveTokensIndexed, DeadlinesBounded, TypeOK
    <3>3. CASE refresh[t].user = u
      <4>1. t \in userRefresh'[u].members
        BY <1>2, <3>1, <3>2, <3>3
      <4>2. QED
        BY <1>2, <3>1, <3>2, <3>3, <4>1
    <3>4. CASE refresh[t].user # u
      BY <1>2, <3>1, <3>2, <3>4
    <3>5. QED
      BY <3>3, <3>4
  <2>3. QED
    BY <2>1, <2>2
<1>9. RevokedStayDead'
  BY <1>1, <1>2 DEF RevokedStayDead, StoreInv, TypeOK
<1>10. RotatedOnce'
  BY <1>1, <1>2 DEF RotatedOnce, StoreInv
<1>11. QED
  BY <1>3, <1>4, <1>5, <1>6, <1>7, <1>8, <1>9, <1>10 DEF StoreInv

\* revokeAllScript leaves no redeemable token of the user: the set it walks
\* holds every one of them.
LEMMA RevokeReachesAll ==
  ASSUME TypeOK, StoreInv, NEW u \in Users, RevokeAllScript(u), now' = now,
         NEW t \in Tokens, family[t] = u
  PROVE  ~Live(t)'
<1>1. CASE Live(t)
  <2>1. /\ refresh[t].user = u /\ t \in userRefresh[u].members
        /\ refresh[t].exp <= userRefresh[u].exp /\ now < refresh[t].exp
        /\ refresh[t].exp \in Nat /\ now \in Nat /\ userRefresh[u].exp \in Nat
    BY <1>1 DEF StoreInv, LiveTokensIndexed, TypeOK, Live
  <2>2. t \in Members(u)
    BY <2>1 DEF Members
  <2>3. QED
    BY <2>2 DEF RevokeAllScript, Absent, Live
<1>2. CASE ~Live(t)
  BY <1>2 DEF RevokeAllScript, Absent, Live
<1>3. QED
  BY <1>1, <1>2

\* revokeAllScript keeps the store's invariant.
LEMMA RevokeKeeps ==
  ASSUME TypeOK, StoreInv, NEW u \in Users, RevokeAllScript(u), now' = now
  PROVE  StoreInv'
<1>1. /\ \A t \in Tokens : refresh'[t] = refresh[t] \/ refresh'[t] = [user |-> None, exp |-> 0]
      /\ \A t \in Tokens : t \notin Members(u) => refresh'[t] = refresh[t]
      /\ \A v \in Users : v # u => userRefresh'[v] = userRefresh[v]
      /\ userRefresh'[u] = [members |-> {}, exp |-> 0]
      /\ family' = family /\ successors' = successors
      /\ revoked' = revoked \cup {t \in Tokens : family[t] = u}
  BY DEF RevokeAllScript, Absent, NoSet, TypeOK
<1>2. KeysOwned'
  BY <1>1 DEF KeysOwned, StoreInv, TypeOK
<1>3. MembersOwned'
  BY <1>1 DEF MembersOwned, StoreInv, TypeOK
<1>4. FreshUnused'
  BY <1>1, RefreshAssumption DEF FreshUnused, StoreInv, TypeOK
<1>5. RotatedGone'
  BY <1>1 DEF RotatedGone, StoreInv, TypeOK
<1>6. DeadlinesBounded'
  BY <1>1, RefreshAssumption DEF DeadlinesBounded, StoreInv, TypeOK
<1>7. LiveTokensIndexed'
  <2> SUFFICES ASSUME NEW t \in Tokens, Live(t)'
               PROVE  /\ refresh'[t].user = family'[t]
                      /\ t \in userRefresh'[refresh'[t].user].members
                      /\ refresh'[t].exp <= userRefresh'[refresh'[t].user].exp
    BY DEF LiveTokensIndexed
  <2>1. refresh'[t] = refresh[t] /\ Live(t)
    BY <1>1 DEF Live
  <2>2. family[t] # u
    BY RevokeReachesAll
  <2>3. QED
    BY <1>1, <2>1, <2>2 DEF StoreInv, LiveTokensIndexed, TypeOK, Live
<1>8. RevokedStayDead'
  <2> SUFFICES ASSUME NEW t \in revoked'
               PROVE  ~Live(t)'
    BY DEF RevokedStayDead
  <2>1. CASE family[t] = u
    BY <1>1, <2>1, RevokeReachesAll DEF TypeOK
  <2>2. CASE t \in revoked
    BY <1>1, <2>2 DEF StoreInv, RevokedStayDead, Live, TypeOK
  <2>3. QED
    BY <1>1, <2>1, <2>2
<1>9. RotatedOnce'
  BY <1>1 DEF RotatedOnce, StoreInv
<1>10. QED
  BY <1>2, <1>3, <1>4, <1>5, <1>6, <1>7, <1>8, <1>9 DEF StoreInv

\* Time only kills tokens.
LEMMA TickKeeps ==
  ASSUME TypeOK, StoreInv, Tick
  PROVE  StoreInv'
<1>1. /\ now \in Nat /\ now' = now + 1
      /\ refresh' = refresh /\ userRefresh' = userRefresh /\ family' = family
      /\ successors' = successors /\ revoked' = revoked
      /\ \A t \in Tokens : Live(t)' => Live(t)
  BY DEF Tick, TypeOK, Live
<1>2. KeysOwned' /\ MembersOwned' /\ FreshUnused' /\ RotatedGone' /\ RotatedOnce'
  BY <1>1 DEF StoreInv, KeysOwned, MembersOwned, FreshUnused, RotatedGone, RotatedOnce
<1>3. DeadlinesBounded'
  BY <1>1, RefreshAssumption DEF StoreInv, DeadlinesBounded, TypeOK
<1>4. LiveTokensIndexed'
  BY <1>1 DEF StoreInv, LiveTokensIndexed
<1>5. RevokedStayDead'
  BY <1>1 DEF StoreInv, RevokedStayDead, TypeOK
<1>6. QED
  BY <1>2, <1>3, <1>4, <1>5 DEF StoreInv

\* A step that touches neither the store nor its history.
LEMMA QuietKeeps ==
  ASSUME StoreInv, UNCHANGED <<now, store, history>>
  PROVE  StoreInv'
  BY DEF StoreInv, store, history, KeysOwned, MembersOwned, FreshUnused, RotatedGone,
         DeadlinesBounded, LiveTokensIndexed, RevokedStayDead, RotatedOnce, Live

-----------------------------------------------------------------------------
\* The scripts keep the types of what they write.
LEMMA ScriptTypes ==
  ASSUME TypeOK, now' = now
  PROVE  /\ \A u \in Users, new \in Tokens : CreateScript(u, new) =>
              StoreTyped'
         /\ \A old, new \in Tokens :
              Live(old) /\ RotateScript(old, new) => StoreTyped'
         /\ \A u \in Users : RevokeAllScript(u) => StoreTyped'
<1> USE RefreshAssumption DEF StoreTyped, TypeOK, StoredToken, StoredSet, Members, Absent, NoSet
<1>1. ASSUME NEW u \in Users, NEW new \in Tokens, CreateScript(u, new)
      PROVE  StoreTyped'
  BY <1>1 DEF CreateScript
<1>2. ASSUME NEW old \in Tokens, NEW new \in Tokens, Live(old), RotateScript(old, new)
      PROVE  StoreTyped'
  <2>1. refresh[old].user \in Users
    BY <1>2 DEF Live
  <2>2. /\ [user |-> refresh[old].user, exp |-> now + TTL] \in [user : Users \cup {None}, exp : Nat]
        /\ [user |-> None, exp |-> 0] \in [user : Users \cup {None}, exp : Nat]
    BY <2>1
  <2>3. refresh' \in [Tokens -> [user : Users \cup {None}, exp : Nat]]
    BY <1>2, <2>2 DEF RotateScript
  <2>4. userRefresh' \in [Users -> [members : SUBSET Tokens, exp : Nat]]
    BY <1>2, <2>1 DEF RotateScript
  <2>5. family' \in [Tokens -> Users \cup {None}] /\ successors' \in [Tokens -> SUBSET Tokens]
    BY <1>2, <2>1 DEF RotateScript
  <2>6. QED
    BY <1>2, <2>3, <2>4, <2>5 DEF RotateScript
<1>3. ASSUME NEW u \in Users, RevokeAllScript(u)
      PROVE  StoreTyped'
  BY <1>3 DEF RevokeAllScript
<1>4. QED
  BY <1>1, <1>2, <1>3

\* Every step keeps the inductive invariant.
LEMMA StepKeeps ==
  ASSUME IInv, [Next]_vars
  PROVE  IInv'
<1> USE DEF IInv
<1>t. TypeOK = (StoreTyped /\ CallTyped)
  BY DEF TypeOK, StoreTyped, CallTyped
<1>t2. TypeOK' = (StoreTyped' /\ CallTyped')
  BY DEF TypeOK, StoreTyped, CallTyped
<1>1. CASE Tick
  <2>1. TypeOK' /\ CallsTyped'
    BY <1>1 DEF Tick, TypeOK, CallsTyped
  <2>2. QED
    BY <1>1, <2>1, TickKeeps
<1>2. ASSUME NEW u \in Users, RevokeAllUserTokens(u)
      PROVE  IInv'
  <2>1. StoreTyped' /\ StoreInv'
    BY <1>2, ScriptTypes, RevokeKeeps DEF RevokeAllUserTokens
  <2>2. CallTyped' /\ CallsTyped'
    BY <1>2, <1>t DEF RevokeAllUserTokens, CallTyped, CallsTyped
  <2>3. QED
    BY <2>1, <2>2, <1>t2
<1>3. ASSUME NEW c \in Calls, NEW u \in Users, BeginIssue(c, u)
      PROVE  IInv'
  <2>1. StoreTyped' /\ StoreInv'
    BY <1>3, <1>t, QuietKeeps DEF BeginIssue, store, history, StoreTyped
  <2>2. CallTyped' /\ CallsTyped'
    BY <1>3, <1>t DEF BeginIssue, Goto, NoCall, CallTyped, CallsTyped, Phases
  <2>3. QED
    BY <2>1, <2>2, <1>t2
<1>4. ASSUME NEW c \in Calls, NEW u \in Users, DeleteAccount(c, u)
      PROVE  IInv'
  <2>1. StoreTyped' /\ StoreInv'
    BY <1>4, <1>t, QuietKeeps DEF DeleteAccount, store, history, StoreTyped
  <2>2. CallTyped' /\ CallsTyped'
    BY <1>4, <1>t DEF DeleteAccount, Goto, NoCall, CallTyped, CallsTyped, Phases
  <2>3. QED
    BY <2>1, <2>2, <1>t2
<1>5. ASSUME NEW c \in Calls, NEW t \in Tokens, IssueTokens(c, t)
      PROVE  IInv'
  <2>1. call[c].user \in Users
    BY <1>5 DEF IssueTokens, CallsTyped
  <2>2. StoreTyped' /\ StoreInv'
    BY <1>5, <2>1, ScriptTypes, CreateKeeps DEF IssueTokens
  <2>3. CallTyped' /\ CallsTyped'
    BY <1>5, <1>t DEF IssueTokens, Return, Goto, NoCall, CallTyped, CallsTyped, Phases
  <2>4. QED
    BY <2>2, <2>3, <1>t2
<1>6. ASSUME NEW c \in Calls, NEW t \in Tokens, LookUp(c, t)
      PROVE  IInv'
  <2>1. StoreTyped' /\ StoreInv'
    BY <1>6, <1>t, QuietKeeps DEF LookUp, store, history, StoreTyped
  <2>2. (IF Live(t) THEN refresh[t].user ELSE None) \in Users \cup {None}
    BY DEF TypeOK
  <2>3. PICK u \in Users \cup {None} :
          call' = [call EXCEPT ![c] = [NoCall EXCEPT !.pc = "looked_up", !.token = t, !.user = u]]
    BY <1>6, <2>2 DEF LookUp, Goto
  <2>4. CallTyped' /\ CallsTyped'
    BY <1>6, <2>3, <1>t DEF LookUp, NoCall, CallTyped, CallsTyped, Phases
  <2>5. QED
    BY <2>1, <2>4, <1>t2
<1>7. ASSUME NEW c \in Calls, NEW t \in Tokens, Rotate(c, t)
      PROVE  IInv'
  <2>1. call[c].token \in Tokens /\ refresh[call[c].token].user \in Users
    BY <1>7 DEF Rotate, CallsTyped, Live, TypeOK
  <2>2. StoreTyped' /\ StoreInv'
    BY <1>7, <2>1, ScriptTypes, RotateKeeps DEF Rotate
  <2>3. CallTyped' /\ CallsTyped'
    BY <1>7, <2>1, <1>t DEF Rotate, Goto, CallTyped, CallsTyped, Phases
  <2>4. QED
    BY <2>2, <2>3, <1>t2
<1>8. ASSUME NEW c \in Calls, NEW t \in Tokens, RotateReplyLost(c, t)
      PROVE  IInv'
  <2>1. call[c].token \in Tokens
    BY <1>8 DEF RotateReplyLost, CallsTyped
  <2>2. StoreTyped' /\ StoreInv'
    BY <1>8, <2>1, ScriptTypes, RotateKeeps DEF RotateReplyLost
  <2>3. CallTyped' /\ CallsTyped'
    BY <1>8, <1>t DEF RotateReplyLost, CallTyped, CallsTyped
  <2>4. QED
    BY <2>2, <2>3, <1>t2
<1>9. ASSUME NEW c \in Calls, RotateMissing(c)
      PROVE  IInv'
  <2>1. StoreTyped' /\ StoreInv'
    BY <1>9, <1>t, QuietKeeps DEF RotateMissing, store, history, StoreTyped
  <2>2. CASE call[c].user # None
    <3>1. call' = [call EXCEPT ![c] = [call[c] EXCEPT !.pc = "reused"]]
      BY <1>9, <2>2 DEF RotateMissing, Goto
    <3>2. call[c].user \in Users /\ call[c].token \in Tokens
      BY <1>9, <2>2 DEF RotateMissing, TypeOK, CallsTyped
    <3>3. CallTyped' /\ CallsTyped'
      BY <1>9, <3>1, <3>2, <1>t DEF RotateMissing, CallTyped, CallsTyped, Phases
    <3>4. QED
      BY <2>1, <3>3, <1>t2
  <2>3. CASE call[c].user = None
    <3>1. call' = [call EXCEPT ![c] = [NoCall EXCEPT !.saidReused = TRUE]]
      BY <1>9, <2>3 DEF RotateMissing, ReturnReused, Goto
    <3>2. CallTyped' /\ CallsTyped'
      BY <1>9, <3>1, <1>t DEF RotateMissing, NoCall, CallTyped, CallsTyped, Phases
    <3>3. QED
      BY <2>1, <3>2, <1>t2
  <2>4. QED
    BY <2>2, <2>3
<1>10. ASSUME NEW c \in Calls, RevokeReused(c)
       PROVE  IInv'
  <2>1. call[c].user \in Users
    BY <1>10 DEF RevokeReused, CallsTyped
  <2>2. StoreTyped' /\ StoreInv'
    BY <1>10, <2>1, ScriptTypes, RevokeKeeps DEF RevokeReused
  <2>3. CallTyped' /\ CallsTyped'
    BY <1>10, <1>t DEF RevokeReused, ReturnReused, Goto, NoCall, CallTyped, CallsTyped, Phases
  <2>4. QED
    BY <2>2, <2>3, <1>t2
<1>11. ASSUME NEW c \in Calls, FinishRefresh(c)
       PROVE  IInv'
  <2>1. StoreTyped' /\ StoreInv'
    BY <1>11, <1>t, QuietKeeps DEF FinishRefresh, store, history, StoreTyped
  <2>2. call[c].new \in Tokens
    BY <1>11 DEF FinishRefresh, CallsTyped
  <2>3. CallTyped' /\ CallsTyped'
    BY <1>11, <2>2, <1>t DEF FinishRefresh, Return, Goto, NoCall, CallTyped, CallsTyped, Phases
  <2>4. QED
    BY <2>1, <2>3, <1>t2
<1>12. ASSUME NEW c \in Calls, RevokeDeleted(c)
       PROVE  IInv'
  <2>1. call[c].user \in Users
    BY <1>12 DEF RevokeDeleted, CallsTyped
  <2>2. StoreTyped' /\ StoreInv'
    BY <1>12, <2>1, ScriptTypes, RevokeKeeps DEF RevokeDeleted
  <2>3. CallTyped' /\ CallsTyped'
    BY <1>12, <1>t DEF RevokeDeleted, Return, Goto, NoCall, CallTyped, CallsTyped, Phases
  <2>4. QED
    BY <2>2, <2>3, <1>t2
<1>13. ASSUME NEW c \in Calls, Fail(c)
       PROVE  IInv'
  <2>1. StoreTyped' /\ StoreInv'
    BY <1>13, <1>t, QuietKeeps DEF Fail, store, history, StoreTyped
  <2>2. CallTyped' /\ CallsTyped'
    BY <1>13, <1>t DEF Fail, Return, Goto, NoCall, CallTyped, CallsTyped, Phases
  <2>3. QED
    BY <2>1, <2>2, <1>t2
<1>14. CASE UNCHANGED vars
  <2>1. TypeOK' /\ CallsTyped'
    BY <1>14 DEF vars, TypeOK, CallsTyped
  <2>2. StoreInv'
    BY <1>14, QuietKeeps DEF vars, store, history
  <2>3. QED
    BY <2>1, <2>2
<1>15. QED
  BY <1>1, <1>2, <1>3, <1>4, <1>5, <1>6, <1>7, <1>8, <1>9, <1>10, <1>11, <1>12, <1>13, <1>14
     DEF Next

\* The inductive invariant holds in every reachable state.
THEOREM InductiveInvariant == Spec => []IInv
<1>1. Init => IInv
  BY RefreshAssumption
     DEF Init, IInv, TypeOK, CallsTyped, StoreInv, Absent, NoSet, NoCall, Phases, KeysOwned,
         MembersOwned, FreshUnused, RotatedGone, DeadlinesBounded, LiveTokensIndexed,
         RevokedStayDead, RotatedOnce, Live
<1>2. IInv /\ [Next]_vars => IInv'
  BY StepKeeps
<1>3. QED
  BY <1>1, <1>2, PTL DEF Spec

\* Type correctness of the token store and of the calls in flight.
THEOREM TypeCorrect == Spec => []TypeOK
<1>1. IInv => TypeOK
  BY DEF IInv
<1>2. QED
  BY <1>1, InductiveInvariant, PTL

\* Every redeemable token is in the set a revocation walks, and that set
\* outlives it (createScript, rotateScript).
THEOREM LiveTokensAreIndexed == Spec => []LiveTokensIndexed
<1>1. IInv => LiveTokensIndexed
  BY DEF IInv, StoreInv
<1>2. QED
  BY <1>1, InductiveInvariant, PTL

\* A token issued before a revocation of its user is never redeemable after it
\* (revokeAllScript), under every interleaving of the service's calls.
THEOREM RevocationIsFinal == Spec => []RevokedStayDead
<1>1. IInv => RevokedStayDead
  BY DEF IInv, StoreInv
<1>2. QED
  BY <1>1, InductiveInvariant, PTL

\* A token is exchanged at most once (rotateScript).
THEOREM RotationIsSingleUse == Spec => []RotatedOnce
<1>1. IInv => RotatedOnce
  BY DEF IInv, StoreInv
<1>2. QED
  BY <1>1, InductiveInvariant, PTL

\* What a step may do to a redeemable token: only the clock, its own rotation
\* or a revocation of its own user ends it.
LEMMA StepLossExplained ==
  ASSUME IInv, [Next]_vars, NEW t \in Tokens, Live(t), ~Live(t)'
  PROVE  now' # now \/ successors'[t] # successors[t] \/ t \in revoked'
<1> USE DEF IInv
<1> SUFFICES ASSUME now' = now, refresh'[t] # refresh[t]
             PROVE  successors'[t] # successors[t] \/ t \in revoked'
  BY DEF Live
<1>1. ASSUME NEW u \in Users, RevokeAllScript(u)
      PROVE  t \in revoked'
  BY <1>1 DEF RevokeAllScript, Members, TypeOK, StoreInv, MembersOwned
<1>2. ASSUME NEW u \in Users, NEW new \in Fresh, CreateScript(u, new)
      PROVE  FALSE
  BY <1>2 DEF CreateScript, Fresh, TypeOK, StoreInv, FreshUnused, Live
<1>3. ASSUME NEW old \in Tokens, NEW new \in Fresh, RotateScript(old, new)
      PROVE  successors'[t] # successors[t]
  <2>1. t # new
    BY DEF Fresh, StoreInv, FreshUnused, Live
  <2>2. t = old
    BY <1>3, <2>1 DEF RotateScript, TypeOK
  <2>3. successors[t] = {}
    BY DEF StoreInv, RotatedGone, Live
  <2>4. QED
    BY <1>3, <2>2, <2>3 DEF RotateScript, TypeOK
<1>4. CASE \E u \in Users : RevokeAllUserTokens(u)
  BY <1>1, <1>4 DEF RevokeAllUserTokens
<1>5. ASSUME NEW c \in Calls, RevokeReused(c) \/ RevokeDeleted(c)
      PROVE  t \in revoked'
  BY <1>1, <1>5 DEF RevokeReused, RevokeDeleted, CallsTyped
<1>6. ASSUME NEW c \in Calls, NEW new \in Tokens, IssueTokens(c, new)
      PROVE  FALSE
  BY <1>2, <1>6 DEF IssueTokens, CallsTyped
<1>7. ASSUME NEW c \in Calls, NEW new \in Tokens, Rotate(c, new) \/ RotateReplyLost(c, new)
      PROVE  successors'[t] # successors[t]
  BY <1>3, <1>7 DEF Rotate, RotateReplyLost, CallsTyped
<1>8. CASE Tick
  BY <1>8 DEF Tick, TypeOK
<1>9. ASSUME NEW c \in Calls,
             \/ \E u \in Users : BeginIssue(c, u) \/ DeleteAccount(c, u)
             \/ \E s \in Tokens : LookUp(c, s)
             \/ RotateMissing(c) \/ FinishRefresh(c) \/ Fail(c)
      PROVE  FALSE
  <2>1. ASSUME NEW u \in Users, BeginIssue(c, u) \/ DeleteAccount(c, u)
        PROVE  UNCHANGED store
    BY <2>1 DEF BeginIssue, DeleteAccount, store
  <2>2. ASSUME NEW s \in Tokens, LookUp(c, s)
        PROVE  UNCHANGED store
    BY <2>2 DEF LookUp, store
  <2>3. CASE RotateMissing(c) \/ FinishRefresh(c) \/ Fail(c)
    BY <2>3 DEF RotateMissing, FinishRefresh, Fail, store
  <2>4. QED
    BY <1>9, <2>1, <2>2, <2>3 DEF store
<1>10. CASE UNCHANGED vars
  BY <1>10 DEF vars
<1>11. QED
  BY <1>4, <1>5, <1>6, <1>7, <1>8, <1>9, <1>10 DEF Next

\* A redeemable token is lost only by its deadline, by its own rotation or by
\* a revocation of its user (refresh.go: pruning, rotating and revoking touch
\* nobody else's tokens).
THEOREM LossesExplained == Spec => LossExplained
<1>1. IInv /\ [Next]_vars =>
        [\A t \in Tokens : (Live(t) /\ ~Live(t)') =>
           (now' # now \/ successors'[t] # successors[t] \/ t \in revoked')]_vars
  BY StepLossExplained
<1>2. QED
  BY <1>1, InductiveInvariant, PTL DEF Spec, LossExplained

-----------------------------------------------------------------------------
(* The refinement: every step of the store is a step of TokenFamilies.     *)

\* createScript implements the issue of a fresh token.
LEMMA CreateIssues ==
  ASSUME TypeOK, StoreInv, NEW u \in Users, NEW new \in Fresh,
         CreateScript(u, new), now' = now
  PROVE  Families!Issue(u, new)
<1> USE RefreshAssumption DEF Fresh, Live
<1>1. /\ new \in Tokens /\ family[new] = None /\ refresh[new].user = None
      /\ \A t \in Tokens : t # new => refresh'[t] = refresh[t] /\ family'[t] = family[t]
      /\ refresh'[new].user = u /\ refresh'[new].exp = now + TTL /\ family'[new] = u
  BY DEF CreateScript, StoredToken, TypeOK, StoreInv, FreshUnused
<1>2. new \in Families!Fresh
  BY <1>1 DEF Families!Fresh, ValidTokens, SpentTokens
<1>3. Live(new)' /\ \A t \in Tokens : t # new => Live(t)' = Live(t)
  BY <1>1 DEF TypeOK
<1>4. ValidTokens' = [ValidTokens EXCEPT ![u] = @ \cup {new}]
  <2>1. ASSUME NEW v \in Users, v # u PROVE ValidTokens'[v] = ValidTokens[v]
    BY <1>1, <1>3, <2>1 DEF ValidTokens
  <2>2. ValidTokens'[u] = ValidTokens[u] \cup {new}
    BY <1>1, <1>3 DEF ValidTokens
  <2>3. QED
    BY <2>1, <2>2 DEF ValidTokens
<1>5. SpentTokens' = SpentTokens
  BY <1>1, <1>3 DEF SpentTokens
<1>6. successors' = successors
  BY DEF CreateScript
<1>7. QED
  BY <1>2, <1>4, <1>5, <1>6 DEF Families!Issue

\* rotateScript implements the exchange of a valid token for a fresh one.
LEMMA RotateExchanges ==
  ASSUME TypeOK, StoreInv, NEW old \in Tokens, NEW new \in Fresh,
         Live(old), RotateScript(old, new), now' = now
  PROVE  Families!Exchange(refresh[old].user, old, new)
<1> DEFINE u == refresh[old].user
<1> USE RefreshAssumption DEF Fresh, Live
<1>1. /\ new \in Tokens /\ family[new] = None /\ refresh[new].user = None
      /\ old # new /\ u \in Users /\ family[old] = u /\ u # None
      /\ \A t \in Tokens : t \notin {old, new} => refresh'[t] = refresh[t]
      /\ \A t \in Tokens : t # new => family'[t] = family[t]
      /\ refresh'[old].user = None
      /\ refresh'[new].user = u /\ refresh'[new].exp = now + TTL /\ family'[new] = u
  BY DEF RotateScript, StoredToken, Absent, TypeOK, StoreInv, FreshUnused, KeysOwned
<1>2. old \in ValidTokens[u] /\ new \in Families!Fresh
  BY <1>1 DEF Families!Fresh, ValidTokens, SpentTokens
<1> HIDE DEF u
<1>3. /\ Live(new)' /\ ~Live(old)'
      /\ \A t \in Tokens : t \notin {old, new} => Live(t)' = Live(t)
  BY <1>1 DEF TypeOK
<1>4. ValidTokens' = [ValidTokens EXCEPT ![u] = (@ \ {old}) \cup {new}]
  <2>1. ASSUME NEW v \in Users, v # u PROVE ValidTokens'[v] = ValidTokens[v]
    <3>1. refresh[old].user # v
      BY <2>1 DEF u
    <3>2. QED
      BY <1>1, <1>3, <2>1, <3>1 DEF ValidTokens
  <2>2. ValidTokens'[u] = (ValidTokens[u] \ {old}) \cup {new}
    BY <1>1, <1>3 DEF ValidTokens
  <2>3. QED
    BY <1>1, <2>1, <2>2 DEF ValidTokens
<1>5. SpentTokens' = SpentTokens \cup {old}
  BY <1>1, <1>3 DEF SpentTokens
<1>6. successors' = [successors EXCEPT ![old] = {new}]
  <2>1. successors[old] = {}
    BY <1>2 DEF StoreInv, RotatedGone, ValidTokens, TypeOK
  <2>2. QED
    BY <2>1 DEF RotateScript, TypeOK
<1>7. QED
  BY <1>2, <1>4, <1>5, <1>6 DEF Families!Exchange, u

\* revokeAllScript implements the revocation of a family.
LEMMA RevokeEmptiesFamily ==
  ASSUME TypeOK, StoreInv, NEW u \in Users, RevokeAllScript(u), now' = now
  PROVE  Families!RevokeFamily(u)
<1>1. \A t \in Tokens : family[t] = u => ~Live(t)'
  BY RevokeReachesAll
<1>2. \A t \in Tokens : family[t] # u => t \notin Members(u)
  BY DEF StoreInv, MembersOwned, Members
<1>3. /\ \A t \in Tokens : family[t] # u => refresh'[t] = refresh[t]
      /\ \A t \in Tokens : refresh'[t] = refresh[t] \/ refresh'[t].user = None
      /\ family' = family
  BY <1>2 DEF RevokeAllScript, Absent, TypeOK
<1>4. \A t \in Tokens : Live(t) => refresh[t].user = family[t] /\ family[t] # None
  BY DEF StoreInv, KeysOwned, Live
<1>5. \A t \in Tokens : Live(t)' <=> (Live(t) /\ family[t] # u)
  BY <1>1, <1>3, <1>4 DEF Live
<1>6. ValidTokens' = [ValidTokens EXCEPT ![u] = {}]
  <2>1. ASSUME NEW v \in Users, v # u PROVE ValidTokens'[v] = ValidTokens[v]
    BY <1>3, <1>4, <1>5, <2>1 DEF ValidTokens
  <2>2. ValidTokens'[u] = {}
    BY <1>1, <1>3, <1>4, <1>5 DEF ValidTokens, Live
  <2>3. QED
    BY <2>1, <2>2 DEF ValidTokens
<1>7. SpentTokens' = SpentTokens \cup ValidTokens[u]
  BY <1>3, <1>4, <1>5 DEF SpentTokens, ValidTokens
<1>8. successors' = successors
  BY DEF RevokeAllScript
<1>9. QED
  BY <1>6, <1>7, <1>8 DEF Families!RevokeFamily

\* The clock passing deadlines implements the expiry of tokens.
LEMMA TickExpires ==
  ASSUME TypeOK, StoreInv, Tick
  PROVE  Families!Next
<1> DEFINE dead == {t \in Tokens : Live(t) /\ ~Live(t)'}
<1>1. /\ refresh' = refresh /\ family' = family
      /\ \A t \in Tokens : Live(t)' <=> (Live(t) /\ t \notin dead)
  BY DEF Tick, TypeOK, Live
<1>2. \A t \in Tokens : Live(t) => /\ refresh[t].user \in Users
                                   /\ t \in ValidTokens[refresh[t].user]
                                   /\ family[t] # None
  BY RefreshAssumption DEF TypeOK, Live, ValidTokens, StoreInv, KeysOwned
<1>3. dead \in SUBSET (UNION {ValidTokens[u] : u \in Users})
  BY <1>2
<1> HIDE DEF dead
<1>4. ValidTokens' = [u \in Users |-> ValidTokens[u] \ dead]
  BY <1>1 DEF ValidTokens
<1>5. SpentTokens' = SpentTokens \cup dead
  <2>1. dead = {t \in Tokens : Live(t) /\ ~Live(t)'}
    BY DEF dead
  <2>2. QED
    BY <1>1, <1>2, <2>1 DEF SpentTokens
<1>6. Families!Expire(dead)
  BY <1>4, <1>5 DEF Families!Expire, Tick
<1>7. QED
  BY <1>3, <1>6 DEF Families!Next

\* A step that leaves the keys, the clock and the issue history alone.
LEMMA QuietStutters ==
  ASSUME UNCHANGED <<now, refresh, family, successors>>
  PROVE  UNCHANGED Families!vars
  BY DEF Families!vars, ValidTokens, SpentTokens, Live

\* Every step of the store implements a step or a stutter of the families.
LEMMA StepRefines ==
  ASSUME IInv, [Next]_vars
  PROVE  [Families!Next]_(Families!vars)
<1> USE DEF IInv
<1>1. CASE Tick
  BY <1>1, TickExpires
<1>2. ASSUME NEW u \in Users, RevokeAllUserTokens(u)
      PROVE  Families!Next
  BY <1>2, RevokeEmptiesFamily DEF RevokeAllUserTokens, Families!Next
<1>3. ASSUME NEW c \in Calls, NEW t \in Tokens, IssueTokens(c, t)
      PROVE  Families!Next
  <2>1. call[c].user \in Users /\ Families!Issue(call[c].user, t)
    BY <1>3, CreateIssues DEF IssueTokens, CallsTyped
  <2>2. QED
    BY <2>1 DEF Families!Next
<1>4. ASSUME NEW c \in Calls, NEW t \in Tokens, Rotate(c, t) \/ RotateReplyLost(c, t)
      PROVE  Families!Next
  <2>1. /\ call[c].token \in Tokens /\ refresh[call[c].token].user \in Users
        /\ Families!Exchange(refresh[call[c].token].user, call[c].token, t)
    BY <1>4, RotateExchanges DEF Rotate, RotateReplyLost, CallsTyped, TypeOK, Live
  <2>2. QED
    BY <2>1 DEF Families!Next
<1>5. ASSUME NEW c \in Calls, RevokeReused(c) \/ RevokeDeleted(c)
      PROVE  Families!Next
  <2>1. call[c].user \in Users /\ Families!RevokeFamily(call[c].user)
    BY <1>5, RevokeEmptiesFamily DEF RevokeReused, RevokeDeleted, CallsTyped
  <2>2. QED
    BY <2>1 DEF Families!Next
<1>6. ASSUME NEW c \in Calls,
             \/ \E u \in Users : BeginIssue(c, u) \/ DeleteAccount(c, u)
             \/ \E t \in Tokens : LookUp(c, t)
             \/ RotateMissing(c) \/ FinishRefresh(c) \/ Fail(c)
      PROVE  UNCHANGED Families!vars
  <2>1. UNCHANGED <<now, refresh, family, successors>>
    BY <1>6 DEF BeginIssue, DeleteAccount, LookUp, RotateMissing, FinishRefresh, Fail,
                store, history
  <2>2. QED
    BY <2>1, QuietStutters
<1>7. CASE UNCHANGED vars
  BY <1>7, QuietStutters DEF vars
<1>8. QED
  BY <1>1, <1>2, <1>3, <1>4, <1>5, <1>6, <1>7 DEF Next

\* The two Valkey keys per token and user, their deadlines, their pruning and
\* the interleaved service calls implement families of single-use tokens that
\* a revocation empties (refresh.go, Service.Refresh).
THEOREM StoreImplementsFamilies == Spec => FamiliesSpec
<1>1. Init => Families!Init
  BY DEF Init, Families!Init, ValidTokens, SpentTokens, Live, Absent
<1>2. IInv /\ [Next]_vars => [Families!Next]_(Families!vars)
  BY StepRefines
<1>3. QED
  BY <1>1, <1>2, InductiveInvariant, PTL DEF Spec, FamiliesSpec, Families!Spec
=============================================================================
