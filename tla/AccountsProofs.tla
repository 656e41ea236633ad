--------------------------- MODULE AccountsProofs ----------------------------
(***************************************************************************)
(* Proofs about Accounts, for every set of users, credentials, secrets,    *)
(* codes and calls and every mix of requests.  The calls form an automaton *)
(* (CallStep); each property has an inductive invariant of its own that    *)
(* relates a phase of it to the tables.                                    *)
(***************************************************************************)
EXTENDS Accounts, FiniteSetTheorems, TLAPS

\* The phases of a call that works for one account.
OfAccount == Phases \ {"idle", "username", "create"}

\* What a call carries between its steps.
CallsCarry ==
  \A c \in Calls :
    LET r == call[c] IN
    /\ r.pc \in OfAccount => r.id \in Ids /\ users[r.id].at # "never"
    /\ r.pc \in {"username", "create"} =>
         r.kind = "register" /\ r.email \in Emails /\ r.name \in Names
    /\ r.kind = "register" => r.pc \in {"username", "create", "issue"}
    /\ r.pc \in {"enable", "increment", "restore"} => r.arg \in Secrets
    /\ r.pc = "use" => r.arg \in Codes
    /\ r.pc = "delete" => r.kind = "delete" /\ r.id # Owner
    /\ r.pc = "insert" => \A t \in r.rows : credential[t] # Unissued

\* A row that was never inserted is empty, one that was has an email and a
\* name (the owner's, made by RunFirstInit, are left out); a pending secret and a credential
\* that was issued belong to a row that was.
RowsOwned ==
  /\ \A u \in Ids : users[u].at = "never" => users[u] = NoUser
  /\ \A u \in Ids \ {Owner} :
       users[u].at # "never" => users[u].email \in Emails /\ users[u].name \in Names
  /\ \A u \in Ids : pending[u] # None => users[u].at # "never"
  /\ \A t \in Credentials : credential[t] # Unissued =>
       /\ credential[t].at # "none"
       /\ credential[t].of \in Ids /\ users[credential[t].of].at # "never"

Sound == TypeOK /\ CallsCarry /\ RowsOwned

\* A call that will match a recovery code has seen every code in its past dead.
SpentInv ==
  \A c \in Calls :
    /\ At(c, "factor") \/ At(c, "recover") => call[c].past \subseteq DeadCodes
    /\ At(c, "use") => call[c].arg \notin call[c].past

\* Codes are about to be replaced for an account whose second factor is off
\* only if it was turned off meanwhile.
StrayInv ==
  /\ CodesGoWithMFA
  /\ \A c \in Calls :
       LET u == call[c].id IN
       At(c, "replace") /\ Exists(u) /\ users[u].secret = None => u \in stray

\* Where a pending secret is: with its user or with one confirmation.
Confirming(c, s) == call[c].pc \in {"enable", "increment", "restore"} /\ call[c].arg = s

\* A secret is in one place, and none with all its guesses taken is in any.
GuessInv ==
  /\ \A u \in Ids : pending[u] # None => pending[u] \in minted
  /\ \A c \in Calls, s \in Secrets : Confirming(c, s) => s \in minted
  /\ \A u, v \in Ids : pending[u] # None /\ pending[u] = pending[v] => u = v
  /\ \A c \in Calls, u \in Ids, s \in Secrets : Confirming(c, s) => pending[u] # s
  /\ \A c, d \in Calls, s \in Secrets : Confirming(c, s) /\ Confirming(d, s) => c = d
  /\ \A u \in Ids, s \in Secrets :
       /\ tries[u][s] <= attempts[u] + uncounted[u][s]
       /\ tries[u][s] <= MaxSetupAttempts + uncounted[u][s]
       /\ s \notin minted => tries[u][s] = 0
       /\ pending[u] = s => tries[u][s] < MaxSetupAttempts + uncounted[u][s]
       /\ \A c \in Calls : Confirming(c, s) /\ call[c].id = u /\ ~At(c, "enable") =>
            tries[u][s] < MaxSetupAttempts + uncounted[u][s]

\* A registration past its checks has found no tombstone in its past.
TombInv ==
  \A c \in Calls : call[c].kind = "register" =>
    /\ <<"email", call[c].email>> \notin call[c].past
    /\ At(c, "username") => call[c].past \subseteq tombstones
    /\ ~At(c, "username") => <<"username", call[c].name>> \notin call[c].past

\* Without a race a user has one unconsumed link, and a resend that is past
\* its UPDATE has it among its rows.
LinkInv ==
  \A u \in Ids : u \notin raced =>
    /\ \A s, t \in Unconsumed(u) : s = t
    /\ \A c \in Calls : At(c, "insert") /\ call[c].id = u => Unconsumed(u) \subseteq call[c].rows

-----------------------------------------------------------------------------
(* Calls. *)

\* How a step moves call c: it stays or answers, or enters its next phase with
\* what the phase relies on.
CallStep(c) ==
  LET old == call[c]
      new == call'[c]
      Same == /\ new.kind = old.kind /\ new.id = old.id /\ new.email = old.email
              /\ new.name = old.name /\ new.arg = old.arg /\ new.past = old.past
      Mine == new.id \in Ids /\ users'[new.id].at # "never"
      Quiet == UNCHANGED <<store, workload, history>>
  IN
  \/ new = old
  \/ new = NoCall
  \* Register, RegisterName, CreateUser
  \/ /\ new.kind = "register" /\ new.pc = "username" /\ Quiet
     /\ new.email \in Emails /\ new.name \in Names
     /\ new.past = tombstones /\ <<"email", new.email>> \notin tombstones
  \/ /\ old.pc = "username" /\ new.pc = "create" /\ Same /\ Quiet
     /\ <<"username", new.name>> \notin tombstones
  \/ /\ old.pc = "create" /\ new.pc = "issue" /\ Mine
     /\ new.kind = old.kind /\ new.email = old.email /\ new.name = old.name
     /\ new.past = old.past
  \* arrivals that only need their account
  \/ /\ new.kind \notin {"register", "none"} /\ Mine
     /\ new.pc \in {"issue", "ticket", "load", "cooldown", "store", "disable", "delete"}
     /\ new.pc = "delete" => new.kind = "delete" /\ new.id # Owner
  \* ConfirmMFASetup
  \/ /\ new.kind = "confirm" /\ new.pc \in {"enable", "increment"} /\ Mine
     /\ pending[new.id] # None /\ new.arg = pending[new.id]
     /\ pending' = [pending EXCEPT ![new.id] = None]
     /\ UNCHANGED <<users, credential, codes, tombstones, attempts, sessions, workload, history>>
  \* RegenerateRecoveryCodes
  \/ /\ new.kind = "regenerate" /\ new.pc = "replace" /\ Mine /\ Quiet
     /\ users[new.id].secret # None
  \* VerifyMFA, DisableMFA
  \/ /\ new.kind \in {"mfa", "disable"} /\ new.pc \in {"factor", "recover"} /\ Mine
     /\ new.past = DeadCodes /\ UNCHANGED codes
  \* InvalidateLinks
  \/ /\ old.pc = "invalidate" /\ new.pc = "insert" /\ Same /\ Quiet
     /\ new.rows = Unconsumed(new.id)
  \* MatchRecoveryCode
  \/ /\ old.pc = "recover" /\ new.pc = "use" /\ Quiet
     /\ new.kind = old.kind /\ new.id = old.id /\ new.past = old.past
     /\ new.arg \in UnusedCodes(old.id)
  \* every other continuation
  \/ /\ Same
     /\ \/ old.pc \in {"load", "factor", "use"} /\ new.pc = "issue"
        \/ old.pc = "cooldown" /\ new.pc = "invalidate"
        \/ old.pc = "store" /\ new.pc = "reset"
        \/ /\ old.pc = "increment" /\ new.pc = "restore"
           /\ tries' = [tries EXCEPT ![old.id][old.arg] = @ + 1]
        \/ old.pc = "factor" /\ new.pc = "recover" /\ Quiet
        \/ old.pc = "use" /\ new.pc = "disable"
        \/ old.pc \in {"disable", "delete"} /\ new.pc = "revoke"

\* The last step of DisableMFA and DeleteAccount, whether it succeeds or not.
Revokes(c) ==
  RevokeSessions(c) \/ \E left \in SUBSET {"before", "after"} : RevocationFails(c, left)

\* Only call c moves.
OthersStay(c) == \A d \in Calls : d # c => call'[d] = call[d]

LEMMA NoCallTyped == NoCall \in Call /\ NoCall.pc = "idle" /\ NoCall.kind = "none"
BY DEF NoCall, Call, Kinds, Phases

LEMMA BeginMoves ==
  ASSUME TypeOK, NEW c \in Calls, NEW kind \in Kinds, NEW r \in Call, Begin(c, kind, r)
  PROVE  /\ call' \in [Calls -> Call] /\ OthersStay(c) /\ call[c].pc = "idle"
         /\ call'[c].kind = kind /\ call'[c].pc = r.pc /\ call'[c].id = r.id
         /\ call'[c].email = r.email /\ call'[c].name = r.name /\ call'[c].arg = r.arg
         /\ call'[c].rows = r.rows /\ call'[c].past = r.past
BY DEF Begin, At, TypeOK, Call, OthersStay

LEMMA GotoMoves ==
  ASSUME TypeOK, NEW c \in Calls, NEW pc \in Phases, Goto(c, pc)
  PROVE  /\ call' \in [Calls -> Call] /\ OthersStay(c)
         /\ call'[c].kind = call[c].kind /\ call'[c].pc = pc /\ call'[c].id = call[c].id
         /\ call'[c].email = call[c].email /\ call'[c].name = call[c].name
         /\ call'[c].arg = call[c].arg /\ call'[c].rows = call[c].rows
         /\ call'[c].past = call[c].past
<1>1. call[c] \in Call
  BY DEF TypeOK
<1>2. call' \in [Calls -> Call] /\ OthersStay(c)
  BY <1>1 DEF Goto, TypeOK, Call, OthersStay
<1>3. call'[c] = [call[c] EXCEPT !.pc = pc]
  BY DEF Goto, TypeOK
<1>4. QED
  BY <1>1, <1>2, <1>3 DEF Call

LEMMA EditMoves ==
  ASSUME TypeOK, NEW c \in Calls, NEW r \in Call, call' = [call EXCEPT ![c] = r]
  PROVE  call' \in [Calls -> Call] /\ OthersStay(c) /\ call'[c] = r
BY DEF TypeOK, OthersStay

LEMMA ReturnMoves ==
  ASSUME TypeOK, NEW c \in Calls, Return(c)
  PROVE  call' \in [Calls -> Call] /\ OthersStay(c) /\ call'[c] = NoCall /\ CallStep(c)
<1>1. call' \in [Calls -> Call] /\ OthersStay(c) /\ call'[c] = NoCall
  BY NoCallTyped DEF Return, TypeOK, OthersStay
<1>2. QED
  BY <1>1 DEF CallStep

\* A request arrives with an account that exists, or has to register first.
LEMMA ArrivalMoves ==
  ASSUME Sound, NEW c \in Calls
  PROVE  (AuthRequests(c) \/ VerificationRequests(c) \/ MFARequests(c) \/ DeleteMe(c)) =>
           call' \in [Calls -> Call] /\ OthersStay(c) /\ CallStep(c)
<1> DEFINE Moved == call' \in [Calls -> Call] /\ OthersStay(c) /\ CallStep(c)
<1> USE AccountsAssumption
<1>c. /\ \A t \in MFATickets \cup Links : t \in Credentials
      /\ \A t \in Credentials : Redeemable(t) =>
           credential[t].of \in Ids /\ users[credential[t].of].at # "never"
  BY DEF Credentials, Sound, RowsOwned, Redeemable, Unissued
<1>d. DeadCodes \in SUBSET (Codes \cup TombstoneRows)
  BY DEF DeadCodes
<1>1. ASSUME NEW e \in Emails, NEW n \in Names, Register(c, e, n)
      PROVE  Moved
  <2> DEFINE r == [NoCall EXCEPT !.pc = "username", !.email = e, !.name = n, !.past = tombstones]
  <2>1. /\ r \in Call /\ r.pc = "username" /\ r.email = e /\ r.name = n
        /\ r.past = tombstones
    BY DEF NoCall, Call, Kinds, Phases, Sound, TypeOK
  <2>2. /\ Begin(c, "register", r) /\ <<"email", e>> \notin tombstones
        /\ UNCHANGED <<store, workload, history>>
    BY <1>1 DEF Register, CheckTombstone
  <2> HIDE DEF r
  <2>3. QED
    BY <2>1, <2>2, BeginMoves DEF Kinds, CallStep, Sound
<1>2. ASSUME NEW u \in Ids, Login(c, u)
      PROVE  Moved
  <2> DEFINE r == [NoCall EXCEPT !.id = u,
                     !.pc = IF users[u].secret = None THEN "issue" ELSE "ticket"]
  <2>1. r \in Call /\ r.pc \in {"issue", "ticket"} /\ r.id = u
    BY DEF NoCall, Call, Kinds, Phases
  <2>2. /\ Begin(c, "login", r) /\ users[u].at = "live"
        /\ UNCHANGED <<store, workload, history>>
    BY <1>2 DEF Login, Caller, Exists
  <2> HIDE DEF r
  <2>3. UNCHANGED users
    BY <2>2 DEF store
  <2>4. QED
    BY <2>1, <2>2, <2>3, BeginMoves DEF Kinds, CallStep, Sound
<1>3. ASSUME NEW t \in MFATickets, VerifyMFA(c, t)
      PROVE  Moved
  <2> DEFINE r == [NoCall EXCEPT !.pc = "factor", !.id = credential[t].of, !.past = DeadCodes]
  <2>1. credential[t].of \in Ids /\ users[credential[t].of].at # "never"
    BY <1>3, <1>c DEF VerifyMFA
  <2>2. r \in Call /\ r.pc = "factor" /\ r.id = credential[t].of /\ r.past = DeadCodes
    BY <2>1, <1>d DEF NoCall, Call, Kinds, Phases
  <2>3. Begin(c, "mfa", r) /\ UNCHANGED <<users, codes>>
    BY <1>3 DEF VerifyMFA
  <2> HIDE DEF r
  <2>4. QED
    BY <2>1, <2>2, <2>3, BeginMoves DEF Kinds, CallStep, Sound
<1>4. ASSUME NEW t \in Links, VerifyEmail(c, t)
      PROVE  Moved
  <2> DEFINE r == [NoCall EXCEPT !.pc = "load", !.id = credential[t].of]
  <2>1. credential[t].of \in Ids /\ users[credential[t].of].at # "never"
    BY <1>4, <1>c DEF VerifyEmail
  <2>2. r \in Call /\ r.pc = "load" /\ r.id = credential[t].of
    BY <2>1 DEF NoCall, Call, Kinds, Phases
  <2>3. Begin(c, "verify", r)
    BY <1>4 DEF VerifyEmail
  <2>4. users'[credential[t].of].at # "never"
    BY <1>4, <2>1 DEF VerifyEmail, Sound, TypeOK
  <2> HIDE DEF r
  <2>5. QED
    BY <2>1, <2>2, <2>3, <2>4, BeginMoves DEF Kinds, CallStep, Sound
<1>5. ASSUME NEW u \in Ids, ResendVerification(c, u)
      PROVE  Moved
  <2> DEFINE r == [NoCall EXCEPT !.pc = "cooldown", !.id = u]
  <2>1. r \in Call /\ r.pc = "cooldown" /\ r.id = u
    BY DEF NoCall, Call, Kinds, Phases
  <2>2. Begin(c, "resend", r) /\ users[u].at = "live" /\ UNCHANGED users
    BY <1>5 DEF ResendVerification, Caller, Exists, store
  <2> HIDE DEF r
  <2>3. QED
    BY <2>1, <2>2, BeginMoves DEF Kinds, CallStep, Sound
<1>6. ASSUME NEW u \in Ids, BeginMFASetup(c, u)
      PROVE  Moved
  <2> DEFINE r == [NoCall EXCEPT !.pc = "store", !.id = u]
  <2>1. r \in Call /\ r.pc = "store" /\ r.id = u
    BY DEF NoCall, Call, Kinds, Phases
  <2>2. Begin(c, "setup", r) /\ users[u].at = "live" /\ UNCHANGED users
    BY <1>6 DEF BeginMFASetup, Caller, Exists, store
  <2> HIDE DEF r
  <2>3. QED
    BY <2>1, <2>2, BeginMoves DEF Kinds, CallStep, Sound
<1>7. ASSUME NEW u \in Ids, RegenerateRecoveryCodes(c, u)
      PROVE  Moved
  <2> DEFINE r == [NoCall EXCEPT !.pc = "replace", !.id = u]
  <2>1. r \in Call /\ r.pc = "replace" /\ r.id = u
    BY DEF NoCall, Call, Kinds, Phases
  <2>2. /\ Begin(c, "regenerate", r) /\ users[u].at = "live" /\ users[u].secret # None
        /\ UNCHANGED <<store, workload, history>>
    BY <1>7 DEF RegenerateRecoveryCodes, Caller, Exists
  <2> HIDE DEF r
  <2>3. UNCHANGED users
    BY <2>2 DEF store
  <2>4. QED
    BY <2>1, <2>2, <2>3, BeginMoves DEF Kinds, CallStep, Sound
<1>8. ASSUME NEW u \in Ids, NEW right \in BOOLEAN, ConfirmMFASetup(c, u, right)
      PROVE  Moved
  <2> DEFINE r == [NoCall EXCEPT !.pc = IF right THEN "enable" ELSE "increment",
                                 !.id = u, !.arg = pending[u]]
  <2>1. r \in Call /\ r.pc \in {"enable", "increment"} /\ r.id = u /\ r.arg = pending[u]
    BY DEF NoCall, Call, Kinds, Phases, Sound, TypeOK
  <2>2. /\ Begin(c, "confirm", r) /\ pending[u] # None
        /\ pending' = [pending EXCEPT ![u] = None]
        /\ UNCHANGED <<users, credential, codes, tombstones, attempts, sessions, workload, history>>
    BY <1>8 DEF ConfirmMFASetup
  <2>3. users[u].at # "never"
    BY <2>2 DEF Sound, RowsOwned
  <2> HIDE DEF r
  <2>4. /\ call' \in [Calls -> Call] /\ OthersStay(c) /\ call'[c].kind = "confirm"
        /\ call'[c].pc \in {"enable", "increment"} /\ call'[c].id = u
        /\ call'[c].arg = pending[u]
    BY <2>1, <2>2, BeginMoves DEF Kinds, Sound
  <2>5. call'[c].id \in Ids /\ users'[call'[c].id].at # "never"
    BY <2>2, <2>3, <2>4
  <2>6. CallStep(c)
    BY <2>2, <2>4, <2>5 DEF CallStep
  <2>7. QED
    BY <2>4, <2>6
<1>9. ASSUME NEW u \in Ids, NEW totp \in BOOLEAN, DisableMFA(c, u, totp)
      PROVE  Moved
  <2> DEFINE r == [NoCall EXCEPT !.pc = IF totp THEN "disable" ELSE "recover", !.id = u,
                                 !.past = DeadCodes]
  <2>1. r \in Call /\ r.pc \in {"disable", "recover"} /\ r.id = u /\ r.past = DeadCodes
    BY <1>d DEF NoCall, Call, Kinds, Phases
  <2>2. Begin(c, "disable", r) /\ users[u].at = "live" /\ UNCHANGED <<users, codes>>
    BY <1>9 DEF DisableMFA, Caller, Exists, store
  <2> HIDE DEF r
  <2>3. QED
    BY <2>1, <2>2, BeginMoves DEF Kinds, CallStep, Sound
<1>10. ASSUME NEW u \in Ids, DeleteAccount(c, u)
       PROVE  Moved
  <2> DEFINE r == [NoCall EXCEPT !.pc = "delete", !.id = u]
  <2>1. r \in Call /\ r.pc = "delete" /\ r.id = u
    BY DEF NoCall, Call, Kinds, Phases
  <2>2. Begin(c, "delete", r) /\ users[u].at = "live" /\ u # Owner /\ UNCHANGED users
    BY <1>10 DEF DeleteAccount, Caller, Exists, store
  <2> HIDE DEF r
  <2>3. QED
    BY <2>1, <2>2, BeginMoves DEF Kinds, CallStep, Sound
<1> HIDE DEF Moved
<1>11. (AuthRequests(c) \/ VerificationRequests(c) \/ MFARequests(c) \/ DeleteMe(c)) => Moved
  BY <1>1, <1>2, <1>3, <1>4, <1>5, <1>6, <1>7, <1>8, <1>9, <1>10
     DEF AuthRequests, VerificationRequests, MFARequests, DeleteMe
<1>12. QED
  BY <1>11 DEF Moved

\* A call goes on from one statement to the next, or answers.
LEMMA ContinueMoves ==
  ASSUME Sound, NEW c \in Calls
  PROVE  Continue(c) => call' \in [Calls -> Call] /\ OthersStay(c) /\ CallStep(c)
<1> DEFINE Moved == call' \in [Calls -> Call] /\ OthersStay(c) /\ CallStep(c)
<1>t. TypeOK
  BY DEF Sound
<1>r. ASSUME Return(c) PROVE Moved
  BY <1>r, <1>t, ReturnMoves
<1>1. ASSUME RegisterName(c) PROVE Moved
  <2>1. CASE ~Return(c)
    <3>1. /\ Goto(c, "create") /\ call[c].pc = "username"
          /\ <<"username", call[c].name>> \notin tombstones
          /\ UNCHANGED <<store, workload, history>>
      BY <1>1, <2>1 DEF RegisterName, CheckTombstone, At
    <3>2. QED
      BY <1>t, <3>1, GotoMoves DEF Phases, CallStep
  <2>2. QED
    BY <1>r, <2>1
<1>2. ASSUME NEW u \in Ids, NEW t \in Links, CreateUser(c, u, t)
      PROVE  Moved
  <2>1. CASE ~Return(c)
    <3>1. /\ At(c, "create") /\ users[u] = NoUser
          /\ users' = [users EXCEPT ![u] = [NoUser EXCEPT !.at = "live", !.email = call[c].email,
                                                          !.name = call[c].name]]
          /\ call' = [call EXCEPT ![c].pc = "issue", ![c].id = u]
      BY <1>2, <2>1 DEF CreateUser
    <3>2. users'[u].at = "live"
      BY <3>1 DEF NoUser, Sound, TypeOK
    <3>3. call' \in [Calls -> Call] /\ OthersStay(c)
      <4>1. call[c] \in Call
        BY <1>t DEF TypeOK
      <4>2. call' = [call EXCEPT ![c] = [call[c] EXCEPT !.pc = "issue", !.id = u]]
        BY <3>1, <4>1, <1>t DEF TypeOK
      <4>3. [call[c] EXCEPT !.pc = "issue", !.id = u] \in Call
        BY <4>1 DEF Call, Phases
      <4>4. QED
        BY <4>2, <4>3, <1>t, EditMoves
    <3>4. /\ call'[c].pc = "issue" /\ call'[c].id = u /\ call'[c].kind = call[c].kind
          /\ call'[c].email = call[c].email /\ call'[c].name = call[c].name
          /\ call'[c].past = call[c].past
      BY <3>1, <1>t DEF TypeOK, Call
    <3>5. call[c].pc = "create"
      BY <3>1 DEF At
    <3>6. CallStep(c)
      BY <3>2, <3>4, <3>5 DEF CallStep
    <3>7. QED
      BY <3>3, <3>6
  <2>2. QED
    BY <2>1, <1>r
<1>3. ASSUME \/ IssueTokens(c) \/ Revokes(c) \/ ResetMFASetupAttempts(c) \/ Abandon(c)
             \/ RestorePending(c) \/ (\E t \in Links : InsertLink(c, t))
             \/ (\E t \in MFATickets : CreateMFATicket(c, t))
             \/ (\E new \in NewCodes : EnableMFA(c, new) \/ ReplaceRecoveryCodes(c, new))
      PROVE  Moved
  <2>1. Return(c)
    BY <1>3 DEF IssueTokens, Revokes, RevokeSessions, RevocationFails, Abandon,
       ResetMFASetupAttempts, RestorePending,
       InsertLink, CreateMFATicket, EnableMFA, ReplaceRecoveryCodes
  <2>2. QED
    BY <2>1, <1>r
<1>4. ASSUME LoadVerified(c) PROVE Moved
  <2>1. CASE Goto(c, "issue")
    BY <1>4, <1>t, <2>1, GotoMoves DEF LoadVerified, At, Phases, CallStep
  <2>2. QED
    BY <1>4, <1>r, <2>1 DEF LoadVerified
<1>5. ASSUME CheckCooldown(c) PROVE Moved
  <2>1. CASE Goto(c, "invalidate")
    BY <1>5, <1>t, <2>1, GotoMoves DEF CheckCooldown, At, Phases, CallStep
  <2>2. QED
    BY <1>5, <1>r, <2>1 DEF CheckCooldown
<1>6. ASSUME InvalidateLinks(c) PROVE Moved
  <2>1. /\ call[c].pc = "invalidate" /\ UNCHANGED <<store, workload, history>>
        /\ call' = [call EXCEPT ![c].pc = "insert", ![c].rows = Unconsumed(call[c].id)]
    BY <1>6 DEF InvalidateLinks, At
  <2>2. Unconsumed(call[c].id) \in SUBSET Links
    BY DEF Unconsumed
  <2>3. call' \in [Calls -> Call] /\ OthersStay(c)
    <3>1. call[c] \in Call
      BY <1>t DEF TypeOK
    <3>2. call' = [call EXCEPT ![c] = [call[c] EXCEPT !.pc = "insert", !.rows = Unconsumed(call[c].id)]]
      BY <2>1, <3>1, <1>t DEF TypeOK
    <3>3. [call[c] EXCEPT !.pc = "insert", !.rows = Unconsumed(call[c].id)] \in Call
      BY <3>1, <2>2 DEF Call, Phases
    <3>4. QED
      BY <3>2, <3>3, <1>t, EditMoves
  <2>4. /\ call'[c].pc = "insert" /\ call'[c].rows = Unconsumed(call[c].id)
        /\ call'[c].kind = call[c].kind /\ call'[c].id = call[c].id
        /\ call'[c].email = call[c].email /\ call'[c].name = call[c].name
        /\ call'[c].arg = call[c].arg /\ call'[c].past = call[c].past
    BY <2>1, <1>t DEF TypeOK, Call
  <2>5. CallStep(c)
    BY <2>1, <2>4 DEF CallStep
  <2>6. QED
    BY <2>3, <2>5
<1>7. ASSUME NEW s \in Secrets, StorePendingMFASecret(c, s) PROVE Moved
  <2>1. Goto(c, "reset") /\ call[c].pc = "store"
    BY <1>7 DEF StorePendingMFASecret, At
  <2>2. QED
    BY <1>t, <2>1, GotoMoves DEF Phases, CallStep
<1>8. ASSUME \/ IncrementMFASetupAttempts(c)
             \/ \E counted \in BOOLEAN : IncrementFails(c, counted)
      PROVE  Moved
  <2>1. /\ Goto(c, "restore") \/ Return(c)
        /\ call[c].pc = "increment"
        /\ tries' = [tries EXCEPT ![call[c].id][call[c].arg] = @ + 1]
    BY <1>8 DEF IncrementMFASetupAttempts, IncrementFails, At
  <2>2. CASE Goto(c, "restore")
    BY <1>t, <2>1, <2>2, GotoMoves DEF Phases, CallStep
  <2>3. QED
    BY <2>1, <2>2, <1>r
<1>9. ASSUME NEW totp \in BOOLEAN, VerifyFactor(c, totp) PROVE Moved
  <2>1. /\ Goto(c, "issue") \/ Goto(c, "recover") \/ Return(c)
        /\ call[c].pc = "factor" /\ UNCHANGED <<store, workload, history>>
    BY <1>9 DEF VerifyFactor, At
  <2>2. CASE Goto(c, "issue") \/ Goto(c, "recover")
    BY <1>t, <2>1, <2>2, GotoMoves DEF Phases, CallStep
  <2>3. QED
    BY <2>1, <2>2, <1>r
<1>10. ASSUME NEW k \in Codes, MatchRecoveryCode(c, k) PROVE Moved
  <2>1. CASE ~Return(c)
    <3>1. /\ call[c].pc = "recover" /\ k \in UnusedCodes(call[c].id)
          /\ call' = [call EXCEPT ![c].pc = "use", ![c].arg = k]
          /\ UNCHANGED <<store, workload, history>>
      BY <1>10, <2>1 DEF MatchRecoveryCode, At
    <3>2. call' \in [Calls -> Call] /\ OthersStay(c)
      <4>1. call[c] \in Call
        BY <1>t DEF TypeOK
      <4>2. call' = [call EXCEPT ![c] = [call[c] EXCEPT !.pc = "use", !.arg = k]]
        BY <3>1, <4>1, <1>t DEF TypeOK
      <4>3. [call[c] EXCEPT !.pc = "use", !.arg = k] \in Call
        BY <4>1 DEF Call, Phases
      <4>4. QED
        BY <4>2, <4>3, <1>t, EditMoves
    <3>3. /\ call'[c].pc = "use" /\ call'[c].arg = k /\ call'[c].kind = call[c].kind
          /\ call'[c].id = call[c].id /\ call'[c].past = call[c].past
      BY <3>1, <1>t DEF TypeOK, Call
    <3>4. CallStep(c)
      BY <3>1, <3>3 DEF CallStep
    <3>5. QED
      BY <3>2, <3>4
  <2>2. QED
    BY <2>1, <1>r
<1>11. ASSUME UseRecoveryCode(c) PROVE Moved
  <2>1. (Goto(c, "issue") \/ Goto(c, "disable")) /\ call[c].pc = "use"
    BY <1>11 DEF UseRecoveryCode, At
  <2>2. QED
    BY <1>t, <2>1, GotoMoves DEF Phases, CallStep
<1>12. ASSUME ClearMFA(c) PROVE Moved
  <2>1. Goto(c, "revoke") /\ call[c].pc = "disable"
    BY <1>12 DEF ClearMFA, At
  <2>2. QED
    BY <1>t, <2>1, GotoMoves DEF Phases, CallStep
<1>13. ASSUME DeleteWithTombstones(c) PROVE Moved
  <2>1. (Goto(c, "revoke") \/ Return(c)) /\ call[c].pc = "delete"
    BY <1>13 DEF DeleteWithTombstones, At
  <2>2. CASE Goto(c, "revoke")
    BY <1>t, <2>1, <2>2, GotoMoves DEF Phases, CallStep
  <2>3. QED
    BY <2>1, <2>2, <1>r
<1> HIDE DEF Moved
<1>14. Continue(c) => Moved
  BY <1>1, <1>2, <1>3, <1>4, <1>5, <1>6, <1>7, <1>8, <1>9, <1>10, <1>11, <1>12, <1>13
     DEF Continue, Revokes
<1>15. QED
  BY <1>14 DEF Moved

-----------------------------------------------------------------------------
(* Steps. *)

\* The checks of a request read and write nothing.
LEMMA ChecksReadOnly ==
  ASSUME NEW c \in Calls
  PROVE  (\/ \E e \in Emails, n \in Names : Register(c, e, n)
          \/ Abandon(c)
          \/ RegisterName(c) \/ LoadVerified(c) \/ CheckCooldown(c) \/ InvalidateLinks(c)
          \/ \E u \in Ids : \/ Login(c, u) \/ ResendVerification(c, u) \/ BeginMFASetup(c, u)
                            \/ RegenerateRecoveryCodes(c, u) \/ DeleteAccount(c, u)
          \/ \E u \in Ids, totp \in BOOLEAN : DisableMFA(c, u, totp)
          \/ \E totp \in BOOLEAN : VerifyFactor(c, totp)
          \/ \E k \in Codes : MatchRecoveryCode(c, k))
         => UNCHANGED <<store, workload, history>>
<1>1. ASSUME NEW e \in Emails, NEW n \in Names, Register(c, e, n)
      PROVE  UNCHANGED <<store, workload, history>>
  BY <1>1 DEF Register
<1>2. ASSUME \/ RegisterName(c) \/ LoadVerified(c) \/ CheckCooldown(c)
             \/ InvalidateLinks(c) \/ Abandon(c)
      PROVE  UNCHANGED <<store, workload, history>>
  BY <1>2 DEF Abandon, RegisterName, LoadVerified, CheckCooldown, InvalidateLinks
<1>3. ASSUME NEW u \in Ids, Login(c, u)
      PROVE  UNCHANGED <<store, workload, history>>
  BY <1>3 DEF Login
<1>4. ASSUME NEW u \in Ids, ResendVerification(c, u) \/ BeginMFASetup(c, u)
      PROVE  UNCHANGED <<store, workload, history>>
  BY <1>4 DEF ResendVerification, BeginMFASetup
<1>5. ASSUME NEW u \in Ids, RegenerateRecoveryCodes(c, u) \/ DeleteAccount(c, u)
      PROVE  UNCHANGED <<store, workload, history>>
  BY <1>5 DEF RegenerateRecoveryCodes, DeleteAccount
<1>6. ASSUME NEW u \in Ids, NEW totp \in BOOLEAN, DisableMFA(c, u, totp)
      PROVE  UNCHANGED <<store, workload, history>>
  BY <1>6 DEF DisableMFA
<1>7. ASSUME NEW totp \in BOOLEAN, VerifyFactor(c, totp)
      PROVE  UNCHANGED <<store, workload, history>>
  BY <1>7 DEF VerifyFactor
<1>8. ASSUME NEW k \in Codes, MatchRecoveryCode(c, k)
      PROVE  UNCHANGED <<store, workload, history>>
  BY <1>8 DEF MatchRecoveryCode
<1>9. QED
  BY <1>1, <1>2, <1>3, <1>4, <1>5, <1>6, <1>7, <1>8

\* The statements of call c that write to a table or a key.
AccountWrites(c) ==
  \/ \E u \in Ids, t \in Links : CreateUser(c, u, t)
  \/ IssueTokens(c) \/ Revokes(c) \/ DeleteWithTombstones(c)

CredentialWrites(c) ==
  \/ \E t \in MFATickets : VerifyMFA(c, t) \/ CreateMFATicket(c, t)
  \/ \E t \in Links : VerifyEmail(c, t) \/ InsertLink(c, t)

SetupWrites(c) ==
  \/ \E s \in Secrets : StorePendingMFASecret(c, s)
  \/ ResetMFASetupAttempts(c) \/ IncrementMFASetupAttempts(c) \/ RestorePending(c)
  \/ \E counted \in BOOLEAN : IncrementFails(c, counted)
  \/ \E u \in Ids, right \in BOOLEAN : ConfirmMFASetup(c, u, right)

CodeWrites(c) ==
  \/ \E new \in NewCodes : EnableMFA(c, new) \/ ReplaceRecoveryCodes(c, new)
  \/ UseRecoveryCode(c) \/ ClearMFA(c)

\* A step is a check, a statement of a call, or a step without one.
LEMMA StepCases ==
  ASSUME [Next]_vars
  PROVE  \/ UNCHANGED <<store, workload, history>>
         \/ \E c \in Calls :
              AccountWrites(c) \/ CredentialWrites(c) \/ SetupWrites(c) \/ CodeWrites(c)
         \/ GatewayRequests
         \/ Passage
<1>1. ASSUME NEW c \in Calls, AuthRequests(c) \/ VerificationRequests(c)
      PROVE  UNCHANGED <<store, workload, history>> \/ CredentialWrites(c)
  BY <1>1, ChecksReadOnly DEF AuthRequests, VerificationRequests, CredentialWrites
<1>2. ASSUME NEW c \in Calls, MFARequests(c) \/ DeleteMe(c)
      PROVE  UNCHANGED <<store, workload, history>> \/ SetupWrites(c)
  BY <1>2, ChecksReadOnly DEF MFARequests, DeleteMe, SetupWrites
<1>3. ASSUME NEW c \in Calls, Continue(c)
      PROVE  \/ UNCHANGED <<store, workload, history>>
             \/ AccountWrites(c) \/ CredentialWrites(c) \/ SetupWrites(c) \/ CodeWrites(c)
  BY <1>3, ChecksReadOnly
     DEF Continue, AccountWrites, Revokes, CredentialWrites, SetupWrites, CodeWrites
<1>4. CASE UNCHANGED vars
  BY <1>4 DEF vars
<1>5. QED
  BY <1>1, <1>2, <1>3, <1>4 DEF Next

\* Every step moves one call, none, or takes purged tombstones out of the past
\* of all.
LEMMA StepMoves ==
  ASSUME Sound, [Next]_vars
  PROVE  /\ call' \in [Calls -> Call]
         /\ \/ call' = call
            \/ \E c \in Calls : OthersStay(c) /\ CallStep(c)
            \/ \E old \in SUBSET tombstones : PurgeTombstones(old)
<1>1. ASSUME NEW old \in SUBSET tombstones, PurgeTombstones(old)
      PROVE  call' \in [Calls -> Call]
  <2>1. ASSUME NEW c \in Calls PROVE [call[c] EXCEPT !.past = @ \ old] \in Call
    <3>1. call[c] \in Call
      BY DEF Sound, TypeOK
    <3>2. QED
      BY <3>1 DEF Call
  <2>2. QED
    BY <1>1, <2>1 DEF PurgeTombstones
<1>2. ASSUME \/ GatewayRequests \/ UNCHANGED vars
             \/ \E t \in Credentials : Age(t)
             \/ \E u \in Ids : ExpirePending(u) \/ ExpireAttempts(u)
      PROVE  call' = call
  <2>1. CASE GatewayRequests
    BY <2>1 DEF GatewayRequests, Logout, CreateGatewayTicket, ConsumeGatewayTicket
  <2>2. ASSUME NEW t \in Credentials, Age(t) PROVE call' = call
    BY <2>2 DEF Age
  <2>3. ASSUME NEW u \in Ids, ExpirePending(u) \/ ExpireAttempts(u) PROVE call' = call
    BY <2>3 DEF ExpirePending, ExpireAttempts
  <2>4. QED
    BY <1>2, <2>1, <2>2, <2>3 DEF vars
<1>3. call \in [Calls -> Call]
  BY DEF Sound, TypeOK
<1>4. QED
  BY <1>1, <1>2, <1>3, ArrivalMoves, ContinueMoves DEF Next, Passage

-----------------------------------------------------------------------------
(* Types and ownership. *)

StoreTyped ==
  /\ users \in [Ids -> [at : {"never", "live", "gone"}, email : Emails \cup {None},
                       name : Names \cup {None}, verified : BOOLEAN, secret : Secrets \cup {None}]]
  /\ credential \in [Credentials -> [at : {"none", "new", "open", "expired", "gone"},
                                    of : Ids \cup {None}]]
  /\ codes \in [Codes -> [at : {"none", "unused", "used", "gone"}, of : Ids \cup {None}]]
  /\ tombstones \subseteq TombstoneRows
  /\ pending \in [Ids -> Secrets \cup {None}]
  /\ attempts \in [Ids -> Nat]
  /\ sessions \in [Ids -> SUBSET {"before", "after"}]

HistoryTyped ==
  /\ redeemed \in [Credentials -> Nat] /\ minted \subseteq Secrets
  /\ tries \in [Ids -> [Secrets -> Nat]]
  /\ uncounted \in [Ids -> [Secrets -> Nat]]
  /\ raced \subseteq Ids /\ stray \subseteq Ids /\ unrevoked \subseteq Ids

\* A row that was inserted stays in the history of the table.
RowsStay == \A u \in Ids : users[u].at # "never" => users'[u].at # "never"

\* So does a credential that was issued.
IssuedStay == \A t \in Credentials : credential[t] # Unissued => credential'[t] # Unissued

\* What a step owes to the tables.
StoreKept ==
  /\ StoreTyped' /\ HistoryTyped' /\ RowsOwned'
  /\ RowsStay /\ IssuedStay /\ UNCHANGED workload

\* Draw takes its value from the set it is given.
LEMMA DrawIn == ASSUME NEW S, NEW x \in Draw(S) PROVE x \in S
BY DEF Draw

\* A credential that is drawn was never issued.
LEMMA FreshIs ==
  ASSUME NEW S, NEW t \in Fresh(S)
  PROVE  t \in S /\ credential[t] = Unissued
BY DrawIn DEF Fresh

\* New recovery codes were never handed out.
LEMMA NewCodesAre ==
  ASSUME NEW new \in NewCodes
  PROVE  new \subseteq Codes /\ \A k \in new : codes[k] = Unissued
BY DrawIn DEF NewCodes

\* Replacing a user's codes only issues the new ones.
LEMMA ReplacedTyped ==
  ASSUME StoreTyped, NEW u \in Ids, NEW new \in SUBSET Codes
  PROVE  /\ Replaced(u, new) \in [Codes -> [at : {"none", "unused", "used", "gone"},
                                            of : Ids \cup {None}]]
         /\ \A k \in Codes : Replaced(u, new)[k] =
              IF k \in new THEN [at |-> "unused", of |-> u]
              ELSE IF codes[k].of = u THEN [codes[k] EXCEPT !.at = "gone"] ELSE codes[k]
<1>1. ASSUME NEW k \in Codes
      PROVE  /\ Replaced(u, new)[k] =
                  IF k \in new THEN [at |-> "unused", of |-> u]
                  ELSE IF codes[k].of = u THEN [codes[k] EXCEPT !.at = "gone"] ELSE codes[k]
             /\ Replaced(u, new)[k] \in [at : {"none", "unused", "used", "gone"},
                                         of : Ids \cup {None}]
  <2>1. Replaced(u, new)[k] =
          IF k \in new THEN [at |-> "unused", of |-> u]
          ELSE IF codes[k].of = u THEN [codes[k] EXCEPT !.at = "gone"] ELSE codes[k]
    BY DEF Replaced
  <2>2. codes[k] \in [at : {"none", "unused", "used", "gone"}, of : Ids \cup {None}]
    BY DEF StoreTyped
  <2>3. [codes[k] EXCEPT !.at = "gone"] \in [at : {"none", "unused", "used", "gone"},
                                             of : Ids \cup {None}]
    BY <2>2
  <2>4. QED
    BY <2>1, <2>2, <2>3
<1>2. QED
  BY <1>1 DEF Replaced

\* A step that leaves tables and history alone keeps everything about them.
LEMMA QuietKeeps ==
  ASSUME StoreTyped, HistoryTyped, RowsOwned, UNCHANGED <<store, workload, history>>
  PROVE  StoreKept
BY DEF StoreKept, StoreTyped, HistoryTyped, RowsOwned, RowsStay, IssuedStay, store, history

\* The account a call works for is one that was inserted.
LEMMA AccountOf ==
  ASSUME Sound, NEW c \in Calls, call[c].pc \in OfAccount
  PROVE  call[c].id \in Ids /\ users[call[c].id].at # "never"
BY DEF Sound, CallsCarry

\* A field of one row changes and the rest of the table stays.
LEMMA RowEdit ==
  ASSUME StoreTyped, RowsOwned, HistoryTyped, NEW u \in Ids, NEW row,
         row \in [at : {"never", "live", "gone"}, email : Emails \cup {None},
                  name : Names \cup {None}, verified : BOOLEAN, secret : Secrets \cup {None}],
         row.at # "never", u # Owner => row.email \in Emails /\ row.name \in Names,
         users' = [users EXCEPT ![u] = row],
         UNCHANGED pending
  PROVE  /\ users' \in [Ids -> [at : {"never", "live", "gone"}, email : Emails \cup {None},
                                name : Names \cup {None}, verified : BOOLEAN,
                                secret : Secrets \cup {None}]]
         /\ \A v \in Ids : users'[v].at = "never" => users'[v] = NoUser
         /\ \A v \in Ids \ {Owner} :
              users'[v].at # "never" => users'[v].email \in Emails /\ users'[v].name \in Names
         /\ \A v \in Ids : pending'[v] # None => users'[v].at # "never"
         /\ RowsStay
BY DEF StoreTyped, RowsOwned, RowsStay

\* Issuing a fresh credential to an account keeps every credential owned.
LEMMA IssueKeeps ==
  ASSUME StoreTyped, RowsOwned, RowsStay, NEW S, S \subseteq Credentials, NEW t \in Fresh(S),
         NEW u \in Ids, users'[u].at # "never", NEW at \in {"new", "open"}, Issue(t, u, at)
  PROVE  /\ credential' \in [Credentials -> [at : {"none", "new", "open", "expired", "gone"},
                                            of : Ids \cup {None}]]
         /\ \A l \in Credentials : credential'[l] # Unissued =>
              /\ credential'[l].at # "none"
              /\ credential'[l].of \in Ids /\ users'[credential'[l].of].at # "never"
         /\ IssuedStay
BY FreshIs DEF StoreTyped, RowsOwned, RowsStay, IssuedStay, Issue, Unissued

\* So does a change of what one credential is good for.
LEMMA RetireKeeps ==
  ASSUME StoreTyped, RowsOwned, RowsStay, NEW t \in Credentials, Redeemable(t),
         NEW at \in {"open", "expired", "gone"},
         credential' = [credential EXCEPT ![t].at = at]
  PROVE  /\ credential' \in [Credentials -> [at : {"none", "new", "open", "expired", "gone"},
                                            of : Ids \cup {None}]]
         /\ \A l \in Credentials : credential'[l] # Unissued =>
              /\ credential'[l].at # "none"
              /\ credential'[l].of \in Ids /\ users'[credential'[l].of].at # "never"
         /\ IssuedStay
<1>1. credential[t] # Unissued
  BY DEF Redeemable, Unissued
<1>2. credential' \in [Credentials -> [at : {"none", "new", "open", "expired", "gone"},
                                      of : Ids \cup {None}]]
  BY DEF StoreTyped
<1>3. /\ credential'[t].at = at /\ credential'[t].of = credential[t].of
      /\ \A l \in Credentials : l # t => credential'[l] = credential[l]
  BY DEF StoreTyped
<1>4. QED
  BY <1>1, <1>2, <1>3 DEF RowsOwned, RowsStay, IssuedStay, Unissued

\* The statements on accounts and sessions.
LEMMA AccountWritesKeep ==
  ASSUME Sound, StoreTyped, HistoryTyped, RowsOwned, NEW c \in Calls
  PROVE  AccountWrites(c) => StoreKept
<1> USE AccountsAssumption DEF StoreKept
<1>1. ASSUME NEW u \in Ids, NEW t \in Links, CreateUser(c, u, t)
      PROVE  StoreKept
  <2>1. CASE UNCHANGED store
    BY <1>1, <2>1, QuietKeeps DEF CreateUser
  <2>2. CASE ~UNCHANGED store
    <3> DEFINE row == [NoUser EXCEPT !.at = "live", !.email = call[c].email,
                                     !.name = call[c].name]
    <3>1. /\ users' = [users EXCEPT ![u] = row]
          /\ t \in Fresh(Links) /\ Issue(t, u, "new")
          /\ UNCHANGED <<codes, tombstones, pending, attempts, sessions>>
          /\ UNCHANGED <<workload, history>>
      BY <1>1, <2>2 DEF CreateUser
    <3>2. row \in [at : {"never", "live", "gone"}, email : Emails \cup {None},
                   name : Names \cup {None}, verified : BOOLEAN, secret : Secrets \cup {None}]
      BY DEF NoUser, Sound, TypeOK, Call
    <3>3. row.at = "live" /\ row.email \in Emails /\ row.name \in Names
      BY <1>1 DEF NoUser, CreateUser, At, Sound, CallsCarry
    <3> HIDE DEF row
    <3>4. users'[u] = row
      BY <3>1 DEF StoreTyped
    <3>5. Links \subseteq Credentials
      BY DEF Credentials
    <3>6. /\ users' \in [Ids -> [at : {"never", "live", "gone"}, email : Emails \cup {None},
                                 name : Names \cup {None}, verified : BOOLEAN,
                                 secret : Secrets \cup {None}]]
          /\ \A v \in Ids : users'[v].at = "never" => users'[v] = NoUser
          /\ \A v \in Ids \ {Owner} :
               users'[v].at # "never" => users'[v].email \in Emails /\ users'[v].name \in Names
          /\ \A v \in Ids : pending'[v] # None => users'[v].at # "never"
          /\ RowsStay
      BY <3>1, <3>2, <3>3, RowEdit
    <3>7. /\ credential' \in [Credentials -> [at : {"none", "new", "open", "expired", "gone"},
                                              of : Ids \cup {None}]]
          /\ \A l \in Credentials : credential'[l] # Unissued =>
               /\ credential'[l].at # "none"
               /\ credential'[l].of \in Ids /\ users'[credential'[l].of].at # "never"
          /\ IssuedStay
      BY <3>1, <3>3, <3>4, <3>5, <3>6, IssueKeeps
    <3>8. RowsOwned'
      BY <3>6, <3>7 DEF RowsOwned, Unissued, NoUser
    <3>9. StoreTyped' /\ HistoryTyped'
      BY <3>1, <3>6, <3>7 DEF StoreTyped, HistoryTyped, history
    <3>10. QED
      BY <3>1, <3>6, <3>7, <3>8, <3>9
  <2>3. QED
    BY <2>1, <2>2
<1>2. ASSUME IssueTokens(c) \/ RevokeSessions(c)
      PROVE  StoreKept
  <2>1. /\ sessions' \in [Ids -> SUBSET {"before", "after"}]
        /\ UNCHANGED <<users, credential, codes, tombstones, pending, attempts, workload, history>>
    BY <1>2 DEF IssueTokens, RevokeSessions, RevokeAll, StoreTyped
  <2>2. QED
    BY <2>1 DEF StoreTyped, HistoryTyped, RowsOwned, RowsStay, IssuedStay, history
<1>5. ASSUME NEW left \in SUBSET {"before", "after"}, RevocationFails(c, left)
      PROVE  StoreKept
  <2>1. PICK u \in Ids : u = call[c].id
    BY <1>5, AccountOf DEF RevocationFails, At, OfAccount, Phases
  <2>2. /\ sessions' = [sessions EXCEPT ![u] = @ \cap left]
        /\ unrevoked' \in {unrevoked, unrevoked \cup {u}}
        /\ UNCHANGED <<users, credential, codes, tombstones, pending, attempts, workload,
                       redeemed, minted, tries, uncounted, raced, stray>>
    BY <1>5, <2>1 DEF RevocationFails
  <2>3. /\ sessions' \in [Ids -> SUBSET {"before", "after"}] /\ unrevoked' \subseteq Ids
    BY <2>2 DEF StoreTyped, HistoryTyped
  <2>4. QED
    BY <2>2, <2>3 DEF StoreTyped, HistoryTyped, RowsOwned, RowsStay, IssuedStay
<1>3. ASSUME DeleteWithTombstones(c)
      PROVE  StoreKept
  <2>1. PICK u \in Ids : u = call[c].id /\ users[u].at # "never"
    BY <1>3, AccountOf DEF DeleteWithTombstones, At, OfAccount, Phases
  <2>2. CASE ~Exists(u)
    BY <1>3, <2>1, <2>2, QuietKeeps DEF DeleteWithTombstones, store
  <2>3. CASE Exists(u)
    <3>1. /\ tombstones' = tombstones \cup Tombs(u)
          /\ users' = [users EXCEPT ![u].at = "gone", ![u].secret = None]
          /\ codes' = Replaced(u, {})
          /\ credential' = [t \in Credentials |->
               IF t \in Unconsumed(u) THEN [credential[t] EXCEPT !.at = "gone"] ELSE credential[t]]
          /\ UNCHANGED <<pending, attempts, sessions, workload, history>>
      BY <1>3, <2>1, <2>3 DEF DeleteWithTombstones
    <3>2. users' = [users EXCEPT ![u] = [users[u] EXCEPT !.at = "gone", !.secret = None]]
      BY <3>1 DEF StoreTyped
    <3>3. /\ users' \in [Ids -> [at : {"never", "live", "gone"}, email : Emails \cup {None},
                                 name : Names \cup {None}, verified : BOOLEAN,
                                 secret : Secrets \cup {None}]]
          /\ \A v \in Ids : users'[v].at = "never" => users'[v] = NoUser
          /\ \A v \in Ids \ {Owner} :
               users'[v].at # "never" => users'[v].email \in Emails /\ users'[v].name \in Names
          /\ \A v \in Ids : pending'[v] # None => users'[v].at # "never"
          /\ RowsStay
      <4> DEFINE row == [users[u] EXCEPT !.at = "gone", !.secret = None]
      <4>1. /\ row \in [at : {"never", "live", "gone"}, email : Emails \cup {None},
                        name : Names \cup {None}, verified : BOOLEAN, secret : Secrets \cup {None}]
            /\ row.at = "gone" /\ row.email = users[u].email /\ row.name = users[u].name
        <5>1. users[u] \in [at : {"never", "live", "gone"}, email : Emails \cup {None},
                            name : Names \cup {None}, verified : BOOLEAN,
                            secret : Secrets \cup {None}]
          BY DEF StoreTyped
        <5>2. QED
          BY <5>1
      <4> HIDE DEF row
      <4>2. users' = [users EXCEPT ![u] = row] /\ UNCHANGED pending
        BY <3>1, <3>2 DEF row
      <4>3. QED
        BY <2>1, <4>1, <4>2, RowEdit DEF RowsOwned
    <3>4. ASSUME NEW l \in Credentials
          PROVE  /\ credential'[l] \in [at : {"none", "new", "open", "expired", "gone"},
                                        of : Ids \cup {None}]
                 /\ credential'[l] # Unissued =>
                      /\ credential'[l].at # "none"
                      /\ credential'[l].of \in Ids /\ users'[credential'[l].of].at # "never"
                 /\ credential[l] # Unissued => credential'[l] # Unissued
      <4>1. CASE l \in Unconsumed(u)
        <5>1. credential'[l] = [credential[l] EXCEPT !.at = "gone"] /\ credential[l].of = u
          BY <3>1, <4>1 DEF Unconsumed
        <5>2. credential'[l].at = "gone" /\ credential'[l].of = u
          BY <5>1 DEF StoreTyped
        <5>3. credential'[l] \in [at : {"none", "new", "open", "expired", "gone"},
                                  of : Ids \cup {None}]
          BY <5>1 DEF StoreTyped
        <5>4. QED
          BY <2>1, <3>3, <5>2, <5>3 DEF RowsStay, Unissued
      <4>2. CASE l \notin Unconsumed(u)
        BY <3>1, <3>3, <4>2 DEF StoreTyped, RowsOwned, RowsStay
      <4>3. QED
        BY <4>1, <4>2
    <3>5. RowsOwned'
      BY <3>3, <3>4 DEF RowsOwned, Unissued, NoUser
    <3>6. users[u].email \in Emails /\ users[u].name \in Names
      BY <1>3, <2>1 DEF DeleteWithTombstones, At, Sound, CallsCarry, RowsOwned
    <3>7. tombstones' \subseteq TombstoneRows
      BY <3>1, <3>6 DEF StoreTyped, Tombs, TombstoneRows
    <3>8. StoreTyped'
      BY <3>1, <3>3, <3>4, <3>7, ReplacedTyped DEF StoreTyped
    <3>9. QED
      BY <3>1, <3>3, <3>4, <3>5, <3>8 DEF HistoryTyped, IssuedStay, history
  <2>4. QED
    BY <2>2, <2>3
<1>6. QED
  BY <1>1, <1>2, <1>3, <1>5 DEF AccountWrites, Revokes

\* Rows stay when the table of users does.
LEMMA SameUsers ==
  ASSUME RowsOwned, UNCHANGED <<users, pending>>
  PROVE  /\ RowsStay
         /\ \A u \in Ids : users'[u].at = "never" => users'[u] = NoUser
         /\ \A u \in Ids \ {Owner} :
              users'[u].at # "never" => users'[u].email \in Emails /\ users'[u].name \in Names
         /\ \A u \in Ids : pending'[u] # None => users'[u].at # "never"
BY DEF RowsOwned, RowsStay

\* The statements on verification tokens and MFA tickets.
LEMMA CredentialWritesKeep ==
  ASSUME Sound, StoreTyped, HistoryTyped, RowsOwned, NEW c \in Calls
  PROVE  CredentialWrites(c) => StoreKept
<1> USE AccountsAssumption DEF StoreKept
<1>c. Links \subseteq Credentials /\ MFATickets \subseteq Credentials
  BY DEF Credentials
<1>1. ASSUME NEW t \in MFATickets, VerifyMFA(c, t)
      PROVE  StoreKept
  <2>1. /\ Redeemable(t) /\ credential' = [credential EXCEPT ![t].at = "gone"]
        /\ redeemed' = [redeemed EXCEPT ![t] = @ + 1]
        /\ UNCHANGED <<users, codes, tombstones, pending, attempts, sessions, workload,
                       minted, tries, uncounted, raced, stray, unrevoked>>
    BY <1>1 DEF VerifyMFA, Redeem
  <2>2. /\ RowsStay
        /\ \A u \in Ids : users'[u].at = "never" => users'[u] = NoUser
        /\ \A u \in Ids \ {Owner} :
             users'[u].at # "never" => users'[u].email \in Emails /\ users'[u].name \in Names
        /\ \A u \in Ids : pending'[u] # None => users'[u].at # "never"
    BY <2>1, SameUsers
  <2>3. /\ credential' \in [Credentials -> [at : {"none", "new", "open", "expired", "gone"},
                                            of : Ids \cup {None}]]
        /\ \A l \in Credentials : credential'[l] # Unissued =>
             /\ credential'[l].at # "none"
             /\ credential'[l].of \in Ids /\ users'[credential'[l].of].at # "never"
        /\ IssuedStay
    BY <1>c, <2>1, <2>2, RetireKeeps
  <2>4. RowsOwned'
    BY <2>2, <2>3 DEF RowsOwned, Unissued, NoUser
  <2>5. HistoryTyped'
    BY <1>c, <2>1 DEF HistoryTyped
  <2>6. StoreTyped'
    BY <2>1, <2>3 DEF StoreTyped
  <2>7. QED
    BY <2>1, <2>2, <2>3, <2>4, <2>5, <2>6
<1>2. ASSUME NEW t \in MFATickets, CreateMFATicket(c, t)
      PROVE  StoreKept
  <2>1. /\ t \in Fresh(MFATickets) /\ Issue(t, call[c].id, "open")
        /\ UNCHANGED <<users, codes, tombstones, pending, attempts, sessions, workload, history>>
    BY <1>2 DEF CreateMFATicket
  <2>2. call[c].id \in Ids /\ users'[call[c].id].at # "never"
    BY <1>2, <2>1, AccountOf DEF CreateMFATicket, At, OfAccount, Phases
  <2>3. /\ RowsStay
        /\ \A u \in Ids : users'[u].at = "never" => users'[u] = NoUser
        /\ \A u \in Ids \ {Owner} :
             users'[u].at # "never" => users'[u].email \in Emails /\ users'[u].name \in Names
        /\ \A u \in Ids : pending'[u] # None => users'[u].at # "never"
    BY <2>1, SameUsers
  <2>4. /\ credential' \in [Credentials -> [at : {"none", "new", "open", "expired", "gone"},
                                            of : Ids \cup {None}]]
        /\ \A l \in Credentials : credential'[l] # Unissued =>
             /\ credential'[l].at # "none"
             /\ credential'[l].of \in Ids /\ users'[credential'[l].of].at # "never"
        /\ IssuedStay
    BY <1>c, <2>1, <2>2, <2>3, IssueKeeps
  <2>5. RowsOwned'
    BY <2>3, <2>4 DEF RowsOwned, Unissued, NoUser
  <2>6. StoreTyped' /\ HistoryTyped'
    BY <2>1, <2>4 DEF StoreTyped, HistoryTyped, history
  <2>7. QED
    BY <2>1, <2>3, <2>4, <2>5, <2>6
<1>3. ASSUME NEW t \in Links, VerifyEmail(c, t)
      PROVE  StoreKept
  <2>1. /\ Redeemable(t) /\ credential' = [credential EXCEPT ![t].at = "gone"]
        /\ redeemed' = [redeemed EXCEPT ![t] = @ + 1]
        /\ users' = [users EXCEPT ![credential[t].of].verified = TRUE]
        /\ UNCHANGED <<codes, tombstones, pending, attempts, sessions, workload,
                       minted, tries, uncounted, raced, stray, unrevoked>>
    BY <1>3 DEF VerifyEmail, Redeem
  <2>2. PICK u \in Ids : u = credential[t].of /\ users[u].at # "never"
    BY <1>c, <2>1 DEF Redeemable, RowsOwned, Unissued
  <2> DEFINE row == [users[u] EXCEPT !.verified = TRUE]
  <2>3. users[u] \in [at : {"never", "live", "gone"}, email : Emails \cup {None},
                      name : Names \cup {None}, verified : BOOLEAN, secret : Secrets \cup {None}]
    BY DEF StoreTyped
  <2>4. /\ row \in [at : {"never", "live", "gone"}, email : Emails \cup {None},
                    name : Names \cup {None}, verified : BOOLEAN, secret : Secrets \cup {None}]
        /\ row.at = users[u].at /\ row.email = users[u].email /\ row.name = users[u].name
    BY <2>3
  <2>5. users' = [users EXCEPT ![u] = row]
    BY <2>1, <2>2 DEF StoreTyped
  <2> HIDE DEF row
  <2>e. u # Owner => row.email \in Emails /\ row.name \in Names
    BY <2>2, <2>4 DEF RowsOwned
  <2>p. UNCHANGED pending /\ row.at # "never"
    BY <2>1, <2>2, <2>4
  <2>6. /\ users' \in [Ids -> [at : {"never", "live", "gone"}, email : Emails \cup {None},
                               name : Names \cup {None}, verified : BOOLEAN,
                               secret : Secrets \cup {None}]]
        /\ \A v \in Ids : users'[v].at = "never" => users'[v] = NoUser
        /\ \A v \in Ids \ {Owner} :
             users'[v].at # "never" => users'[v].email \in Emails /\ users'[v].name \in Names
        /\ \A v \in Ids : pending'[v] # None => users'[v].at # "never"
        /\ RowsStay
    BY <2>e, <2>p, <2>4, <2>5, RowEdit
  <2>7. /\ credential' \in [Credentials -> [at : {"none", "new", "open", "expired", "gone"},
                                            of : Ids \cup {None}]]
        /\ \A l \in Credentials : credential'[l] # Unissued =>
             /\ credential'[l].at # "none"
             /\ credential'[l].of \in Ids /\ users'[credential'[l].of].at # "never"
        /\ IssuedStay
    BY <1>c, <2>1, <2>6, RetireKeeps
  <2>8. RowsOwned'
    BY <2>6, <2>7 DEF RowsOwned, Unissued, NoUser
  <2>9. HistoryTyped'
    BY <1>c, <2>1 DEF HistoryTyped
  <2>10. StoreTyped'
    BY <2>1, <2>6, <2>7 DEF StoreTyped
  <2>11. QED
    BY <2>1, <2>6, <2>7, <2>8, <2>9, <2>10
<1>4. ASSUME NEW t \in Links, InsertLink(c, t)
      PROVE  StoreKept
  <2>1. PICK u \in Ids : u = call[c].id /\ users[u].at # "never"
    BY <1>4, AccountOf DEF InsertLink, At, OfAccount, Phases
  <2>2. /\ UNCHANGED <<users, codes, tombstones, pending, attempts, sessions, workload,
                       redeemed, minted, tries, uncounted, stray, unrevoked>>
        /\ raced' \subseteq raced \cup {u}
    BY <1>4, <2>1 DEF InsertLink
  <2>3. /\ RowsStay
        /\ \A v \in Ids : users'[v].at = "never" => users'[v] = NoUser
        /\ \A v \in Ids \ {Owner} :
             users'[v].at # "never" => users'[v].email \in Emails /\ users'[v].name \in Names
        /\ \A v \in Ids : pending'[v] # None => users'[v].at # "never"
    BY <2>2, SameUsers
  <2>4. /\ credential' \in [Credentials -> [at : {"none", "new", "open", "expired", "gone"},
                                            of : Ids \cup {None}]]
        /\ \A l \in Credentials : credential'[l] # Unissued =>
             /\ credential'[l].at # "none"
             /\ credential'[l].of \in Ids /\ users'[credential'[l].of].at # "never"
        /\ IssuedStay
    <3>1. CASE UNCHANGED credential
      BY <2>3, <3>1 DEF StoreTyped, RowsOwned, RowsStay, IssuedStay
    <3>2. CASE ~UNCHANGED credential
      <4>1. /\ credential' = [l \in Credentials |->
                 IF l = t THEN [at |-> "new", of |-> u]
                 ELSE IF l \in call[c].rows THEN [credential[l] EXCEPT !.at = "gone"]
                 ELSE credential[l]]
        BY <1>4, <2>1, <3>2 DEF InsertLink
      <4>2. ASSUME NEW l \in Credentials
            PROVE  /\ credential'[l] \in [at : {"none", "new", "open", "expired", "gone"},
                                          of : Ids \cup {None}]
                   /\ credential'[l] # Unissued =>
                        /\ credential'[l].at # "none"
                        /\ credential'[l].of \in Ids /\ users'[credential'[l].of].at # "never"
                   /\ credential[l] # Unissued => credential'[l] # Unissued
        <5>1. credential[l] \in [at : {"none", "new", "open", "expired", "gone"},
                                 of : Ids \cup {None}]
          BY DEF StoreTyped
        <5>2. CASE l = t
          BY <2>1, <2>3, <4>1, <5>2 DEF RowsStay, Unissued
        <5>3. CASE l # t /\ l \in call[c].rows
          <6>1. credential'[l] = [credential[l] EXCEPT !.at = "gone"]
            BY <4>1, <5>3
          <6>2. credential'[l].at = "gone" /\ credential'[l].of = credential[l].of
            BY <5>1, <6>1
          <6>3. credential[l] # Unissued
            BY <1>4, <5>3 DEF InsertLink, At, Sound, CallsCarry
          <6>4. QED
            BY <2>3, <5>1, <6>1, <6>2, <6>3 DEF RowsOwned, RowsStay, Unissued
        <5>4. CASE l # t /\ l \notin call[c].rows
          BY <2>3, <4>1, <5>1, <5>4 DEF RowsOwned, RowsStay
        <5>5. QED
          BY <5>2, <5>3, <5>4
      <4>3. QED
        BY <4>1, <4>2 DEF IssuedStay
    <3>3. QED
      BY <3>1, <3>2
  <2>5. RowsOwned'
    BY <2>3, <2>4 DEF RowsOwned, Unissued, NoUser
  <2>6. StoreTyped' /\ HistoryTyped'
    BY <2>2, <2>4 DEF StoreTyped, HistoryTyped
  <2>7. QED
    BY <2>2, <2>3, <2>4, <2>5, <2>6
<1>5. QED
  BY <1>1, <1>2, <1>3, <1>4 DEF CredentialWrites

\* The statements on pending secrets and their counters.
LEMMA SetupWritesKeep ==
  ASSUME Sound, StoreTyped, HistoryTyped, RowsOwned, NEW c \in Calls
  PROVE  SetupWrites(c) => StoreKept
<1> USE AccountsAssumption DEF StoreKept
<1>k. ASSUME UNCHANGED <<users, credential, codes, tombstones, sessions, workload,
                         redeemed, raced, stray, unrevoked>>,
             pending' \in [Ids -> Secrets \cup {None}], attempts' \in [Ids -> Nat],
             tries' \in [Ids -> [Secrets -> Nat]], uncounted' \in [Ids -> [Secrets -> Nat]],
             minted' \subseteq Secrets,
             \A u \in Ids : pending'[u] # None => users[u].at # "never"
      PROVE  StoreKept
  BY <1>k DEF StoreTyped, HistoryTyped, RowsOwned, RowsStay, IssuedStay
<1>t. /\ pending \in [Ids -> Secrets \cup {None}] /\ attempts \in [Ids -> Nat]
      /\ tries \in [Ids -> [Secrets -> Nat]] /\ minted \subseteq Secrets
      /\ uncounted \in [Ids -> [Secrets -> Nat]]
      /\ \A u \in Ids : pending[u] # None => users[u].at # "never"
  BY DEF StoreTyped, HistoryTyped, RowsOwned
<1> HIDE DEF StoreKept
<1>1. ASSUME NEW s \in Secrets, StorePendingMFASecret(c, s)
      PROVE  StoreKept
  <2>1. PICK u \in Ids : u = call[c].id /\ users[u].at # "never"
    BY <1>1, AccountOf DEF StorePendingMFASecret, At, OfAccount, Phases
  <2>2. /\ minted' = minted \cup {s} /\ pending' = [pending EXCEPT ![u] = s]
        /\ UNCHANGED <<users, credential, codes, tombstones, attempts, sessions, workload,
                       redeemed, tries, uncounted, raced, stray, unrevoked>>
    BY <1>1, <2>1 DEF StorePendingMFASecret
  <2>3. /\ pending' \in [Ids -> Secrets \cup {None}]
        /\ \A v \in Ids : pending'[v] # None => users[v].at # "never"
    BY <1>t, <2>1, <2>2
  <2>4. QED
    BY <1>k, <1>t, <2>2, <2>3
<1>2. ASSUME ResetMFASetupAttempts(c)
      PROVE  StoreKept
  <2>1. PICK u \in Ids : u = call[c].id
    BY <1>2, AccountOf DEF ResetMFASetupAttempts, At, OfAccount, Phases
  <2>2. /\ attempts' = [attempts EXCEPT ![u] = 0]
        /\ tries' = [tries EXCEPT ![u] = [s \in Secrets |-> 0]]
        /\ uncounted' = [uncounted EXCEPT ![u] = [s \in Secrets |-> 0]]
        /\ UNCHANGED <<users, credential, codes, tombstones, pending, sessions, workload,
                       redeemed, minted, raced, stray, unrevoked>>
    BY <1>2, <2>1 DEF ResetMFASetupAttempts, ClearAttempts
  <2>3. /\ attempts' \in [Ids -> Nat] /\ tries' \in [Ids -> [Secrets -> Nat]]
        /\ uncounted' \in [Ids -> [Secrets -> Nat]]
    BY <1>t, <2>2
  <2>4. QED
    BY <1>k, <1>t, <2>2, <2>3
<1>3. ASSUME IncrementMFASetupAttempts(c)
      PROVE  StoreKept
  <2>1. PICK u \in Ids : u = call[c].id
    BY <1>3, AccountOf DEF IncrementMFASetupAttempts, At, OfAccount, Phases
  <2>2. PICK s \in Secrets : s = call[c].arg
    BY <1>3 DEF IncrementMFASetupAttempts, At, Sound, CallsCarry
  <2>3. /\ attempts' = [attempts EXCEPT ![u] = @ + 1]
        /\ tries' = [tries EXCEPT ![u][s] = @ + 1]
        /\ UNCHANGED <<users, credential, codes, tombstones, pending, sessions, workload,
                       redeemed, minted, uncounted, raced, stray, unrevoked>>
    BY <1>3, <2>1, <2>2 DEF IncrementMFASetupAttempts
  <2>4. attempts' \in [Ids -> Nat] /\ tries' \in [Ids -> [Secrets -> Nat]]
    BY <1>t, <2>3
  <2>5. QED
    BY <1>k, <1>t, <2>3, <2>4
<1>4. ASSUME RestorePending(c)
      PROVE  StoreKept
  <2>1. PICK u \in Ids : u = call[c].id /\ users[u].at # "never"
    BY <1>4, AccountOf DEF RestorePending, At, OfAccount, Phases
  <2>2. PICK s \in Secrets : s = call[c].arg
    BY <1>4 DEF RestorePending, At, Sound, CallsCarry
  <2>3. /\ pending' = [pending EXCEPT ![u] = s]
        /\ UNCHANGED <<users, credential, codes, tombstones, attempts, sessions, workload, history>>
    BY <1>4, <2>1, <2>2 DEF RestorePending
  <2>4. /\ pending' \in [Ids -> Secrets \cup {None}]
        /\ \A v \in Ids : pending'[v] # None => users[v].at # "never"
    BY <1>t, <2>1, <2>3
  <2>5. QED
    BY <1>k, <1>t, <2>3, <2>4 DEF history
<1>5. ASSUME NEW u \in Ids, NEW right \in BOOLEAN, ConfirmMFASetup(c, u, right)
      PROVE  StoreKept
  <2>1. /\ pending' = [pending EXCEPT ![u] = None]
        /\ UNCHANGED <<users, credential, codes, tombstones, attempts, sessions, workload, history>>
    BY <1>5 DEF ConfirmMFASetup
  <2>2. /\ pending' \in [Ids -> Secrets \cup {None}]
        /\ \A v \in Ids : pending'[v] # None => users[v].at # "never"
    BY <1>t, <2>1
  <2>3. QED
    BY <1>k, <1>t, <2>1, <2>2 DEF history
<1>6. ASSUME NEW counted \in BOOLEAN, IncrementFails(c, counted)
      PROVE  StoreKept
  <2>1. PICK u \in Ids : u = call[c].id
    BY <1>6, AccountOf DEF IncrementFails, At, OfAccount, Phases
  <2>2. PICK s \in Secrets : s = call[c].arg
    BY <1>6 DEF IncrementFails, At, Sound, CallsCarry
  <2>3. /\ attempts' \in {attempts, [attempts EXCEPT ![u] = @ + 1]}
        /\ tries' = [tries EXCEPT ![u][s] = @ + 1]
        /\ uncounted' = [uncounted EXCEPT ![u][s] = @ + 1]
        /\ UNCHANGED <<users, credential, codes, tombstones, pending, sessions, workload,
                       redeemed, minted, raced, stray, unrevoked>>
    BY <1>6, <2>1, <2>2 DEF IncrementFails
  <2>4. /\ attempts' \in [Ids -> Nat] /\ tries' \in [Ids -> [Secrets -> Nat]]
        /\ uncounted' \in [Ids -> [Secrets -> Nat]]
    BY <1>t, <2>3
  <2>5. QED
    BY <1>k, <1>t, <2>3, <2>4
<1>7. QED
  BY <1>1, <1>2, <1>3, <1>4, <1>5, <1>6 DEF SetupWrites

\* The statements on the second factor and its recovery codes.
LEMMA CodeWritesKeep ==
  ASSUME Sound, StoreTyped, HistoryTyped, RowsOwned, NEW c \in Calls
  PROVE  CodeWrites(c) => StoreKept
<1> USE AccountsAssumption DEF StoreKept
<1>k. ASSUME UNCHANGED <<credential, tombstones, pending, attempts, sessions, workload,
                         redeemed, minted, tries, uncounted, raced, unrevoked>>,
             codes' \in [Codes -> [at : {"none", "unused", "used", "gone"}, of : Ids \cup {None}]],
             stray' \subseteq Ids,
             \/ UNCHANGED users
             \/ \E u \in Ids, s \in Secrets \cup {None} :
                  users[u].at # "never" /\ users' = [users EXCEPT ![u].secret = s]
      PROVE  StoreKept
  <2>1. CASE UNCHANGED users
    BY <1>k, <2>1 DEF StoreTyped, HistoryTyped, RowsOwned, RowsStay, IssuedStay
  <2>2. CASE ~UNCHANGED users
    <3>1. PICK u \in Ids, s \in Secrets \cup {None} :
            users[u].at # "never" /\ users' = [users EXCEPT ![u].secret = s]
      BY <1>k, <2>2
    <3> DEFINE row == [users[u] EXCEPT !.secret = s]
    <3>2. users[u] \in [at : {"never", "live", "gone"}, email : Emails \cup {None},
                        name : Names \cup {None}, verified : BOOLEAN,
                        secret : Secrets \cup {None}]
      BY DEF StoreTyped
    <3>3. /\ row \in [at : {"never", "live", "gone"}, email : Emails \cup {None},
                      name : Names \cup {None}, verified : BOOLEAN, secret : Secrets \cup {None}]
          /\ row.at = users[u].at /\ row.email = users[u].email /\ row.name = users[u].name
      BY <3>2
    <3>4. users' = [users EXCEPT ![u] = row]
      BY <3>1 DEF StoreTyped
    <3> HIDE DEF row
    <3>5. u # Owner => row.email \in Emails /\ row.name \in Names
      BY <3>1, <3>3 DEF RowsOwned
    <3>6. UNCHANGED pending /\ row.at # "never"
      BY <1>k, <3>1, <3>3
    <3>7. /\ users' \in [Ids -> [at : {"never", "live", "gone"}, email : Emails \cup {None},
                                 name : Names \cup {None}, verified : BOOLEAN,
                                 secret : Secrets \cup {None}]]
          /\ \A v \in Ids : users'[v].at = "never" => users'[v] = NoUser
          /\ \A v \in Ids \ {Owner} :
               users'[v].at # "never" => users'[v].email \in Emails /\ users'[v].name \in Names
          /\ \A v \in Ids : pending'[v] # None => users'[v].at # "never"
          /\ RowsStay
      BY <3>3, <3>4, <3>5, <3>6, RowEdit
    <3>8. RowsOwned'
      BY <1>k, <3>7 DEF RowsOwned, RowsStay, Unissued, NoUser
    <3>9. StoreTyped' /\ HistoryTyped' /\ IssuedStay
      BY <1>k, <3>7 DEF StoreTyped, HistoryTyped, IssuedStay
    <3>10. QED
      BY <1>k, <3>7, <3>8, <3>9
  <2>3. QED
    BY <2>1, <2>2
<1>t. /\ codes \in [Codes -> [at : {"none", "unused", "used", "gone"}, of : Ids \cup {None}]]
      /\ stray \subseteq Ids
  BY DEF StoreTyped, HistoryTyped
<1> HIDE DEF StoreKept
<1>1. ASSUME NEW new \in NewCodes, EnableMFA(c, new)
      PROVE  StoreKept
  <2>1. PICK u \in Ids : u = call[c].id /\ users[u].at # "never"
    BY <1>1, AccountOf DEF EnableMFA, At, OfAccount, Phases
  <2>2. PICK s \in Secrets : s = call[c].arg
    BY <1>1 DEF EnableMFA, At, Sound, CallsCarry
  <2>3. /\ \/ UNCHANGED <<users, codes>>
           \/ /\ users' = [users EXCEPT ![u].secret = s]
              /\ codes' = [k \in Codes |-> IF k \in new THEN [at |-> "unused", of |-> u] ELSE codes[k]]
        /\ UNCHANGED <<credential, tombstones, pending, attempts, sessions, workload, history>>
    BY <1>1, <2>1, <2>2 DEF EnableMFA
  <2>4. codes' \in [Codes -> [at : {"none", "unused", "used", "gone"}, of : Ids \cup {None}]]
    BY <1>t, <2>3
  <2>5. \/ UNCHANGED users
        \/ \E v \in Ids, r \in Secrets \cup {None} :
             users[v].at # "never" /\ users' = [users EXCEPT ![v].secret = r]
    BY <2>1, <2>3
  <2>6. UNCHANGED <<redeemed, minted, tries, uncounted, raced, stray, unrevoked>>
    BY <2>3 DEF history
  <2>7. QED
    BY <1>k, <1>t, <2>3, <2>4, <2>5, <2>6
<1>2. ASSUME NEW new \in NewCodes, ReplaceRecoveryCodes(c, new)
      PROVE  StoreKept
  <2>1. call[c].id \in Ids
    BY <1>2, AccountOf DEF ReplaceRecoveryCodes, At, OfAccount, Phases
  <2>2. codes' \in [Codes -> [at : {"none", "unused", "used", "gone"}, of : Ids \cup {None}]]
    BY <1>2, <1>t, <2>1, NewCodesAre, ReplacedTyped DEF ReplaceRecoveryCodes
  <2>3. UNCHANGED <<users, credential, tombstones, pending, attempts, sessions, workload, history>>
    BY <1>2 DEF ReplaceRecoveryCodes
  <2>4. UNCHANGED <<redeemed, minted, tries, uncounted, raced, stray, unrevoked>>
    BY <2>3 DEF history
  <2>5. QED
    BY <1>k, <1>t, <2>2, <2>3, <2>4
<1>3. ASSUME UseRecoveryCode(c)
      PROVE  StoreKept
  <2>1. PICK k \in Codes : k = call[c].arg
    BY <1>3 DEF UseRecoveryCode, At, Sound, CallsCarry
  <2>2. /\ codes' = [codes EXCEPT ![k].at = IF @ = "gone" THEN @ ELSE "used"]
        /\ UNCHANGED <<users, credential, tombstones, pending, attempts, sessions, workload, history>>
    BY <1>3, <2>1 DEF UseRecoveryCode
  <2>3. codes' \in [Codes -> [at : {"none", "unused", "used", "gone"}, of : Ids \cup {None}]]
    BY <1>t, <2>2
  <2>4. UNCHANGED <<redeemed, minted, tries, uncounted, raced, stray, unrevoked>>
    BY <2>2 DEF history
  <2>5. QED
    BY <1>k, <1>t, <2>2, <2>3, <2>4
<1>4. ASSUME ClearMFA(c)
      PROVE  StoreKept
  <2>1. PICK u \in Ids : u = call[c].id /\ users[u].at # "never"
    BY <1>4, AccountOf DEF ClearMFA, At, OfAccount, Phases
  <2>2. /\ users' = users \/ users' = [users EXCEPT ![u].secret = None]
        /\ codes' = Replaced(u, {}) /\ stray' \subseteq stray \cup {u}
        /\ UNCHANGED <<credential, tombstones, pending, attempts, sessions, workload,
                       redeemed, minted, tries, uncounted, raced, unrevoked>>
    BY <1>4, <2>1 DEF ClearMFA
  <2>3. codes' \in [Codes -> [at : {"none", "unused", "used", "gone"}, of : Ids \cup {None}]]
    BY <2>2, ReplacedTyped
  <2>4. \/ UNCHANGED users
        \/ \E v \in Ids, r \in Secrets \cup {None} :
             users[v].at # "never" /\ users' = [users EXCEPT ![v].secret = r]
    BY <2>1, <2>2
  <2>5. QED
    BY <1>k, <1>t, <2>2, <2>3, <2>4
<1>5. QED
  BY <1>1, <1>2, <1>3, <1>4 DEF CodeWrites

\* Logouts, gateway tickets, expiry and retention.
LEMMA PassageKeeps ==
  ASSUME Sound, StoreTyped, HistoryTyped, RowsOwned
  PROVE  GatewayRequests \/ Passage => StoreKept
<1> USE AccountsAssumption
<1>1. ASSUME NEW u \in Ids, Logout(u)
      PROVE  StoreKept
  BY <1>1 DEF Logout, RevokeAll, StoreKept, StoreTyped, HistoryTyped, RowsOwned, RowsStay,
     IssuedStay, history
<1>2. ASSUME NEW u \in Ids, NEW t \in GatewayTickets, CreateGatewayTicket(u, t)
      PROVE  StoreKept
  <2>1. /\ users[u].at # "never" /\ t \in Fresh(GatewayTickets) /\ Issue(t, u, "open")
        /\ UNCHANGED <<users, codes, tombstones, pending, attempts, sessions, workload, history>>
    BY <1>2 DEF CreateGatewayTicket, RowsOwned
  <2>2. /\ RowsStay
        /\ \A v \in Ids : users'[v].at = "never" => users'[v] = NoUser
        /\ \A v \in Ids \ {Owner} :
             users'[v].at # "never" => users'[v].email \in Emails /\ users'[v].name \in Names
        /\ \A v \in Ids : pending'[v] # None => users'[v].at # "never"
    BY <2>1, SameUsers
  <2>3. users'[u].at # "never" /\ GatewayTickets \subseteq Credentials
    BY <2>1 DEF Credentials
  <2>4. /\ credential' \in [Credentials -> [at : {"none", "new", "open", "expired", "gone"},
                                            of : Ids \cup {None}]]
        /\ \A l \in Credentials : credential'[l] # Unissued =>
             /\ credential'[l].at # "none"
             /\ credential'[l].of \in Ids /\ users'[credential'[l].of].at # "never"
        /\ IssuedStay
    BY <2>1, <2>2, <2>3, IssueKeeps
  <2>5. RowsOwned'
    BY <2>2, <2>4 DEF RowsOwned, Unissued, NoUser
  <2>6. StoreTyped' /\ HistoryTyped'
    BY <2>1, <2>4 DEF StoreTyped, HistoryTyped, history
  <2>7. QED
    BY <2>1, <2>2, <2>4, <2>5, <2>6 DEF StoreKept
<1>3. ASSUME NEW t \in Credentials, Redeemable(t), NEW at \in {"open", "expired", "gone"},
             credential' = [credential EXCEPT ![t].at = at],
             redeemed' \in [Credentials -> Nat],
             UNCHANGED <<users, codes, tombstones, pending, attempts, sessions, workload,
                         minted, tries, uncounted, raced, stray, unrevoked>>
      PROVE  StoreKept
  <2>1. /\ RowsStay
        /\ \A v \in Ids : users'[v].at = "never" => users'[v] = NoUser
        /\ \A v \in Ids \ {Owner} :
             users'[v].at # "never" => users'[v].email \in Emails /\ users'[v].name \in Names
        /\ \A v \in Ids : pending'[v] # None => users'[v].at # "never"
    BY <1>3, SameUsers
  <2>2. /\ credential' \in [Credentials -> [at : {"none", "new", "open", "expired", "gone"},
                                            of : Ids \cup {None}]]
        /\ \A l \in Credentials : credential'[l] # Unissued =>
             /\ credential'[l].at # "none"
             /\ credential'[l].of \in Ids /\ users'[credential'[l].of].at # "never"
        /\ IssuedStay
    BY <1>3, <2>1, RetireKeeps
  <2>3. RowsOwned'
    BY <2>1, <2>2 DEF RowsOwned, Unissued, NoUser
  <2>4. StoreTyped' /\ HistoryTyped'
    BY <1>3, <2>2 DEF StoreTyped, HistoryTyped
  <2>5. QED
    BY <1>3, <2>1, <2>2, <2>3, <2>4 DEF StoreKept
<1>4. ASSUME NEW t \in GatewayTickets, ConsumeGatewayTicket(t)
      PROVE  StoreKept
  <2>1. t \in Credentials
    BY DEF Credentials
  <2>2. /\ Redeemable(t) /\ credential' = [credential EXCEPT ![t].at = "gone"]
        /\ redeemed' = [redeemed EXCEPT ![t] = @ + 1]
        /\ UNCHANGED <<users, codes, tombstones, pending, attempts, sessions, workload,
                       minted, tries, uncounted, raced, stray, unrevoked>>
    BY <1>4 DEF ConsumeGatewayTicket, Redeem
  <2>3. redeemed' \in [Credentials -> Nat]
    BY <2>1, <2>2 DEF HistoryTyped
  <2>4. QED
    BY <1>3, <2>1, <2>2, <2>3
<1>5. ASSUME NEW t \in Credentials, Age(t)
      PROVE  StoreKept
  <2>1. /\ Redeemable(t)
        /\ UNCHANGED <<users, codes, tombstones, pending, attempts, sessions, workload, history>>
        /\ credential' = [credential EXCEPT ![t].at =
             IF @ = "new" THEN "open" ELSE IF t \in Links THEN "expired" ELSE "gone"]
    BY <1>5 DEF Age
  <2>2. PICK at \in {"open", "expired", "gone"} :
          at = IF credential[t].at = "new" THEN "open"
               ELSE IF t \in Links THEN "expired" ELSE "gone"
    OBVIOUS
  <2>3. credential' = [credential EXCEPT ![t].at = at]
    BY <2>1, <2>2 DEF StoreTyped
  <2>4. UNCHANGED <<minted, tries, uncounted, raced, stray, unrevoked>> /\ redeemed' \in [Credentials -> Nat]
    BY <2>1 DEF HistoryTyped, history
  <2>5. QED
    BY <1>3, <2>1, <2>3, <2>4
<1>6. ASSUME NEW u \in Ids, ExpirePending(u)
      PROVE  StoreKept
  BY <1>6 DEF ExpirePending, StoreKept, StoreTyped, HistoryTyped, RowsOwned, RowsStay,
     IssuedStay, history
<1>7. ASSUME NEW u \in Ids, ExpireAttempts(u)
      PROVE  StoreKept
  <2>1. /\ attempts' \in [Ids -> Nat] /\ tries' \in [Ids -> [Secrets -> Nat]]
        /\ uncounted' \in [Ids -> [Secrets -> Nat]]
    BY <1>7 DEF ExpireAttempts, ClearAttempts, StoreTyped, HistoryTyped
  <2>2. UNCHANGED <<users, credential, codes, tombstones, pending, sessions, workload,
                    redeemed, minted, raced, stray, unrevoked>>
    BY <1>7 DEF ExpireAttempts
  <2>3. QED
    BY <2>1, <2>2 DEF StoreKept, StoreTyped, HistoryTyped, RowsOwned, RowsStay, IssuedStay
<1>8. ASSUME NEW old \in SUBSET tombstones, PurgeTombstones(old)
      PROVE  StoreKept
  BY <1>8 DEF PurgeTombstones, StoreKept, StoreTyped, HistoryTyped, RowsOwned, RowsStay,
     IssuedStay, history
<1>9. QED
  BY <1>1, <1>2, <1>4, <1>5, <1>6, <1>7, <1>8 DEF GatewayRequests, Passage

LEMMA TypeParts ==
  TypeOK <=> StoreTyped /\ HistoryTyped /\ call \in [Calls -> Call] /\ workload \in Workloads
BY DEF TypeOK, StoreTyped, HistoryTyped

LEMMA StepKeepsStore ==
  ASSUME Sound, [Next]_vars
  PROVE  StoreKept
<1>1. StoreTyped /\ HistoryTyped /\ RowsOwned
  BY TypeParts DEF Sound
<1>2. QED
  BY <1>1, StepCases, QuietKeeps, AccountWritesKeep, CredentialWritesKeep, SetupWritesKeep,
     CodeWritesKeep, PassageKeeps

\* The facts a call carries in r, one at a time.
Carries(r) ==
  /\ r.pc \in OfAccount => r.id \in Ids /\ users[r.id].at # "never"
  /\ r.pc \in {"username", "create"} =>
       r.kind = "register" /\ r.email \in Emails /\ r.name \in Names
  /\ r.kind = "register" => r.pc \in {"username", "create", "issue"}
  /\ r.pc \in {"enable", "increment", "restore"} => r.arg \in Secrets
  /\ r.pc = "use" => r.arg \in Codes
  /\ r.pc = "delete" => r.kind = "delete" /\ r.id # Owner
  /\ r.pc = "insert" => \A t \in r.rows : credential[t] # Unissued

LEMMA StepSound ==
  ASSUME Sound, [Next]_vars
  PROVE  Sound'
<1> USE AccountsAssumption
<1>1. StoreKept
  BY StepKeepsStore
<1>2. call' \in [Calls -> Call]
  BY StepMoves
<1>3. TypeOK' /\ RowsOwned'
  BY <1>1, <1>2 DEF TypeOK, StoreKept, StoreTyped, HistoryTyped, Sound
<1>4. RowsStay /\ IssuedStay
  BY <1>1 DEF StoreKept
<1>5. ASSUME NEW d \in Calls, call'[d] = call[d]
      PROVE  Carries(call[d])'
  <2>1. call[d].rows \subseteq Credentials
    BY DEF Sound, TypeOK, Call, Credentials
  <2>2. QED
    BY <1>4, <1>5, <2>1 DEF Carries, Sound, CallsCarry, RowsStay, IssuedStay
<1>6. ASSUME NEW c \in Calls, CallStep(c)
      PROVE  Carries(call[c])'
  <2>1. Carries(call[c]) /\ pending \in [Ids -> Secrets \cup {None}]
    BY DEF Carries, Sound, CallsCarry, TypeOK
  <2>2. call[c].rows \subseteq Credentials
    BY DEF Sound, TypeOK, Call, Credentials
  <2>3. ASSUME NEW v \in Ids PROVE \A t \in Unconsumed(v) : credential[t] # Unissued
    BY DEF Unconsumed, Unissued
  <2>4. QED
    BY <1>4, <1>6, <2>1, <2>2, <2>3
       DEF CallStep, Carries, OfAccount, Phases, RowsStay, IssuedStay, NoCall, store, UnusedCodes
<1>7. ASSUME NEW old \in SUBSET tombstones, PurgeTombstones(old), NEW c \in Calls
      PROVE  Carries(call[c])'
  <2>1. call[c] \in Call
    BY DEF Sound, TypeOK
  <2>2. /\ call'[c].pc = call[c].pc /\ call'[c].id = call[c].id
        /\ call'[c].kind = call[c].kind /\ call'[c].email = call[c].email
        /\ call'[c].name = call[c].name /\ call'[c].arg = call[c].arg
        /\ call'[c].rows = call[c].rows /\ UNCHANGED <<users, credential>>
    BY <1>7, <2>1 DEF PurgeTombstones, Call
  <2>3. QED
    BY <2>2 DEF Carries, Sound, CallsCarry
<1>8. CallsCarry'
  <2>1. \A c \in Calls : Carries(call[c])'
    BY <1>5, <1>6, <1>7, StepMoves DEF OthersStay
  <2>2. QED
    BY <2>1 DEF CallsCarry, Carries
<1>9. QED
  BY <1>3, <1>8 DEF Sound

LEMMA InitSound ==
  ASSUME Init
  PROVE  Sound
<1> USE AccountsAssumption
<1>1. /\ StoreTyped /\ HistoryTyped
  BY DEF Init, StoreTyped, HistoryTyped, NoUser, Unissued
<1>2. call \in [Calls -> Call] /\ \A c \in Calls : call[c] = NoCall
  BY NoCallTyped DEF Init
<1>3. TypeOK
  BY <1>1, <1>2, TypeParts DEF Init
<1>4. CallsCarry
  BY <1>2 DEF CallsCarry, NoCall, OfAccount, Phases
<1>5. RowsOwned
  BY DEF Init, RowsOwned, NoUser, Unissued
<1>6. QED
  BY <1>3, <1>4, <1>5 DEF Sound

\* Every row, key, counter and call stays in its type, and a call that works
\* for an account works for one that was inserted.
THEOREM AccountsSound == Spec => []Sound
<1>1. Init => Sound
  BY InitSound
<1>2. Sound /\ [Next]_vars => Sound'
  BY StepSound
<1>3. QED
  BY <1>1, <1>2, PTL DEF Spec

THEOREM TypeCorrect == Spec => []TypeOK
<1>1. Sound => TypeOK
  BY DEF Sound
<1>2. QED
  BY <1>1, AccountsSound, PTL

-----------------------------------------------------------------------------
(* What each group of statements leaves alone. *)

LEMMA AccountFrame ==
  ASSUME NEW c \in Calls
  PROVE  AccountWrites(c) => UNCHANGED <<pending, attempts, redeemed, minted, tries, uncounted, raced, stray>>
<1>1. ASSUME NEW u \in Ids, NEW t \in Links, CreateUser(c, u, t)
      PROVE  UNCHANGED <<pending, attempts, redeemed, minted, tries, uncounted, raced, stray>>
  BY <1>1 DEF CreateUser, store, history
<1>2. ASSUME IssueTokens(c) \/ Revokes(c) \/ DeleteWithTombstones(c)
      PROVE  UNCHANGED <<pending, attempts, redeemed, minted, tries, uncounted, raced, stray>>
  BY <1>2 DEF IssueTokens, Revokes, RevokeSessions, RevocationFails, DeleteWithTombstones, history
<1>3. QED
  BY <1>1, <1>2 DEF AccountWrites

LEMMA CredentialFrame ==
  ASSUME NEW c \in Calls
  PROVE  CredentialWrites(c) =>
           UNCHANGED <<codes, tombstones, pending, attempts, sessions, minted, tries, uncounted, stray, unrevoked>>
<1>1. ASSUME NEW t \in MFATickets, VerifyMFA(c, t) \/ CreateMFATicket(c, t)
      PROVE  UNCHANGED <<codes, tombstones, pending, attempts, sessions, minted, tries, uncounted, stray, unrevoked>>
  BY <1>1 DEF VerifyMFA, CreateMFATicket, history
<1>2. ASSUME NEW t \in Links, VerifyEmail(c, t)
      PROVE  UNCHANGED <<codes, tombstones, pending, attempts, sessions, minted, tries, uncounted, stray, unrevoked>>
  BY <1>2 DEF VerifyEmail
<1>3. ASSUME NEW t \in Links, InsertLink(c, t)
      PROVE  UNCHANGED <<codes, tombstones, pending, attempts, sessions, minted, tries, uncounted, stray, unrevoked>>
  BY <1>3 DEF InsertLink
<1>4. QED
  BY <1>1, <1>2, <1>3 DEF CredentialWrites

LEMMA SetupFrame ==
  ASSUME NEW c \in Calls
  PROVE  SetupWrites(c) =>
           UNCHANGED <<users, credential, codes, tombstones, sessions, redeemed, raced, stray, unrevoked>>
<1>1. ASSUME NEW s \in Secrets, StorePendingMFASecret(c, s)
      PROVE  UNCHANGED <<users, credential, codes, tombstones, sessions, redeemed, raced, stray, unrevoked>>
  BY <1>1 DEF StorePendingMFASecret
<1>2. ASSUME \/ ResetMFASetupAttempts(c) \/ IncrementMFASetupAttempts(c) \/ RestorePending(c)
             \/ \E counted \in BOOLEAN : IncrementFails(c, counted)
      PROVE  UNCHANGED <<users, credential, codes, tombstones, sessions, redeemed, raced, stray, unrevoked>>
  BY <1>2 DEF ResetMFASetupAttempts, IncrementMFASetupAttempts, IncrementFails, RestorePending,
     history
<1>3. ASSUME NEW u \in Ids, NEW right \in BOOLEAN, ConfirmMFASetup(c, u, right)
      PROVE  UNCHANGED <<users, credential, codes, tombstones, sessions, redeemed, raced, stray, unrevoked>>
  BY <1>3 DEF ConfirmMFASetup, history
<1>4. QED
  BY <1>1, <1>2, <1>3 DEF SetupWrites

LEMMA CodeFrame ==
  ASSUME NEW c \in Calls
  PROVE  CodeWrites(c) => UNCHANGED <<credential, tombstones, pending, attempts, sessions,
                                      redeemed, minted, tries, uncounted, raced, unrevoked>>
<1>1. ASSUME NEW new \in NewCodes, EnableMFA(c, new) \/ ReplaceRecoveryCodes(c, new)
      PROVE  UNCHANGED <<credential, tombstones, pending, attempts, sessions,
                         redeemed, minted, tries, uncounted, raced, unrevoked>>
  BY <1>1 DEF EnableMFA, ReplaceRecoveryCodes, history
<1>2. ASSUME UseRecoveryCode(c) \/ ClearMFA(c)
      PROVE  UNCHANGED <<credential, tombstones, pending, attempts, sessions,
                         redeemed, minted, tries, uncounted, raced, unrevoked>>
  BY <1>2 DEF UseRecoveryCode, ClearMFA, history
<1>3. QED
  BY <1>1, <1>2 DEF CodeWrites

LEMMA GatewayFrame ==
  GatewayRequests => UNCHANGED <<users, codes, tombstones, pending, attempts, call,
                                 minted, tries, uncounted, raced, stray, unrevoked>>
<1>1. ASSUME NEW u \in Ids, Logout(u)
      PROVE  UNCHANGED <<users, codes, tombstones, pending, attempts, call,
                         minted, tries, uncounted, raced, stray, unrevoked>>
  BY <1>1 DEF Logout, history
<1>2. ASSUME NEW u \in Ids, NEW t \in GatewayTickets,
             CreateGatewayTicket(u, t) \/ ConsumeGatewayTicket(t)
      PROVE  UNCHANGED <<users, codes, tombstones, pending, attempts, call,
                         minted, tries, uncounted, raced, stray, unrevoked>>
  BY <1>2 DEF CreateGatewayTicket, ConsumeGatewayTicket, history
<1>3. ASSUME NEW t \in GatewayTickets, ConsumeGatewayTicket(t)
      PROVE  UNCHANGED <<users, codes, tombstones, pending, attempts, call,
                         minted, tries, uncounted, raced, stray, unrevoked>>
  BY <1>3 DEF ConsumeGatewayTicket
<1>4. QED
  BY <1>1, <1>2, <1>3 DEF GatewayRequests

LEMMA PassageFrame ==
  Passage => UNCHANGED <<users, codes, sessions, redeemed, minted, raced, stray, unrevoked>>
<1>1. ASSUME NEW old \in SUBSET tombstones, PurgeTombstones(old)
      PROVE  UNCHANGED <<users, codes, sessions, redeemed, minted, raced, stray, unrevoked>>
  BY <1>1 DEF PurgeTombstones, history
<1>2. ASSUME NEW t \in Credentials, Age(t)
      PROVE  UNCHANGED <<users, codes, sessions, redeemed, minted, raced, stray, unrevoked>>
  BY <1>2 DEF Age, history
<1>3. ASSUME NEW u \in Ids, ExpirePending(u) \/ ExpireAttempts(u)
      PROVE  UNCHANGED <<users, codes, sessions, redeemed, minted, raced, stray, unrevoked>>
  BY <1>3 DEF ExpirePending, ExpireAttempts, history
<1>4. QED
  BY <1>1, <1>2, <1>3 DEF Passage

-----------------------------------------------------------------------------
(* Recovery codes (auth.Service.tryRecoveryCode). *)

\* A code that was used or withdrawn stays so.
LEMMA DeadStaysDead ==
  ASSUME Sound, [Next]_vars
  PROVE  DeadCodes \subseteq DeadCodes'
<1>t. StoreTyped /\ HistoryTyped /\ RowsOwned
  BY TypeParts DEF Sound
<1>1. SUFFICES ASSUME NEW k \in Codes, codes[k].at \in {"used", "gone"}
               PROVE  codes'[k].at \in {"used", "gone"}
  BY DEF DeadCodes
<1>2. CASE UNCHANGED codes
  BY <1>1, <1>2
<1>k. codes[k] \in [at : {"none", "unused", "used", "gone"}, of : Ids \cup {None}]
  BY <1>t DEF StoreTyped
<1>3. ASSUME NEW u \in Ids, NEW new \in SUBSET Codes, k \notin new,
             codes' = Replaced(u, new)
      PROVE  codes'[k].at \in {"used", "gone"}
  <2>1. codes'[k] = IF codes[k].of = u THEN [codes[k] EXCEPT !.at = "gone"] ELSE codes[k]
    BY <1>3 DEF Replaced
  <2>2. QED
    BY <1>1, <1>k, <2>1
<1>n. ASSUME NEW new \in NewCodes PROVE new \in SUBSET Codes /\ k \notin new
  BY <1>1, NewCodesAre DEF Unissued
<1>4. ASSUME NEW c \in Calls, AccountWrites(c), ~UNCHANGED codes
      PROVE  codes'[k].at \in {"used", "gone"}
  <2>1. DeleteWithTombstones(c) /\ codes' = Replaced(call[c].id, {})
    BY <1>4 DEF AccountWrites, CreateUser, IssueTokens, Revokes, RevokeSessions,
       RevocationFails, DeleteWithTombstones, store
  <2>2. call[c].id \in Ids
    BY <2>1, AccountOf DEF DeleteWithTombstones, At, OfAccount, Phases
  <2>3. QED
    BY <1>3, <2>1, <2>2
<1>5. ASSUME NEW c \in Calls, NEW new \in NewCodes, EnableMFA(c, new)
      PROVE  codes'[k].at \in {"used", "gone"}
  BY <1>1, <1>5, <1>n DEF EnableMFA
<1>6. ASSUME NEW c \in Calls, NEW new \in NewCodes, ReplaceRecoveryCodes(c, new)
      PROVE  codes'[k].at \in {"used", "gone"}
  <2>1. call[c].id \in Ids
    BY <1>6, AccountOf DEF ReplaceRecoveryCodes, At, OfAccount, Phases
  <2>2. QED
    BY <1>1, <1>3, <1>6, <1>n, <2>1 DEF ReplaceRecoveryCodes
<1>7. ASSUME NEW c \in Calls, ClearMFA(c)
      PROVE  codes'[k].at \in {"used", "gone"}
  <2>1. call[c].id \in Ids
    BY <1>7, AccountOf DEF ClearMFA, At, OfAccount, Phases
  <2>2. QED
    BY <1>3, <1>7, <2>1 DEF ClearMFA
<1>8. ASSUME NEW c \in Calls, UseRecoveryCode(c)
      PROVE  codes'[k].at \in {"used", "gone"}
  BY <1>1, <1>8, <1>k, <1>t DEF UseRecoveryCode, StoreTyped
<1>9. ASSUME NEW c \in Calls, CodeWrites(c)
      PROVE  codes'[k].at \in {"used", "gone"}
  BY <1>5, <1>6, <1>7, <1>8, <1>9 DEF CodeWrites
<1>10. QED
  BY <1>2, <1>4, <1>9, StepCases, CredentialFrame, SetupFrame, GatewayFrame, PassageFrame
     DEF store

LEMMA StepSpent ==
  ASSUME Sound, SpentInv, [Next]_vars
  PROVE  SpentInv'
<1>1. DeadCodes \subseteq DeadCodes'
  BY DeadStaysDead
<1>2. SUFFICES ASSUME NEW d \in Calls
               PROVE  /\ call'[d].pc \in {"factor", "recover"} => call'[d].past \subseteq DeadCodes'
                      /\ call'[d].pc = "use" => call'[d].arg \notin call'[d].past
  BY DEF SpentInv, At
<1>3. /\ call[d].pc \in {"factor", "recover"} => call[d].past \subseteq DeadCodes
      /\ call[d].pc = "use" => call[d].arg \notin call[d].past
  BY DEF SpentInv, At
<1>4. CASE call'[d] = call[d]
  BY <1>1, <1>3, <1>4
<1>5. ASSUME CallStep(d)
      PROVE  /\ call'[d].pc \in {"factor", "recover"} => call'[d].past \subseteq DeadCodes'
             /\ call'[d].pc = "use" => call'[d].arg \notin call'[d].past
  <2>1. \A u \in Ids \cup {None} : UnusedCodes(u) \cap DeadCodes = {}
    BY DEF UnusedCodes, DeadCodes
  <2>2. call[d].id \in Ids \cup {None}
    BY DEF Sound, TypeOK, Call
  <2>3. UNCHANGED codes => DeadCodes' = DeadCodes
    BY DEF DeadCodes
  <2>4. QED
    BY <1>1, <1>3, <1>5, <2>1, <2>2, <2>3 DEF CallStep, NoCall
<1>6. ASSUME NEW old \in SUBSET tombstones, PurgeTombstones(old)
      PROVE  /\ call'[d].pc \in {"factor", "recover"} => call'[d].past \subseteq DeadCodes'
             /\ call'[d].pc = "use" => call'[d].arg \notin call'[d].past
  <2>1. call[d] \in Call
    BY DEF Sound, TypeOK
  <2>2. /\ call'[d].pc = call[d].pc /\ call'[d].arg = call[d].arg
        /\ call'[d].past \subseteq call[d].past
    BY <1>6, <2>1 DEF PurgeTombstones, Call
  <2>3. QED
    BY <1>1, <1>3, <2>2
<1>7. QED
  BY <1>4, <1>5, <1>6, StepMoves DEF OthersStay

\* A recovery code that was spent or withdrawn before a login or a DisableMFA
\* began never gets it through tryRecoveryCode.
THEOREM SpentCodesNeverPass == Spec => []SpentCodesRefused
<1>1. Init => SpentInv
  BY DEF Init, SpentInv, At, NoCall
<1>2. Sound /\ SpentInv /\ [Next]_vars => SpentInv'
  BY StepSpent
<1>3. SpentInv => SpentCodesRefused
  BY DEF SpentInv, SpentCodesRefused
<1>4. QED
  BY <1>1, <1>2, <1>3, AccountsSound, PTL DEF Spec

-----------------------------------------------------------------------------
(* Recovery codes without a second factor (user.DisableMFA against          *)
(* RegenerateRecoveryCodes).                                                *)

\* A step whose effect on users, codes and stray keeps both parts of StrayInv
\* for the calls that were there.
StrayKept ==
  /\ \A v \in Ids : users'[v].secret = None /\ UnusedCodes(v)' # {} => v \in stray'
  /\ \A d \in Calls :
       LET v == call[d].id IN
       call[d].pc = "replace" /\ users'[v].at = "live" /\ users'[v].secret = None => v \in stray'

LEMMA WritesStray ==
  ASSUME Sound, StrayInv, [Next]_vars
  PROVE  StrayKept
<1> USE AccountsAssumption
<1>t. StoreTyped /\ RowsOwned /\ CallsCarry
  BY TypeParts DEF Sound
<1>s. /\ \A v \in Ids : users[v].secret = None /\ UnusedCodes(v) # {} => v \in stray
      /\ \A d \in Calls :
           LET v == call[d].id IN
           call[d].pc = "replace" /\ users[v].at = "live" /\ users[v].secret = None => v \in stray
  BY DEF StrayInv, CodesGoWithMFA, At, Exists
<1>r. \A d \in Calls : call[d].pc = "replace" => call[d].id \in Ids /\ users[call[d].id].at # "never"
  BY <1>t DEF CallsCarry, OfAccount, Phases
\* no account loses its secret and none gets codes
<1>k. ASSUME UNCHANGED stray,
             \A v \in Ids : users'[v].secret = users[v].secret \/ users'[v].secret # None,
             \A v \in Ids : users'[v].at = "live" => users[v].at \in {"live", "never"},
             \A v \in Ids : UnusedCodes(v)' \subseteq UnusedCodes(v) \/ users'[v].secret # None
                            \/ v \in stray
      PROVE  StrayKept
  BY <1>k, <1>s, <1>r DEF StrayKept
<1>u. UNCHANGED codes => \A v \in Ids : UnusedCodes(v)' = UnusedCodes(v)
  BY DEF UnusedCodes
<1>1. ASSUME UNCHANGED <<users, codes, stray>>
      PROVE  StrayKept
  BY <1>1, <1>k, <1>u, <1>t DEF StoreTyped
\* the codes of one account are replaced
<1>c. ASSUME NEW u \in Ids, NEW new \in SUBSET Codes, codes' = Replaced(u, new)
      PROVE  \A v \in Ids : v # u \/ new = {} => UnusedCodes(v)' \subseteq UnusedCodes(v)
  <2>1. ASSUME NEW v \in Ids, v # u \/ new = {}, NEW k \in Codes,
               codes'[k] = [at |-> "unused", of |-> v]
        PROVE  codes[k] = [at |-> "unused", of |-> v]
    <3>1. codes'[k] = IF k \in new THEN [at |-> "unused", of |-> u]
                      ELSE IF codes[k].of = u THEN [codes[k] EXCEPT !.at = "gone"] ELSE codes[k]
      BY <1>c DEF Replaced
    <3>2. k \notin new
      BY <2>1, <3>1
    <3>3. codes[k].of # u
      <4>1. SUFFICES ASSUME codes[k].of = u PROVE FALSE
        OBVIOUS
      <4>2. codes'[k].at = "gone"
        BY <3>1, <3>2, <4>1, <1>t DEF StoreTyped
      <4>3. QED
        BY <2>1, <4>2
    <3>4. QED
      BY <2>1, <3>1, <3>2, <3>3
  <2>2. ASSUME NEW v \in Ids, v # u \/ new = {}
        PROVE  UnusedCodes(v)' \subseteq UnusedCodes(v)
    BY <2>1, <2>2 DEF UnusedCodes
  <2>3. QED
    BY <2>2
<1>e. ASSUME NEW u \in Ids, codes' = Replaced(u, {})
      PROVE  UnusedCodes(u)' = {}
  <2>1. ASSUME NEW k \in Codes PROVE codes'[k] # [at |-> "unused", of |-> u]
    <3>1. codes'[k] = IF codes[k].of = u THEN [codes[k] EXCEPT !.at = "gone"] ELSE codes[k]
      BY <1>e DEF Replaced
    <3>2. codes[k] \in [at : {"none", "unused", "used", "gone"}, of : Ids \cup {None}]
      BY <1>t DEF StoreTyped
    <3>3. CASE codes[k].of = u
      <4>1. codes'[k].at = "gone"
        BY <3>1, <3>2, <3>3
      <4>2. QED
        BY <4>1
    <3>4. CASE codes[k].of # u
      BY <3>1, <3>4
    <3>5. QED
      BY <3>3, <3>4
  <2>2. QED
    BY <2>1 DEF UnusedCodes
<1>2. ASSUME NEW c \in Calls, AccountWrites(c)
      PROVE  StrayKept
  <2>0. UNCHANGED stray
    BY <1>2, AccountFrame
  <2>1. CASE UNCHANGED <<users, codes>>
    BY <2>0, <2>1, <1>1
  <2>2. ASSUME NEW u \in Ids, NEW t \in Links, CreateUser(c, u, t), ~UNCHANGED <<users, codes>>
        PROVE  StrayKept
    <3>1. /\ users[u] = NoUser /\ UNCHANGED codes
          /\ users' = [users EXCEPT ![u] = [NoUser EXCEPT !.at = "live", !.email = call[c].email,
                                                          !.name = call[c].name]]
      BY <2>2 DEF CreateUser, store
    <3>2. users'[u].secret = None /\ users[u].secret = None /\ users[u].at = "never"
      BY <3>1, <1>t DEF StoreTyped, NoUser
    <3>3. \A v \in Ids : v # u => users'[v] = users[v]
      BY <3>1, <1>t DEF StoreTyped
    <3>4. QED
      BY <2>0, <3>1, <3>2, <3>3, <1>k, <1>u
  <2>3. ASSUME DeleteWithTombstones(c), ~UNCHANGED <<users, codes>>
        PROVE  StrayKept
    <3>1. PICK u \in Ids : u = call[c].id
      BY <2>3, AccountOf DEF DeleteWithTombstones, At, OfAccount, Phases
    <3>2. /\ users' = [users EXCEPT ![u].at = "gone", ![u].secret = None]
          /\ codes' = Replaced(u, {})
      BY <2>3, <3>1 DEF DeleteWithTombstones
    <3>3. users'[u].at = "gone" /\ \A v \in Ids : v # u => users'[v] = users[v]
      BY <3>2, <1>t DEF StoreTyped
    <3>4. UnusedCodes(u)' = {} /\ \A v \in Ids : UnusedCodes(v)' \subseteq UnusedCodes(v)
      BY <3>2, <1>c, <1>e
    <3>5. QED
      BY <2>0, <3>3, <3>4, <1>s, <1>r DEF StrayKept
  <2>4. CASE IssueTokens(c) \/ Revokes(c)
    BY <2>4, <2>1 DEF IssueTokens, Revokes, RevokeSessions, RevocationFails
  <2>5. QED
    BY <1>2, <2>1, <2>2, <2>3, <2>4 DEF AccountWrites
<1>3. ASSUME NEW c \in Calls, CredentialWrites(c)
      PROVE  StrayKept
  <2>0. UNCHANGED <<codes, stray>>
    BY <1>3, CredentialFrame
  <2>1. CASE UNCHANGED users
    BY <2>0, <2>1, <1>1
  <2>2. ASSUME NEW t \in Links, VerifyEmail(c, t)
        PROVE  StrayKept
    <3>1. ASSUME NEW v \in Ids
          PROVE  users'[v].secret = users[v].secret /\ users'[v].at = users[v].at
      BY <2>2, <1>t DEF VerifyEmail, StoreTyped
    <3>2. \A v \in Ids : users[v].at \in {"never", "live", "gone"}
      BY <1>t DEF StoreTyped
    <3>3. QED
      BY <2>0, <3>1, <3>2, <1>k, <1>u
  <2>3. ASSUME NEW t \in MFATickets, VerifyMFA(c, t) \/ CreateMFATicket(c, t)
        PROVE  StrayKept
    BY <2>1, <2>3 DEF VerifyMFA, CreateMFATicket
  <2>4. ASSUME NEW t \in Links, InsertLink(c, t)
        PROVE  StrayKept
    BY <2>1, <2>4 DEF InsertLink
  <2>5. QED
    BY <1>3, <2>2, <2>3, <2>4 DEF CredentialWrites
<1>4. ASSUME NEW c \in Calls, NEW new \in NewCodes, EnableMFA(c, new)
      PROVE  StrayKept
  <2>0. UNCHANGED stray
    BY <1>4 DEF EnableMFA, history
  <2>1. CASE UNCHANGED <<users, codes>>
    BY <2>0, <2>1, <1>1
  <2>2. CASE ~UNCHANGED <<users, codes>>
    <3>1. PICK u \in Ids : u = call[c].id
      BY <1>4, AccountOf DEF EnableMFA, At, OfAccount, Phases
    <3>2. PICK s \in Secrets : s = call[c].arg
      BY <1>4, <1>t DEF EnableMFA, At, CallsCarry
    <3>3. /\ users' = [users EXCEPT ![u].secret = s] /\ users[u].at = "live"
          /\ codes' = [k \in Codes |-> IF k \in new THEN [at |-> "unused", of |-> u] ELSE codes[k]]
      BY <1>4, <2>2, <3>1, <3>2 DEF EnableMFA, Exists
    <3>4. /\ users'[u].secret = s /\ users'[u].at = "live"
          /\ \A v \in Ids : v # u => users'[v] = users[v]
      BY <3>3, <1>t DEF StoreTyped
    <3>5. \A v \in Ids : v # u => UnusedCodes(v)' \subseteq UnusedCodes(v)
      BY <3>3 DEF UnusedCodes
    <3>6. QED
      BY <2>0, <3>2, <3>3, <3>4, <3>5, <1>k, <1>t DEF StoreTyped
  <2>3. QED
    BY <2>1, <2>2
<1>5. ASSUME NEW c \in Calls, NEW new \in NewCodes, ReplaceRecoveryCodes(c, new)
      PROVE  StrayKept
  <2>0. UNCHANGED <<users, stray>>
    BY <1>5 DEF ReplaceRecoveryCodes, history
  <2>1. PICK u \in Ids : u = call[c].id
    BY <1>5, AccountOf DEF ReplaceRecoveryCodes, At, OfAccount, Phases
  <2>2. CASE UNCHANGED codes
    BY <2>0, <2>2, <1>1
  <2>3. CASE ~UNCHANGED codes
    <3>1. users[u].at = "live" /\ codes' = Replaced(u, new) /\ call[c].pc = "replace"
      BY <1>5, <2>1, <2>3 DEF ReplaceRecoveryCodes, Exists, At
    <3>2. users[u].secret # None \/ u \in stray
      BY <2>1, <3>1, <1>s
    <3>3. \A v \in Ids : v # u => UnusedCodes(v)' \subseteq UnusedCodes(v)
      BY <3>1, <1>c, NewCodesAre
    <3>4. QED
      BY <2>0, <3>2, <3>3, <1>k, <1>t DEF StoreTyped
  <2>4. QED
    BY <2>2, <2>3
<1>6. ASSUME NEW c \in Calls, UseRecoveryCode(c)
      PROVE  StrayKept
  <2>0. UNCHANGED <<users, stray>>
    BY <1>6 DEF UseRecoveryCode, history
  <2>1. PICK k \in Codes : k = call[c].arg
    BY <1>6, <1>t DEF UseRecoveryCode, At, CallsCarry
  <2>2. codes' = [codes EXCEPT ![k].at = IF @ = "gone" THEN @ ELSE "used"]
    BY <1>6, <2>1 DEF UseRecoveryCode
  <2>3. codes'[k].at \in {"gone", "used"} /\ \A j \in Codes : j # k => codes'[j] = codes[j]
    BY <2>2, <1>t DEF StoreTyped
  <2>4. \A v \in Ids : UnusedCodes(v)' \subseteq UnusedCodes(v)
    BY <2>3 DEF UnusedCodes
  <2>5. QED
    BY <2>0, <2>4, <1>k, <1>t DEF StoreTyped
<1>7. ASSUME NEW c \in Calls, ClearMFA(c)
      PROVE  StrayKept
  <2>1. PICK u \in Ids : u = call[c].id
    BY <1>7, AccountOf DEF ClearMFA, At, OfAccount, Phases
  <2>2. /\ users' = IF users[u].at = "live" THEN [users EXCEPT ![u].secret = None] ELSE users
        /\ codes' = Replaced(u, {})
        /\ stray' = stray \cup {o \in {u} : \E d \in Calls : call[d].pc = "replace" /\ call[d].id = o}
    BY <1>7, <2>1 DEF ClearMFA, Exists, At
  <2>3. /\ users'[u].at = users[u].at
        /\ \A v \in Ids : v # u => users'[v] = users[v]
    BY <2>2, <1>t DEF StoreTyped
  <2>4. UnusedCodes(u)' = {} /\ \A v \in Ids : UnusedCodes(v)' \subseteq UnusedCodes(v)
    BY <2>2, <1>c, <1>e
  <2>5. QED
    BY <2>2, <2>3, <2>4, <1>s, <1>r DEF StrayKept
<1>8. ASSUME NEW c \in Calls, CodeWrites(c)
      PROVE  StrayKept
  BY <1>4, <1>5, <1>6, <1>7, <1>8 DEF CodeWrites
<1>9. QED
  BY <1>1, <1>2, <1>3, <1>8, StepCases, SetupFrame, GatewayFrame, PassageFrame
     DEF store, history

LEMMA StepStray ==
  ASSUME Sound, StrayInv, [Next]_vars
  PROVE  StrayInv'
<1>1. StrayKept
  BY WritesStray
<1>2. CodesGoWithMFA'
  BY <1>1 DEF StrayKept, CodesGoWithMFA
<1>3. SUFFICES ASSUME NEW d \in Calls, call'[d].pc = "replace", users'[call'[d].id].at = "live",
                      users'[call'[d].id].secret = None
               PROVE  call'[d].id \in stray'
  BY <1>2 DEF StrayInv, At, Exists
<1>4. CASE call'[d].pc = call[d].pc /\ call'[d].id = call[d].id
  BY <1>1, <1>3, <1>4 DEF StrayKept
<1>5. CASE CallStep(d) /\ call'[d] # call[d]
  <2>1. users[call'[d].id].secret # None /\ UNCHANGED <<store, workload, history>>
    BY <1>3, <1>5 DEF CallStep, NoCall
  <2>2. QED
    BY <1>3, <2>1 DEF store
<1>6. ASSUME NEW old \in SUBSET tombstones, PurgeTombstones(old)
      PROVE  call'[d].pc = call[d].pc /\ call'[d].id = call[d].id
  <2>1. call[d] \in Call
    BY DEF Sound, TypeOK
  <2>2. QED
    BY <1>6, <2>1 DEF PurgeTombstones, Call
<1>7. QED
  BY <1>4, <1>5, <1>6, StepMoves DEF OthersStay

\* An account without a second factor has usable recovery codes only if a
\* regeneration was between its check and its transaction when the factor was
\* removed.
THEOREM CodesOutliveMFAByRace == Spec => []CodesGoWithMFA
<1>1. Init => StrayInv
  BY DEF Init, StrayInv, CodesGoWithMFA, UnusedCodes, Unissued, At, NoCall
<1>2. Sound /\ StrayInv /\ [Next]_vars => StrayInv'
  BY StepStray
<1>3. StrayInv => CodesGoWithMFA
  BY DEF StrayInv
<1>4. QED
  BY <1>1, <1>2, <1>3, AccountsSound, PTL DEF Spec

-----------------------------------------------------------------------------
(* Guesses at a pending secret (auth.Service.ConfirmMFASetup). *)

\* Unless the pending secrets or the counters change, no call starts to
\* confirm a secret and none goes on with it.
LEMMA ConfirmStays ==
  ASSUME Sound, [Next]_vars, UNCHANGED <<pending, tries>>
  PROVE  \A d \in Calls : call'[d].pc \in {"enable", "increment", "restore"} =>
           /\ call'[d].pc = call[d].pc /\ call'[d].id = call[d].id
           /\ call'[d].arg = call[d].arg
<1>1. SUFFICES ASSUME NEW d \in Calls, call'[d].pc \in {"enable", "increment", "restore"}
               PROVE  /\ call'[d].pc = call[d].pc /\ call'[d].id = call[d].id
                      /\ call'[d].arg = call[d].arg
  OBVIOUS
<1>2. pending \in [Ids -> Secrets \cup {None}] /\ tries \in [Ids -> [Secrets -> Nat]]
  BY DEF Sound, TypeOK
<1>3. CASE CallStep(d) /\ call'[d] # call[d]
  <2>1. \/ /\ call'[d].id \in Ids /\ pending[call'[d].id] # None
           /\ pending' = [pending EXCEPT ![call'[d].id] = None]
        \/ /\ call[d].pc = "increment"
           /\ tries' = [tries EXCEPT ![call[d].id][call[d].arg] = @ + 1]
    BY <1>1, <1>3 DEF CallStep, NoCall
  <2>2. call[d].pc = "increment" => call[d].id \in Ids /\ call[d].arg \in Secrets
    BY DEF Sound, CallsCarry, OfAccount, Phases
  <2>3. ASSUME NEW u \in Ids, NEW s \in Secrets, tries' = [tries EXCEPT ![u][s] = @ + 1]
        PROVE  FALSE
    <3>1. tries'[u][s] = tries[u][s] + 1 /\ tries[u][s] \in Nat
      BY <1>2, <2>3
    <3>2. QED
      BY <3>1
  <2>4. QED
    BY <1>2, <2>1, <2>2, <2>3
<1>4. ASSUME NEW old \in SUBSET tombstones, PurgeTombstones(old)
      PROVE  /\ call'[d].pc = call[d].pc /\ call'[d].id = call[d].id
             /\ call'[d].arg = call[d].arg
  <2>1. call[d] \in Call
    BY DEF Sound, TypeOK
  <2>2. QED
    BY <1>4, <2>1 DEF PurgeTombstones, Call
<1>5. QED
  BY <1>3, <1>4, StepMoves DEF OthersStay

\* The same, when the calls that confirm are the ones that did.
ConfirmSame ==
  \A d \in Calls : call'[d].pc \in {"enable", "increment", "restore"} =>
    /\ call'[d].pc = call[d].pc /\ call'[d].id = call[d].id
    /\ call'[d].arg = call[d].arg

LEMMA SetupGuess ==
  ASSUME Sound, GuessInv, NEW c \in Calls
  PROVE  SetupWrites(c) => GuessInv'
<1> USE AccountsAssumption
<1>t. /\ TypeOK /\ pending \in [Ids -> Secrets \cup {None}] /\ attempts \in [Ids -> Nat]
      /\ tries \in [Ids -> [Secrets -> Nat]] /\ uncounted \in [Ids -> [Secrets -> Nat]]
  BY DEF Sound, TypeOK
<1>1. ASSUME NEW s \in Secrets, StorePendingMFASecret(c, s)
      PROVE  GuessInv'
  <2>1. PICK u \in Ids : u = call[c].id
    BY <1>1, AccountOf DEF StorePendingMFASecret, At, OfAccount, Phases
  <2>2. /\ s \notin minted /\ minted' = minted \cup {s} /\ pending' = [pending EXCEPT ![u] = s]
        /\ Goto(c, "reset") /\ UNCHANGED <<attempts, tries, uncounted>>
    BY <1>1, <2>1, DrawIn DEF StorePendingMFASecret
  <2>3. OthersStay(c) /\ call'[c].pc = "reset"
    BY <2>2, <1>t, GotoMoves DEF Phases
  <2>4. pending'[u] = s /\ \A v \in Ids : v # u => pending'[v] = pending[v]
    BY <2>2, <1>t
  <2>5. ASSUME NEW d \in Calls, NEW r \in Secrets, Confirming(d, r)'
        PROVE  Confirming(d, r) /\ call'[d] = call[d]
    BY <2>3, <2>5 DEF Confirming, OthersStay
  <2>6. tries[u][s] = 0 /\ tries[u][s] < MaxSetupAttempts + uncounted[u][s]
    BY <2>2, <1>t DEF GuessInv
  <2>7. QED
    BY <2>2, <2>4, <2>5, <2>6 DEF GuessInv, At
<1>2. ASSUME ResetMFASetupAttempts(c)
      PROVE  GuessInv'
  <2>1. PICK u \in Ids : u = call[c].id
    BY <1>2, AccountOf DEF ResetMFASetupAttempts, At, OfAccount, Phases
  <2>2. /\ attempts' = [attempts EXCEPT ![u] = 0]
        /\ tries' = [tries EXCEPT ![u] = [s \in Secrets |-> 0]]
        /\ uncounted' = [uncounted EXCEPT ![u] = [s \in Secrets |-> 0]]
        /\ Return(c) /\ UNCHANGED <<pending, minted>>
    BY <1>2, <2>1 DEF ResetMFASetupAttempts, ClearAttempts
  <2>3. OthersStay(c) /\ call'[c] = NoCall
    BY <2>2, <1>t, ReturnMoves
  <2>4. ASSUME NEW d \in Calls, NEW r \in Secrets, Confirming(d, r)'
        PROVE  Confirming(d, r) /\ call'[d] = call[d]
    BY <2>3, <2>4 DEF Confirming, OthersStay, NoCall
  <2>5. /\ attempts'[u] = 0 /\ \A r \in Secrets : tries'[u][r] = 0 /\ uncounted'[u][r] = 0
        /\ \A v \in Ids : v # u => /\ attempts'[v] = attempts[v] /\ tries'[v] = tries[v]
                                   /\ uncounted'[v] = uncounted[v]
    BY <2>2, <1>t
  <2>6. QED
    BY <2>2, <2>4, <2>5 DEF GuessInv, At
<1>3. ASSUME \/ IncrementMFASetupAttempts(c)
             \/ \E counted \in BOOLEAN : IncrementFails(c, counted)
      PROVE  GuessInv'
  <2>0. call[c].pc = "increment"
    BY <1>3 DEF IncrementMFASetupAttempts, IncrementFails, At
  <2>1. PICK u \in Ids : u = call[c].id
    BY <2>0, AccountOf DEF OfAccount, Phases
  <2>2. PICK s \in Secrets : s = call[c].arg
    BY <2>0 DEF Sound, CallsCarry
  <2>3. /\ tries' = [tries EXCEPT ![u][s] = @ + 1]
        /\ \/ /\ attempts' = [attempts EXCEPT ![u] = @ + 1] /\ UNCHANGED uncounted
              /\ \/ Return(c)
                 \/ Goto(c, "restore") /\ ~(attempts[u] + 1 >= MaxSetupAttempts)
           \/ /\ attempts' \in {attempts, [attempts EXCEPT ![u] = @ + 1]}
              /\ uncounted' = [uncounted EXCEPT ![u][s] = @ + 1]
              /\ Goto(c, "restore")
        /\ UNCHANGED <<pending, minted>>
    BY <1>3, <2>1, <2>2 DEF IncrementMFASetupAttempts, IncrementFails
  <2>4. /\ OthersStay(c)
        /\ \/ call'[c] = NoCall
           \/ call'[c].pc = "restore" /\ call'[c].id = u /\ call'[c].arg = s
    BY <2>1, <2>2, <2>3, <1>t, GotoMoves, ReturnMoves DEF Phases
  <2>5. /\ tries'[u][s] = tries[u][s] + 1
        /\ \A r \in Secrets : r # s => tries'[u][r] = tries[u][r] /\ uncounted'[u][r] = uncounted[u][r]
        /\ \A v \in Ids : v # u => /\ attempts'[v] = attempts[v] /\ tries'[v] = tries[v]
                                   /\ uncounted'[v] = uncounted[v]
        /\ attempts'[u] \in {attempts[u], attempts[u] + 1}
        /\ uncounted'[u][s] \in {uncounted[u][s], uncounted[u][s] + 1}
    BY <2>3, <1>t
  <2>6. /\ Confirming(c, s) /\ s \in minted
        /\ tries[u][s] < MaxSetupAttempts + uncounted[u][s]
        /\ tries[u][s] <= attempts[u] + uncounted[u][s]
    BY <2>0, <2>1, <2>2 DEF Confirming, GuessInv, At
  <2>n. tries[u][s] \in Nat /\ attempts[u] \in Nat /\ uncounted[u][s] \in Nat
    BY <1>t
  \* what the call itself does to the counts of its secret
  <2>c. /\ tries'[u][s] <= attempts'[u] + uncounted'[u][s]
        /\ tries'[u][s] <= MaxSetupAttempts + uncounted'[u][s]
        /\ call'[c] # NoCall => tries'[u][s] < MaxSetupAttempts + uncounted'[u][s]
    <3>1. CASE /\ attempts' = [attempts EXCEPT ![u] = @ + 1] /\ UNCHANGED uncounted
               /\ \/ Return(c)
                  \/ Goto(c, "restore") /\ ~(attempts[u] + 1 >= MaxSetupAttempts)
      <4>1. attempts'[u] = attempts[u] + 1 /\ uncounted'[u][s] = uncounted[u][s]
        BY <1>t, <3>1
      <4>2. call'[c] # NoCall => attempts[u] + 1 < MaxSetupAttempts
        BY <1>t, <2>n, <3>1, ReturnMoves
      <4>3. QED
        BY <2>5, <2>6, <2>n, <4>1, <4>2
    <3>2. CASE uncounted' = [uncounted EXCEPT ![u][s] = @ + 1]
      <4>1. uncounted'[u][s] = uncounted[u][s] + 1
        BY <1>t, <3>2
      <4>2. QED
        BY <2>5, <2>6, <2>n, <4>1
    <3>3. QED
      BY <2>3, <3>1, <3>2
  <2>7. ASSUME NEW d \in Calls, NEW r \in Secrets, Confirming(d, r)'
        PROVE  /\ Confirming(d, r)
               /\ \/ d # c /\ call'[d] = call[d]
                  \/ d = c /\ r = s /\ call'[c].id = u /\ call'[c] # NoCall
    BY <2>4, <2>6, <2>7 DEF Confirming, OthersStay, NoCall
  <2>8. ASSUME NEW v \in Ids, NEW r \in Secrets
        PROVE  /\ tries'[v][r] <= attempts'[v] + uncounted'[v][r]
               /\ tries'[v][r] <= MaxSetupAttempts + uncounted'[v][r]
               /\ r \notin minted' => tries'[v][r] = 0
               /\ pending'[v] = r => tries'[v][r] < MaxSetupAttempts + uncounted'[v][r]
    <3>1. /\ tries[v][r] <= attempts[v] + uncounted[v][r]
          /\ tries[v][r] <= MaxSetupAttempts + uncounted[v][r]
          /\ r \notin minted => tries[v][r] = 0
          /\ pending[v] = r => tries[v][r] < MaxSetupAttempts + uncounted[v][r]
          /\ pending[v] # s
      BY <2>6 DEF GuessInv
    <3>2. /\ tries[v][r] \in Nat /\ attempts[v] \in Nat /\ uncounted[v][r] \in Nat
          /\ UNCHANGED <<pending, minted>>
      BY <1>t, <2>3
    <3>3. CASE v = u /\ r = s
      BY <2>6, <2>c, <3>1, <3>2, <3>3
    <3>4. CASE v # u \/ r # s
      BY <2>5, <3>1, <3>2, <3>4
    <3>5. QED
      BY <3>3, <3>4
  <2>9. ASSUME NEW v \in Ids, NEW r \in Secrets, NEW d \in Calls,
               Confirming(d, r)', call'[d].id = v, call'[d].pc # "enable"
        PROVE  tries'[v][r] < MaxSetupAttempts + uncounted'[v][r]
    <3>1. CASE d = c
      BY <2>7, <2>9, <2>c, <3>1
    <3>2. CASE d # c
      <4>1. Confirming(d, r) /\ call[d].id = v /\ call[d].pc # "enable"
        BY <2>7, <2>9, <3>2
      <4>2. tries[v][r] < MaxSetupAttempts + uncounted[v][r] /\ r # s
        BY <2>6, <3>2, <4>1 DEF GuessInv, At
      <4>3. QED
        BY <2>5, <4>2
    <3>3. QED
      BY <3>1, <3>2
  <2>10. QED
    BY <2>3, <2>7, <2>8, <2>9 DEF GuessInv, At
<1>4. ASSUME RestorePending(c)
      PROVE  GuessInv'
  <2>1. PICK u \in Ids : u = call[c].id
    BY <1>4, AccountOf DEF RestorePending, At, OfAccount, Phases
  <2>2. PICK s \in Secrets : s = call[c].arg
    BY <1>4 DEF RestorePending, At, Sound, CallsCarry
  <2>3. /\ call[c].pc = "restore" /\ pending' = [pending EXCEPT ![u] = s] /\ Return(c)
        /\ UNCHANGED <<attempts, tries, uncounted, minted>>
    BY <1>4, <2>1, <2>2 DEF RestorePending, At, history
  <2>4. OthersStay(c) /\ call'[c] = NoCall
    BY <2>3, <1>t, ReturnMoves
  <2>5. ASSUME NEW d \in Calls, NEW r \in Secrets, Confirming(d, r)'
        PROVE  Confirming(d, r) /\ call'[d] = call[d] /\ d # c
    BY <2>4, <2>5 DEF Confirming, OthersStay, NoCall
  <2>6. pending'[u] = s /\ \A v \in Ids : v # u => pending'[v] = pending[v]
    BY <2>3, <1>t
  <2>7. Confirming(c, s) /\ s \in minted /\ tries[u][s] < MaxSetupAttempts + uncounted[u][s]
    BY <2>1, <2>2, <2>3 DEF Confirming, GuessInv, At
  <2>8. QED
    BY <2>3, <2>5, <2>6, <2>7 DEF GuessInv, At
<1>5. ASSUME NEW u \in Ids, NEW right \in BOOLEAN, ConfirmMFASetup(c, u, right)
      PROVE  GuessInv'
  <2>1. PICK s \in Secrets : s = pending[u]
    BY <1>5, <1>t DEF ConfirmMFASetup
  <2> DEFINE r == [NoCall EXCEPT !.pc = IF right THEN "enable" ELSE "increment",
                                 !.id = u, !.arg = pending[u]]
  <2>2. r \in Call /\ r.id = u /\ r.arg = s
    BY <2>1 DEF NoCall, Call, Kinds, Phases
  <2>3. /\ Begin(c, "confirm", r) /\ pending' = [pending EXCEPT ![u] = None]
        /\ UNCHANGED <<attempts, tries, uncounted, minted>>
    BY <1>5 DEF ConfirmMFASetup, history
  <2> HIDE DEF r
  <2>4. OthersStay(c) /\ call'[c].id = u /\ call'[c].arg = s
    BY <2>2, <2>3, <1>t, BeginMoves DEF Kinds
  <2>5. ASSUME NEW d \in Calls, NEW q \in Secrets, Confirming(d, q)'
        PROVE  (d # c /\ Confirming(d, q) /\ call'[d] = call[d]) \/ (d = c /\ q = s)
    BY <2>4, <2>5 DEF Confirming, OthersStay
  <2>6. pending'[u] = None /\ \A v \in Ids : v # u => pending'[v] = pending[v]
    BY <2>3, <1>t
  <2>7. s \in minted /\ tries[u][s] < MaxSetupAttempts + uncounted[u][s]
    BY <2>1 DEF GuessInv
  <2>8. /\ \A v \in Ids : v # u => pending[v] # s
        /\ \A d \in Calls : ~Confirming(d, s)
    BY <2>1 DEF GuessInv
  <2>9. QED
    BY <2>3, <2>4, <2>5, <2>6, <2>7, <2>8 DEF GuessInv, At
<1>6. QED
  BY <1>1, <1>2, <1>3, <1>4, <1>5 DEF SetupWrites

LEMMA StepGuess ==
  ASSUME Sound, GuessInv, [Next]_vars
  PROVE  GuessInv'
<1> USE AccountsAssumption
<1>1. ASSUME UNCHANGED <<pending, attempts, minted, tries, uncounted>>
      PROVE  GuessInv'
  <2>1. ConfirmSame
    BY <1>1, ConfirmStays DEF ConfirmSame
  <2>2. ASSUME NEW d \in Calls, NEW r \in Secrets, Confirming(d, r)'
        PROVE  Confirming(d, r) /\ call'[d].id = call[d].id /\ call'[d].pc = call[d].pc
    BY <2>1, <2>2 DEF Confirming, ConfirmSame
  <2>3. QED
    BY <1>1, <2>2 DEF GuessInv, At
<1>2. ASSUME Passage
      PROVE  GuessInv'
  <2>1. ASSUME NEW u \in Ids, ExpirePending(u)
        PROVE  GuessInv'
    BY <2>1 DEF ExpirePending, GuessInv, Confirming, At, Sound, TypeOK, history
  <2>2. ASSUME NEW u \in Ids, ExpireAttempts(u)
        PROVE  GuessInv'
    <3>1. /\ attempts'[u] = 0 /\ \A r \in Secrets : tries'[u][r] = 0 /\ uncounted'[u][r] = 0
          /\ \A v \in Ids : v # u => /\ attempts'[v] = attempts[v] /\ tries'[v] = tries[v]
                                     /\ uncounted'[v] = uncounted[v]
          /\ UNCHANGED <<pending, minted, call>>
      BY <2>2 DEF ExpireAttempts, ClearAttempts, Sound, TypeOK
    <3>2. QED
      BY <3>1 DEF GuessInv, Confirming, At
  <2>3. ASSUME NEW old \in SUBSET tombstones, PurgeTombstones(old)
        PROVE  UNCHANGED <<pending, attempts, minted, tries, uncounted>>
    BY <2>3 DEF PurgeTombstones, history
  <2>4. ASSUME NEW t \in Credentials, Age(t)
        PROVE  UNCHANGED <<pending, attempts, minted, tries, uncounted>>
    BY <2>4 DEF Age, history
  <2>5. QED
    BY <1>1, <1>2, <2>1, <2>2, <2>3, <2>4 DEF Passage
<1>3. QED
  BY <1>1, <1>2, StepCases, SetupGuess, AccountFrame, CredentialFrame, CodeFrame, GatewayFrame
     DEF store, history

\* However confirmations, restorations and new setups interleave, at most
\* maxMFASetupAttempts wrong codes, and one more per failed increment, are taken
\* for one pending secret between two clearings of the user's counter.
THEOREM SetupGuessesAreBounded == Spec => []SetupGuessesBounded
<1>1. Init => GuessInv
  BY AccountsAssumption DEF Init, GuessInv, Confirming, At, NoCall
<1>2. Sound /\ GuessInv /\ [Next]_vars => GuessInv'
  BY StepGuess
<1>3. GuessInv => SetupGuessesBounded
  BY DEF GuessInv, SetupGuessesBounded
<1>4. QED
  BY <1>1, <1>2, <1>3, AccountsSound, PTL DEF Spec

-----------------------------------------------------------------------------
(* Tombstones (auth.Service.Register against DeleteAccount). *)

\* Only retention takes tombstones away.
LEMMA TombstonesGrow ==
  ASSUME [Next]_vars
  PROVE  \/ tombstones \subseteq tombstones'
         \/ \E old \in SUBSET tombstones : PurgeTombstones(old)
<1>1. ASSUME NEW c \in Calls, AccountWrites(c)
      PROVE  tombstones \subseteq tombstones'
  <2>1. ASSUME NEW u \in Ids, NEW t \in Links, CreateUser(c, u, t)
        PROVE  tombstones \subseteq tombstones'
    BY <2>1 DEF CreateUser, store
  <2>2. ASSUME IssueTokens(c) \/ Revokes(c) \/ DeleteWithTombstones(c)
        PROVE  tombstones \subseteq tombstones'
    BY <2>2 DEF IssueTokens, Revokes, RevokeSessions, RevocationFails, DeleteWithTombstones
  <2>3. QED
    BY <1>1, <2>1, <2>2 DEF AccountWrites
<1>2. ASSUME Passage
      PROVE  \/ tombstones \subseteq tombstones'
             \/ \E old \in SUBSET tombstones : PurgeTombstones(old)
  <2>1. ASSUME NEW t \in Credentials, Age(t)
        PROVE  tombstones \subseteq tombstones'
    BY <2>1 DEF Age
  <2>2. ASSUME NEW u \in Ids, ExpirePending(u) \/ ExpireAttempts(u)
        PROVE  tombstones \subseteq tombstones'
    BY <2>2 DEF ExpirePending, ExpireAttempts
  <2>3. QED
    BY <1>2, <2>1, <2>2 DEF Passage
<1>3. QED
  BY <1>1, <1>2, StepCases, CredentialFrame, SetupFrame, CodeFrame, GatewayFrame DEF store

\* What TombInv says of one call.
Unburied(r) ==
  r.kind = "register" =>
    /\ <<"email", r.email>> \notin r.past
    /\ r.pc = "username" => r.past \subseteq tombstones
    /\ r.pc # "username" => <<"username", r.name>> \notin r.past

LEMMA StepTomb ==
  ASSUME Sound, TombInv, [Next]_vars
  PROVE  TombInv'
<1>1. SUFFICES ASSUME NEW d \in Calls
               PROVE  Unburied(call[d])'
  BY DEF TombInv, Unburied, At
<1>2. Unburied(call[d])
  BY DEF TombInv, Unburied, At
<1>3. ASSUME NEW old \in SUBSET tombstones, PurgeTombstones(old)
      PROVE  Unburied(call[d])'
  <2>1. call[d] \in Call
    BY DEF Sound, TypeOK
  <2>2. /\ call'[d].pc = call[d].pc /\ call'[d].kind = call[d].kind
        /\ call'[d].email = call[d].email /\ call'[d].name = call[d].name
        /\ call'[d].past = call[d].past \ old /\ tombstones' = tombstones \ old
    BY <1>3, <2>1 DEF PurgeTombstones, Call
  <2>3. QED
    BY <1>2, <2>2 DEF Unburied
<1>4. ASSUME tombstones \subseteq tombstones', call'[d] = call[d]
      PROVE  Unburied(call[d])'
  BY <1>2, <1>4 DEF Unburied
<1>5. ASSUME tombstones \subseteq tombstones', CallStep(d)
      PROVE  Unburied(call[d])'
  <2>1. call[d].kind = "register" => call[d].pc \in {"username", "create", "issue"}
    BY DEF Sound, CallsCarry
  <2>2. QED
    BY <1>2, <1>5, <2>1 DEF CallStep, Unburied, NoCall, store
<1>6. QED
  BY <1>3, <1>4, <1>5, StepMoves, TombstonesGrow DEF OthersStay

\* No registration takes an email or a username whose tombstone stood when it
\* began and was not purged since.
THEOREM TombstonesAreHeld == Spec => []TombstonesHold
<1>1. Init => TombInv
  BY DEF Init, TombInv, NoCall
<1>2. Sound /\ TombInv /\ [Next]_vars => TombInv'
  BY StepTomb
<1>3. TombInv => TombstonesHold
  BY DEF TombInv, TombstonesHold, At
<1>4. QED
  BY <1>1, <1>2, <1>3, AccountsSound, PTL DEF Spec

-----------------------------------------------------------------------------
(* Sessions of a deleted account (auth.Service.DeleteAccount). *)

\* An account goes only by DeleteWithTombstones, whose call has yet to revoke.
LEMMA GoneBy ==
  ASSUME Sound, [Next]_vars, NEW u \in Ids, users[u].at # "gone", users'[u].at = "gone"
  PROVE  \E c \in Calls :
           call'[c].kind = "delete" /\ call'[c].id = u /\ call'[c].pc = "revoke"
<1>t. TypeOK /\ StoreTyped
  BY TypeParts DEF Sound
<1>1. ASSUME NEW c \in Calls, AccountWrites(c)
      PROVE  call'[c].kind = "delete" /\ call'[c].id = u /\ call'[c].pc = "revoke"
  <2>1. ASSUME NEW v \in Ids, NEW t \in Links, CreateUser(c, v, t)
        PROVE  FALSE
    <3> DEFINE row == [NoUser EXCEPT !.at = "live", !.email = call[c].email,
                                     !.name = call[c].name]
    <3>1. UNCHANGED users \/ users' = [users EXCEPT ![v] = row]
      BY <2>1 DEF CreateUser, store
    <3>2. row.at = "live"
      BY DEF NoUser
    <3> HIDE DEF row
    <3>3. QED
      BY <3>1, <3>2, <1>t DEF StoreTyped
  <2>2. ~(IssueTokens(c) \/ Revokes(c))
    BY DEF IssueTokens, Revokes, RevokeSessions, RevocationFails
  <2>3. DeleteWithTombstones(c)
    BY <1>1, <2>1, <2>2 DEF AccountWrites
  <2>4. call[c].pc = "delete" /\ call[c].kind = "delete" /\ call[c].id \in Ids
    BY <2>3 DEF DeleteWithTombstones, At, Sound, CallsCarry, OfAccount, Phases
  <2>5. Goto(c, "revoke") /\ users' = [users EXCEPT ![call[c].id].at = "gone",
                                                    ![call[c].id].secret = None]
    BY <2>3 DEF DeleteWithTombstones
  <2>6. call[c].id = u
    BY <2>4, <2>5, <1>t DEF StoreTyped
  <2>7. QED
    BY <2>4, <2>5, <2>6, <1>t, GotoMoves DEF Phases
<1>2. ASSUME NEW c \in Calls, CredentialWrites(c)
      PROVE  FALSE
  <2>1. ASSUME NEW t \in Links, VerifyEmail(c, t)
        PROVE  FALSE
    BY <2>1, <1>t DEF VerifyEmail, StoreTyped
  <2>2. ASSUME NEW t \in MFATickets, VerifyMFA(c, t) \/ CreateMFATicket(c, t)
        PROVE  FALSE
    BY <2>2 DEF VerifyMFA, CreateMFATicket
  <2>3. ASSUME NEW t \in Links, InsertLink(c, t)
        PROVE  FALSE
    BY <2>3 DEF InsertLink
  <2>4. QED
    BY <1>2, <2>1, <2>2, <2>3 DEF CredentialWrites
<1>3. ASSUME NEW c \in Calls, CodeWrites(c)
      PROVE  FALSE
  <2>1. ASSUME NEW new \in NewCodes, EnableMFA(c, new) \/ ReplaceRecoveryCodes(c, new)
        PROVE  FALSE
    BY <2>1, <1>t DEF EnableMFA, ReplaceRecoveryCodes, StoreTyped
  <2>2. ASSUME UseRecoveryCode(c) \/ ClearMFA(c)
        PROVE  FALSE
    BY <2>2, <1>t DEF UseRecoveryCode, ClearMFA, StoreTyped
  <2>3. QED
    BY <1>3, <2>1, <2>2 DEF CodeWrites
<1>4. QED
  BY <1>1, <1>2, <1>3, StepCases, SetupFrame, GatewayFrame, PassageFrame DEF store

\* A session counts as issued before the deletion only while the account exists.
LEMMA BeforeBy ==
  ASSUME Sound, [Next]_vars, NEW u \in Ids, "before" \notin sessions[u], "before" \in sessions'[u]
  PROVE  users'[u].at = "live"
<1>t. StoreTyped
  BY TypeParts DEF Sound
<1>1. ASSUME NEW c \in Calls, AccountWrites(c)
      PROVE  users'[u].at = "live"
  <2>1. ASSUME NEW v \in Ids, NEW t \in Links, CreateUser(c, v, t)
        PROVE  FALSE
    BY <2>1 DEF CreateUser, store
  <2>2. ~DeleteWithTombstones(c)
    BY DEF DeleteWithTombstones
  <2>3. CASE Revokes(c)
    BY <2>3, <1>t DEF Revokes, RevokeSessions, RevocationFails, RevokeAll, StoreTyped
  <2>4. CASE IssueTokens(c)
    BY <2>4, <1>t DEF IssueTokens, StoreTyped, Exists
  <2>5. QED
    BY <1>1, <2>1, <2>2, <2>3, <2>4 DEF AccountWrites
<1>2. ASSUME GatewayRequests
      PROVE  FALSE
  <2>1. ASSUME NEW v \in Ids, Logout(v)
        PROVE  FALSE
    BY <2>1, <1>t DEF Logout, RevokeAll, StoreTyped
  <2>2. ASSUME NEW v \in Ids, NEW t \in GatewayTickets, CreateGatewayTicket(v, t)
        PROVE  FALSE
    BY <2>2 DEF CreateGatewayTicket
  <2>3. ASSUME NEW t \in GatewayTickets, ConsumeGatewayTicket(t)
        PROVE  FALSE
    BY <2>3 DEF ConsumeGatewayTicket
  <2>4. QED
    BY <1>2, <2>1, <2>2, <2>3 DEF GatewayRequests
<1>3. QED
  BY <1>1, <1>2, StepCases, CredentialFrame, SetupFrame, CodeFrame, PassageFrame DEF store

\* A call that has yet to revoke leaves that phase by revoking.
LEMMA RevokeAnswers ==
  ASSUME Sound, [Next]_vars, NEW d \in Calls, call[d].pc = "revoke"
  PROVE  \/ Revokes(d)
         \/ call'[d].kind = call[d].kind /\ call'[d].id = call[d].id /\ call'[d].pc = "revoke"
<1>1. ASSUME AuthRequests(d) \/ VerificationRequests(d) \/ MFARequests(d) \/ DeleteMe(d)
      PROVE  FALSE
  <2>1. AuthRequests(d) => call[d].pc = "idle"
    BY DEF AuthRequests, Register, Login, VerifyMFA, Begin, At
  <2>2. VerificationRequests(d) => call[d].pc = "idle"
    BY DEF VerificationRequests, VerifyEmail, ResendVerification, Begin, At
  <2>3. MFARequests(d) \/ DeleteMe(d) => call[d].pc = "idle"
    BY DEF MFARequests, BeginMFASetup, RegenerateRecoveryCodes, ConfirmMFASetup, DisableMFA,
       DeleteMe, DeleteAccount, Begin, At
  <2>4. QED
    BY <1>1, <2>1, <2>2, <2>3
<1>2. ASSUME Continue(d)
      PROVE  Revokes(d)
  BY <1>2 DEF Revokes, Abandon, IncrementFails, Continue, At, RegisterName, IssueTokens, LoadVerified, CheckCooldown,
     InvalidateLinks, ResetMFASetupAttempts, IncrementMFASetupAttempts, RestorePending,
     UseRecoveryCode, ClearMFA, DeleteWithTombstones, CreateUser, InsertLink, CreateMFATicket,
     StorePendingMFASecret, EnableMFA, ReplaceRecoveryCodes, VerifyFactor, MatchRecoveryCode
<1>3. ASSUME NEW c \in Calls, c # d,
             \/ AuthRequests(c) \/ VerificationRequests(c) \/ MFARequests(c) \/ DeleteMe(c)
             \/ Continue(c)
      PROVE  call'[d] = call[d]
  BY <1>3, ArrivalMoves, ContinueMoves DEF OthersStay
<1>4. ASSUME Passage
      PROVE  call'[d].kind = call[d].kind /\ call'[d].id = call[d].id /\ call'[d].pc = call[d].pc
  <2>1. ASSUME NEW old \in SUBSET tombstones, PurgeTombstones(old)
        PROVE  call'[d].kind = call[d].kind /\ call'[d].id = call[d].id /\ call'[d].pc = call[d].pc
    <3>1. call[d] \in Call
      BY DEF Sound, TypeOK
    <3>2. QED
      BY <2>1, <3>1 DEF PurgeTombstones, Call
  <2>2. ASSUME NEW t \in Credentials, Age(t) PROVE call' = call
    BY <2>2 DEF Age
  <2>3. ASSUME NEW u \in Ids, ExpirePending(u) \/ ExpireAttempts(u) PROVE call' = call
    BY <2>3 DEF ExpirePending, ExpireAttempts
  <2>4. QED
    BY <1>4, <2>1, <2>2, <2>3 DEF Passage
<1>5. QED
  BY <1>1, <1>2, <1>3, <1>4, GatewayFrame DEF Next, vars

\* No step of a failed revocation takes its account off the record.
LEMMA UnrevokedGrows ==
  ASSUME [Next]_vars
  PROVE  unrevoked \subseteq unrevoked'
<1>1. ASSUME NEW c \in Calls, AccountWrites(c) PROVE unrevoked \subseteq unrevoked'
  <2>1. ASSUME NEW u \in Ids, NEW t \in Links, CreateUser(c, u, t) PROVE UNCHANGED unrevoked
    BY <2>1 DEF CreateUser, history
  <2>2. IssueTokens(c) \/ RevokeSessions(c) \/ DeleteWithTombstones(c) => UNCHANGED unrevoked
    BY DEF IssueTokens, RevokeSessions, DeleteWithTombstones, history
  <2>3. ASSUME NEW left \in SUBSET {"before", "after"}, RevocationFails(c, left)
        PROVE  unrevoked \subseteq unrevoked'
    BY <2>3 DEF RevocationFails
  <2>4. QED
    BY <1>1, <2>1, <2>2, <2>3 DEF AccountWrites, Revokes
<1>2. QED
  BY <1>1, StepCases, CredentialFrame, SetupFrame, CodeFrame, GatewayFrame, PassageFrame
     DEF history

\* Once an account is deleted, a session issued while it existed is left only
\* until the deletion's last step, or because that step failed.
THEOREM OldSessionsAreRevoked == Spec => []OldSessionsEndWithAccount
<1>1. Init => OldSessionsEndWithAccount
  BY DEF Init, OldSessionsEndWithAccount
<1>2. ASSUME Sound, OldSessionsEndWithAccount, [Next]_vars
      PROVE  OldSessionsEndWithAccount'
  <2>1. SUFFICES ASSUME NEW u \in Ids, users'[u].at = "gone", "before" \in sessions'[u]
                 PROVE  \/ \E c \in Calls : /\ call'[c].kind = "delete" /\ call'[c].id = u
                                            /\ call'[c].pc = "revoke"
                        \/ u \in unrevoked'
    BY DEF OldSessionsEndWithAccount, At
  <2>2. CASE users[u].at # "gone"
    BY <1>2, <2>1, <2>2, GoneBy
  <2>3. CASE "before" \notin sessions[u]
    BY <1>2, <2>1, <2>3, BeforeBy
  <2>4. CASE users[u].at = "gone" /\ "before" \in sessions[u]
    <3>1. CASE u \in unrevoked
      BY <1>2, <3>1, UnrevokedGrows
    <3>2. ASSUME NEW c \in Calls, call[c].kind = "delete", call[c].id = u, call[c].pc = "revoke"
          PROVE  \/ call'[c].kind = "delete" /\ call'[c].id = u /\ call'[c].pc = "revoke"
                 \/ u \in unrevoked'
      <4>1. ~RevokeSessions(c)
        BY <1>2, <2>1, <3>2 DEF RevokeSessions, RevokeAll, Sound, TypeOK
      <4>2. ASSUME NEW left \in SUBSET {"before", "after"}, RevocationFails(c, left)
            PROVE  u \in unrevoked'
        BY <3>2, <4>2 DEF RevocationFails
      <4>3. QED
        BY <1>2, <3>2, <4>1, <4>2, RevokeAnswers DEF Revokes
    <3>3. QED
      BY <1>2, <2>4, <3>1, <3>2 DEF OldSessionsEndWithAccount, At
  <2>5. QED
    BY <2>2, <2>3, <2>4
<1>3. QED
  BY <1>1, <1>2, AccountsSound, PTL DEF Spec

-----------------------------------------------------------------------------
(* Verification links (user.ReplaceVerificationToken). *)

\* What a step does to the unconsumed links: they go, or an account that has
\* none gets its first, or a resend puts a new one in the place of its rows.
LinksShrink == \A v \in Ids : Unconsumed(v)' \subseteq Unconsumed(v)

FirstLink(u, t) ==
  /\ users[u].at = "never" /\ Unconsumed(u) = {} /\ Unconsumed(u)' \subseteq {t}
  /\ \A v \in Ids \ {u} : Unconsumed(v)' \subseteq Unconsumed(v)

NextLink(c, u, t) ==
  /\ call[c].id = u /\ call[c].pc = "insert" /\ call'[c].pc = "idle"
  /\ Unconsumed(u)' \subseteq {t} \cup (Unconsumed(u) \ call[c].rows)
  /\ \A v \in Ids \ {u} : Unconsumed(v)' \subseteq Unconsumed(v)
  /\ (\E d \in Calls \ {c} : call[d].pc = "insert" /\ call[d].id = u) => u \in raced'

\* A credential that was not in reach before is fresh and issued to one account.
LEMMA IssueLinks ==
  ASSUME StoreTyped, NEW t \in Credentials, NEW u \in Ids, NEW at, Issue(t, u, at)
  PROVE  /\ \A v \in Ids \ {u} : Unconsumed(v)' \subseteq Unconsumed(v)
         /\ Unconsumed(u)' \subseteq Unconsumed(u) \cup {t}
         /\ t \notin Links => LinksShrink
<1>1. /\ credential'[t] = [at |-> at, of |-> u]
      /\ \A l \in Credentials : l # t => credential'[l] = credential[l]
  BY DEF Issue, StoreTyped
<1>2. Links \subseteq Credentials
  BY DEF Credentials
<1>3. QED
  BY <1>1, <1>2 DEF Unconsumed, LinksShrink

\* A credential that is redeemed or ages brings no link back.
LEMMA RetireLinks ==
  ASSUME StoreTyped, NEW t \in Credentials, NEW at,
         Redeemable(t), credential' = [credential EXCEPT ![t].at = at]
  PROVE  LinksShrink
<1>1. /\ credential'[t].of = credential[t].of
      /\ \A l \in Credentials : l # t => credential'[l] = credential[l]
  BY DEF StoreTyped
<1>2. Links \subseteq Credentials
  BY DEF Credentials
<1>3. QED
  BY <1>1, <1>2 DEF Unconsumed, LinksShrink, Redeemable

LEMMA LinkCases ==
  ASSUME Sound, [Next]_vars
  PROVE  /\ raced \subseteq raced'
         /\ \/ LinksShrink
            \/ \E u \in Ids, t \in Links : FirstLink(u, t)
            \/ \E c \in Calls, u \in Ids, t \in Links : NextLink(c, u, t)
<1> USE AccountsAssumption
<1> DEFINE Goal == /\ raced \subseteq raced'
                   /\ \/ LinksShrink
                      \/ \E u \in Ids, t \in Links : FirstLink(u, t)
                      \/ \E c \in Calls, u \in Ids, t \in Links : NextLink(c, u, t)
<1>t. TypeOK /\ StoreTyped /\ RowsOwned
  BY TypeParts DEF Sound
<1>c. Links \subseteq Credentials /\ MFATickets \subseteq Credentials
      /\ GatewayTickets \subseteq Credentials
  BY DEF Credentials
<1>0. ASSUME UNCHANGED <<credential, raced>> PROVE Goal
  BY <1>0 DEF LinksShrink, Unconsumed
<1>1. ASSUME NEW c \in Calls, NEW u \in Ids, NEW t \in Links, CreateUser(c, u, t),
             ~UNCHANGED credential
      PROVE  Goal
  <2>1. users[u] = NoUser /\ Issue(t, u, "new") /\ UNCHANGED raced
    BY <1>1 DEF CreateUser, store, history
  <2>2. users[u].at = "never"
    BY <2>1 DEF NoUser
  <2>3. Unconsumed(u) = {}
    BY <2>2, <1>c, <1>t DEF Unconsumed, RowsOwned, Unissued
  <2>4. FirstLink(u, t)
    BY <1>c, <1>t, <2>1, <2>2, <2>3, IssueLinks DEF FirstLink
  <2>5. QED
    BY <2>1, <2>4
<1>2. ASSUME NEW c \in Calls, DeleteWithTombstones(c), ~UNCHANGED credential
      PROVE  Goal
  <2>1. PICK u \in Ids : u = call[c].id
    BY <1>2, AccountOf DEF DeleteWithTombstones, At, OfAccount, Phases
  <2>2. credential' = [t \in Credentials |->
          IF t \in Unconsumed(u) THEN [credential[t] EXCEPT !.at = "gone"] ELSE credential[t]]
    BY <1>2, <2>1 DEF DeleteWithTombstones
  <2>3. ASSUME NEW v \in Ids, NEW l \in Unconsumed(v)' PROVE l \in Unconsumed(v)
    <3>1. l \in Links /\ credential'[l].of = v /\ credential'[l].at \in {"new", "open", "expired"}
      BY DEF Unconsumed
    <3>2. l \notin Unconsumed(u)
      <4>1. SUFFICES ASSUME l \in Unconsumed(u) PROVE FALSE
        OBVIOUS
      <4>2. credential[l] \in [at : {"none", "new", "open", "expired", "gone"},
                               of : Ids \cup {None}]
        BY <1>c, <1>t, <3>1 DEF StoreTyped
      <4>3. credential'[l] = [credential[l] EXCEPT !.at = "gone"]
        BY <1>c, <2>2, <3>1, <4>1
      <4>4. QED
        BY <3>1, <4>2, <4>3
    <3>3. credential'[l] = credential[l]
      BY <1>c, <2>2, <3>1, <3>2
    <3>4. QED
      BY <3>1, <3>3 DEF Unconsumed
  <2>4. UNCHANGED raced
    BY <1>2 DEF DeleteWithTombstones, history
  <2>5. QED
    BY <2>3, <2>4 DEF LinksShrink
<1>3. ASSUME NEW c \in Calls, AccountWrites(c)
      PROVE  Goal
  <2>1. UNCHANGED raced
    BY <1>3, AccountFrame
  <2>2. IssueTokens(c) \/ Revokes(c) => UNCHANGED credential
    BY DEF IssueTokens, Revokes, RevokeSessions, RevocationFails
  <2>3. QED
    BY <1>0, <1>1, <1>2, <1>3, <2>1, <2>2 DEF AccountWrites
<1>4. ASSUME NEW t \in Credentials, Redeemable(t), Redeem(t), UNCHANGED raced
      PROVE  Goal
  BY <1>4, <1>t, RetireLinks DEF Redeem
<1>5. ASSUME NEW c \in Calls, NEW t \in MFATickets, VerifyMFA(c, t) \/ CreateMFATicket(c, t)
      PROVE  Goal
  <2>1. CASE VerifyMFA(c, t)
    BY <1>c, <1>4, <2>1 DEF VerifyMFA
  <2>2. CASE CreateMFATicket(c, t)
    <3>1. Issue(t, call[c].id, "open") /\ UNCHANGED raced /\ t \notin Links
      BY <2>2, CredentialsAssumption DEF CreateMFATicket, history
    <3>2. call[c].id \in Ids
      BY <2>2, AccountOf DEF CreateMFATicket, At, OfAccount, Phases
    <3>3. QED
      BY <1>c, <1>t, <3>1, <3>2, IssueLinks
  <2>3. QED
    BY <1>5, <2>1, <2>2
<1>6. ASSUME NEW c \in Calls, NEW t \in Links, VerifyEmail(c, t)
      PROVE  Goal
  BY <1>c, <1>4, <1>6 DEF VerifyEmail
<1>7. ASSUME NEW c \in Calls, NEW t \in Links, InsertLink(c, t)
      PROVE  Goal
  <2>1. PICK u \in Ids : u = call[c].id
    BY <1>7, AccountOf DEF InsertLink, At, OfAccount, Phases
  <2>2. /\ call[c].pc = "insert" /\ Return(c)
        /\ raced' = raced \cup {o \in {u} : \E d \in Calls \ {c} : call[d].pc = "insert" /\ call[d].id = o}
    BY <1>7, <2>1 DEF InsertLink, At
  <2>3. CASE UNCHANGED credential
    BY <2>2, <2>3 DEF LinksShrink, Unconsumed
  <2>4. CASE ~UNCHANGED credential
    <3>1. credential' = [l \in Credentials |->
            IF l = t THEN [at |-> "new", of |-> u]
            ELSE IF l \in call[c].rows THEN [credential[l] EXCEPT !.at = "gone"]
            ELSE credential[l]]
      BY <1>7, <2>1, <2>4 DEF InsertLink
    <3>2. ASSUME NEW v \in Ids, NEW l \in Unconsumed(v)', l # t
          PROVE  l \in Unconsumed(v) \ call[c].rows
      <4>1. l \in Links /\ credential'[l].of = v /\ credential'[l].at \in {"new", "open", "expired"}
        BY DEF Unconsumed
      <4>2. l \notin call[c].rows
        <5>1. SUFFICES ASSUME l \in call[c].rows PROVE FALSE
          OBVIOUS
        <5>2. credential[l] \in [at : {"none", "new", "open", "expired", "gone"},
                                 of : Ids \cup {None}]
          BY <1>c, <1>t, <4>1 DEF StoreTyped
        <5>3. credential'[l] = [credential[l] EXCEPT !.at = "gone"]
          BY <1>c, <3>1, <3>2, <4>1, <5>1
        <5>4. QED
          BY <4>1, <5>2, <5>3
      <4>3. credential'[l] = credential[l]
        BY <1>c, <3>1, <3>2, <4>1, <4>2
      <4>4. QED
        BY <4>1, <4>2, <4>3 DEF Unconsumed
    <3>3. ASSUME NEW v \in Ids, v # u PROVE t \notin Unconsumed(v)'
      <4>1. credential'[t].of = u
        BY <1>c, <3>1
      <4>2. QED
        BY <3>3, <4>1 DEF Unconsumed
    <3>4. call'[c].pc = "idle"
      BY <2>2, <1>t, ReturnMoves DEF NoCall
    <3>5. /\ Unconsumed(u)' \subseteq {t} \cup (Unconsumed(u) \ call[c].rows)
          /\ \A v \in Ids \ {u} : Unconsumed(v)' \subseteq Unconsumed(v)
      BY <3>2, <3>3
    <3>6. (\E d \in Calls \ {c} : call[d].pc = "insert" /\ call[d].id = u) => u \in raced'
      BY <2>2
    <3>7. NextLink(c, u, t)
      BY <2>1, <2>2, <3>4, <3>5, <3>6 DEF NextLink
    <3>8. QED
      BY <2>2, <3>7
  <2>5. QED
    BY <2>3, <2>4
<1>8. ASSUME GatewayRequests
      PROVE  Goal
  <2>1. ASSUME NEW u \in Ids, Logout(u) PROVE UNCHANGED credential
    BY <2>1 DEF Logout
  <2>2. ASSUME NEW u \in Ids, NEW t \in GatewayTickets, CreateGatewayTicket(u, t)
        PROVE  LinksShrink
    <3>1. Issue(t, u, "open") /\ t \notin Links
      BY <2>2, CredentialsAssumption DEF CreateGatewayTicket
    <3>2. QED
      BY <1>c, <1>t, <3>1, IssueLinks
  <2>3. ASSUME NEW t \in GatewayTickets, ConsumeGatewayTicket(t)
        PROVE  Goal
    BY <1>c, <1>4, <2>3 DEF ConsumeGatewayTicket
  <2>4. QED
    BY <1>0, <1>8, <2>1, <2>2, <2>3, GatewayFrame DEF GatewayRequests
<1>9. ASSUME Passage
      PROVE  Goal
  <2>1. ASSUME NEW t \in Credentials, Age(t) PROVE LinksShrink
    <3>1. PICK at : at = IF credential[t].at = "new" THEN "open"
                         ELSE IF t \in Links THEN "expired" ELSE "gone"
      OBVIOUS
    <3>2. Redeemable(t) /\ credential' = [credential EXCEPT ![t].at = at]
      BY <2>1, <3>1, <1>t DEF Age, StoreTyped
    <3>3. QED
      BY <3>2, <1>t, RetireLinks
  <2>2. ASSUME NEW u \in Ids, ExpirePending(u) \/ ExpireAttempts(u) PROVE UNCHANGED credential
    BY <2>2 DEF ExpirePending, ExpireAttempts
  <2>3. ASSUME NEW old \in SUBSET tombstones, PurgeTombstones(old) PROVE UNCHANGED credential
    BY <2>3 DEF PurgeTombstones
  <2>4. QED
    BY <1>0, <1>9, <2>1, <2>2, <2>3, PassageFrame DEF Passage
<1> HIDE DEF Goal
<1>10. ASSUME NEW c \in Calls, CredentialWrites(c)
       PROVE  Goal
  BY <1>5, <1>6, <1>7, <1>10 DEF CredentialWrites
<1>11. Goal
  BY <1>0, <1>3, <1>8, <1>9, <1>10, StepCases, SetupFrame, CodeFrame DEF store, history
<1>12. QED
  BY <1>11 DEF Goal

\* A resend past its UPDATE was so before, or has just locked all there is.
LEMMA InsertStays ==
  ASSUME Sound, [Next]_vars, NEW d \in Calls, call'[d].pc = "insert"
  PROVE  \/ /\ call[d].pc = "insert" /\ call'[d].id = call[d].id
            /\ call'[d].rows = call[d].rows
         \/ call'[d].rows = Unconsumed(call'[d].id) /\ UNCHANGED credential
<1>1. CASE CallStep(d)
  BY <1>1 DEF CallStep, NoCall, store
<1>2. ASSUME NEW old \in SUBSET tombstones, PurgeTombstones(old)
      PROVE  call'[d].pc = call[d].pc /\ call'[d].id = call[d].id /\ call'[d].rows = call[d].rows
  <2>1. call[d] \in Call
    BY DEF Sound, TypeOK
  <2>2. QED
    BY <1>2, <2>1 DEF PurgeTombstones, Call
<1>3. QED
  BY <1>1, <1>2, StepMoves DEF OthersStay

LEMMA StepLinks ==
  ASSUME Sound, LinkInv, [Next]_vars
  PROVE  LinkInv'
<1>1. SUFFICES ASSUME NEW u \in Ids, u \notin raced'
               PROVE  /\ \A s, t \in Unconsumed(u)' : s = t
                      /\ \A d \in Calls : call'[d].pc = "insert" /\ call'[d].id = u =>
                           Unconsumed(u)' \subseteq call'[d].rows
  BY DEF LinkInv, At
<1>2. u \notin raced
  BY <1>1, LinkCases
<1>3. /\ \A s, t \in Unconsumed(u) : s = t
      /\ \A d \in Calls : call[d].pc = "insert" /\ call[d].id = u =>
           Unconsumed(u) \subseteq call[d].rows
  BY <1>2 DEF LinkInv, At
<1>4. UNCHANGED credential => Unconsumed(u)' = Unconsumed(u)
  BY DEF Unconsumed
<1>5. CASE Unconsumed(u)' \subseteq Unconsumed(u)
  BY <1>3, <1>4, <1>5, InsertStays
<1>6. ASSUME NEW t \in Links, FirstLink(u, t)
      PROVE  /\ \A r, s \in Unconsumed(u)' : r = s
             /\ \A d \in Calls : call'[d].pc = "insert" /\ call'[d].id = u =>
                  Unconsumed(u)' \subseteq call'[d].rows
  <2>1. ASSUME NEW d \in Calls, call'[d].pc = "insert", call'[d].id = u
        PROVE  Unconsumed(u)' \subseteq call'[d].rows
    <3>1. ~(call[d].pc = "insert" /\ call[d].id = u)
      BY <1>6 DEF FirstLink, Sound, CallsCarry, OfAccount, Phases
    <3>2. QED
      BY <1>4, <2>1, <3>1, InsertStays
  <2>2. QED
    BY <1>6, <2>1 DEF FirstLink
<1>7. ASSUME NEW c \in Calls, NEW t \in Links, NextLink(c, u, t)
      PROVE  /\ \A r, s \in Unconsumed(u)' : r = s
             /\ \A d \in Calls : call'[d].pc = "insert" /\ call'[d].id = u =>
                  Unconsumed(u)' \subseteq call'[d].rows
  <2>0. /\ Unconsumed(u)' \subseteq {t} \cup (Unconsumed(u) \ call[c].rows)
        /\ call[c].pc = "insert" /\ call[c].id = u
    BY <1>7 DEF NextLink
  <2>1. Unconsumed(u)' \subseteq {t}
    BY <1>3, <1>7, <2>0
  <2>2. ASSUME NEW d \in Calls, call'[d].pc = "insert", call'[d].id = u
        PROVE  Unconsumed(u)' \subseteq call'[d].rows
    <3>1. d # c
      BY <1>7, <2>2 DEF NextLink
    <3>2. ~(call[d].pc = "insert" /\ call[d].id = u)
      BY <1>1, <1>7, <3>1 DEF NextLink
    <3>3. QED
      BY <1>4, <2>2, <3>2, InsertStays
  <2>3. QED
    BY <2>1, <2>2
<1>8. QED
  BY <1>5, <1>6, <1>7, LinkCases DEF LinksShrink, FirstLink, NextLink

\* Two verification links of one user are good together only if two resends
\* were past their UPDATE at the same time.
THEOREM SecondLinksAreRaces == Spec => []SecondLinkRaced
<1>1. Init => LinkInv
  BY DEF Init, LinkInv, Unconsumed, Unissued, At, NoCall, Credentials
<1>2. Sound /\ LinkInv /\ [Next]_vars => LinkInv'
  BY StepLinks
<1>3. ASSUME LinkInv PROVE SecondLinkRaced
  <2>1. SUFFICES ASSUME NEW u \in Ids, u \notin raced
                 PROVE  ~(Cardinality({t \in Links : Redeemable(t) /\ credential[t].of = u}) > 1)
    BY DEF SecondLinkRaced
  <2>2. PICK R : R = {t \in Links : Redeemable(t) /\ credential[t].of = u}
    OBVIOUS
  <2>3. R \subseteq Unconsumed(u)
    BY <2>2 DEF Redeemable, Unconsumed
  <2>4. \A s, t \in R : s = t
    BY <1>3, <2>1, <2>3 DEF LinkInv
  <2>5. CASE R = {}
    BY <2>2, <2>5, FS_EmptySet
  <2>6. CASE R # {}
    <3>1. PICK t : t \in R
      BY <2>6
    <3>2. R = {t}
      BY <2>4, <3>1
    <3>3. Cardinality(R) = 1
      BY <3>2, FS_Singleton
    <3>4. QED
      BY <2>2, <3>3
  <2>7. QED
    BY <2>5, <2>6
<1>4. QED
  BY <1>1, <1>2, <1>3, AccountsSound, PTL DEF Spec

-----------------------------------------------------------------------------
(* One-time credentials: the tables and keys implement OneTime. *)

\* A credential that can be redeemed could be before, or has just been issued.
NoRevival ==
  \A t \in Credentials :
    credential'[t].at \in {"new", "open"} => Redeemable(t) \/ credential[t] = Unissued

LEMMA IssueRevivesNone ==
  ASSUME StoreTyped, NEW S, S \subseteq Credentials, NEW t \in Fresh(S), NEW u, NEW at,
         Issue(t, u, at)
  PROVE  NoRevival
<1>1. \A l \in Credentials : l # t => credential'[l] = credential[l]
  BY DEF Issue, StoreTyped
<1>2. credential[t] = Unissued
  BY FreshIs
<1>3. QED
  BY <1>1, <1>2 DEF NoRevival, Redeemable

\* Every step redeems one credential or none.
LEMMA RedeemCases ==
  ASSUME Sound, [Next]_vars
  PROVE  \/ UNCHANGED redeemed /\ NoRevival
         \/ \E t \in Credentials : Redeemable(t) /\ Redeem(t)
<1> DEFINE Goal == \/ UNCHANGED redeemed /\ NoRevival
                   \/ \E t \in Credentials : Redeemable(t) /\ Redeem(t)
<1>t. StoreTyped /\ RowsOwned
  BY TypeParts DEF Sound
<1>c. Links \subseteq Credentials /\ MFATickets \subseteq Credentials
      /\ GatewayTickets \subseteq Credentials
  BY DEF Credentials
<1>0. ASSUME UNCHANGED <<credential, redeemed>> PROVE Goal
  BY <1>0 DEF NoRevival, Redeemable
<1>1. ASSUME NEW c \in Calls, AccountWrites(c)
      PROVE  Goal
  <2>0. UNCHANGED redeemed
    BY <1>1, AccountFrame
  <2>1. ASSUME NEW u \in Ids, NEW t \in Links, CreateUser(c, u, t), ~UNCHANGED credential
        PROVE  NoRevival
    <3>1. t \in Fresh(Links) /\ Issue(t, u, "new")
      BY <2>1 DEF CreateUser, store
    <3>2. QED
      BY <3>1, <1>c, <1>t, IssueRevivesNone
  <2>2. ASSUME DeleteWithTombstones(c), ~UNCHANGED credential
        PROVE  NoRevival
    <3>1. PICK u : u = call[c].id
      OBVIOUS
    <3>2. credential' = [t \in Credentials |->
            IF t \in Unconsumed(u) THEN [credential[t] EXCEPT !.at = "gone"] ELSE credential[t]]
      BY <2>2, <3>1 DEF DeleteWithTombstones
    <3>3. ASSUME NEW t \in Credentials, credential'[t].at \in {"new", "open"}
          PROVE  Redeemable(t)
      <4>1. credential[t] \in [at : {"none", "new", "open", "expired", "gone"},
                               of : Ids \cup {None}]
        BY <1>t DEF StoreTyped
      <4>2. CASE t \in Unconsumed(u)
        <5>1. credential'[t] = [credential[t] EXCEPT !.at = "gone"]
          BY <3>2, <4>2
        <5>2. QED
          BY <3>3, <4>1, <5>1
      <4>3. CASE t \notin Unconsumed(u)
        BY <3>2, <3>3, <4>3 DEF Redeemable
      <4>4. QED
        BY <4>2, <4>3
    <3>4. QED
      BY <3>3 DEF NoRevival
  <2>3. IssueTokens(c) \/ Revokes(c) => UNCHANGED credential
    BY DEF IssueTokens, Revokes, RevokeSessions, RevocationFails
  <2>4. QED
    BY <1>0, <1>1, <2>0, <2>1, <2>2, <2>3 DEF AccountWrites
<1>2. ASSUME NEW c \in Calls, NEW t \in MFATickets, VerifyMFA(c, t) \/ CreateMFATicket(c, t)
      PROVE  Goal
  <2>1. CASE VerifyMFA(c, t)
    BY <1>c, <2>1 DEF VerifyMFA
  <2>2. CASE CreateMFATicket(c, t)
    <3>1. /\ t \in Fresh(MFATickets) /\ UNCHANGED redeemed
          /\ \E u : Issue(t, u, "open")
      BY <2>2 DEF CreateMFATicket, history
    <3>2. QED
      BY <1>c, <1>t, <3>1, IssueRevivesNone
  <2>3. QED
    BY <1>2, <2>1, <2>2
<1>3. ASSUME NEW c \in Calls, NEW t \in Links, VerifyEmail(c, t)
      PROVE  Goal
  BY <1>c, <1>3 DEF VerifyEmail
<1>4. ASSUME NEW c \in Calls, NEW t \in Links, InsertLink(c, t)
      PROVE  Goal
  <2>1. UNCHANGED redeemed
    BY <1>4 DEF InsertLink
  <2>2. CASE ~UNCHANGED credential
    <3>1. PICK u : u = call[c].id
      OBVIOUS
    <3>2. /\ t \in Fresh(Links)
          /\ credential' = [l \in Credentials |->
               IF l = t THEN [at |-> "new", of |-> u]
               ELSE IF l \in call[c].rows THEN [credential[l] EXCEPT !.at = "gone"]
               ELSE credential[l]]
      BY <1>4, <2>2, <3>1 DEF InsertLink
    <3>3. credential[t] = Unissued
      BY <3>2, FreshIs
    <3>4. ASSUME NEW l \in Credentials, credential'[l].at \in {"new", "open"}, l # t
          PROVE  Redeemable(l)
      <4>1. credential[l] \in [at : {"none", "new", "open", "expired", "gone"},
                               of : Ids \cup {None}]
        BY <1>t DEF StoreTyped
      <4>2. CASE l \in call[c].rows
        <5>1. credential'[l] = [credential[l] EXCEPT !.at = "gone"]
          BY <3>2, <3>4, <4>2
        <5>2. QED
          BY <3>4, <4>1, <5>1
      <4>3. CASE l \notin call[c].rows
        BY <3>2, <3>4, <4>3 DEF Redeemable
      <4>4. QED
        BY <4>2, <4>3
    <3>5. NoRevival
      BY <3>3, <3>4 DEF NoRevival
    <3>6. QED
      BY <2>1, <3>5
  <2>3. QED
    BY <1>0, <2>1, <2>2
<1>5. ASSUME GatewayRequests
      PROVE  Goal
  <2>1. ASSUME NEW u \in Ids, Logout(u) PROVE UNCHANGED <<credential, redeemed>>
    BY <2>1 DEF Logout, history
  <2>2. ASSUME NEW u \in Ids, NEW t \in GatewayTickets, CreateGatewayTicket(u, t)
        PROVE  UNCHANGED redeemed /\ NoRevival
    <3>1. t \in Fresh(GatewayTickets) /\ Issue(t, u, "open") /\ UNCHANGED redeemed
      BY <2>2 DEF CreateGatewayTicket, history
    <3>2. QED
      BY <1>c, <1>t, <3>1, IssueRevivesNone
  <2>3. ASSUME NEW t \in GatewayTickets, ConsumeGatewayTicket(t)
        PROVE  Redeemable(t) /\ Redeem(t)
    BY <2>3 DEF ConsumeGatewayTicket
  <2>4. QED
    BY <1>0, <1>5, <1>c, <2>1, <2>2, <2>3 DEF GatewayRequests
<1>6. ASSUME Passage
      PROVE  Goal
  <2>1. ASSUME NEW t \in Credentials, Age(t) PROVE NoRevival
    <3>1. Redeemable(t) /\ \A l \in Credentials : l # t => credential'[l] = credential[l]
      BY <2>1, <1>t DEF Age, StoreTyped
    <3>2. QED
      BY <3>1 DEF NoRevival, Redeemable
  <2>2. ASSUME NEW u \in Ids, ExpirePending(u) \/ ExpireAttempts(u) PROVE UNCHANGED credential
    BY <2>2 DEF ExpirePending, ExpireAttempts
  <2>3. ASSUME NEW old \in SUBSET tombstones, PurgeTombstones(old) PROVE UNCHANGED credential
    BY <2>3 DEF PurgeTombstones
  <2>4. QED
    BY <1>0, <1>6, <2>1, <2>2, <2>3, PassageFrame DEF Passage
<1> HIDE DEF Goal
<1>7. ASSUME NEW c \in Calls, CredentialWrites(c)
      PROVE  Goal
  BY <1>2, <1>3, <1>4, <1>7 DEF CredentialWrites
<1>8. Goal
  BY <1>0, <1>1, <1>5, <1>6, <1>7, StepCases, SetupFrame, CodeFrame DEF store, history
<1>9. QED
  BY <1>8 DEF Goal

\* Every step redeems one live credential, or turns the set of live ones over,
\* as OneTime allows.
LEMMA StepOneTime ==
  ASSUME Sound, [Next]_vars
  PROVE  OneTimeTokens!Next
<1>t. StoreTyped /\ RowsOwned
  BY TypeParts DEF Sound
<1>i. IssuedStay
  BY StepKeepsStore DEF StoreKept
<1>1. CASE UNCHANGED redeemed /\ NoRevival
  <2>1. ASSUME NEW t \in Credentials, Redeemable(t)'
        PROVE  Redeemable(t) \/ (credential[t] = Unissued /\ credential'[t] # Unissued)
    BY <1>1, <2>1 DEF NoRevival, Redeemable, Unissued
  <2>2. OneTimeTokens!Turn
    BY <1>1, <1>i, <2>1 DEF OneTimeTokens!Turn, IssuedStay, Unissued
  <2>3. QED
    BY <2>2 DEF OneTimeTokens!Next
<1>2. ASSUME NEW t \in Credentials, Redeemable(t), Redeem(t)
      PROVE  OneTimeTokens!Next
  <2>1. /\ credential'[t].at = "gone" /\ credential[t] # Unissued
        /\ \A l \in Credentials : l # t => credential'[l] = credential[l]
        /\ redeemed' = [redeemed EXCEPT ![t] = @ + 1]
    BY <1>2, <1>t DEF Redeem, Redeemable, Unissued, StoreTyped
  <2>2. credential'[t] # Unissued /\ ~Redeemable(t)'
    BY <2>1 DEF Redeemable, Unissued
  <2>3. ASSUME NEW l \in Credentials, l # t
        PROVE  (Redeemable(l)' <=> Redeemable(l))
               /\ (credential'[l] = Unissued <=> credential[l] = Unissued)
    BY <2>1, <2>3 DEF Redeemable
  <2>4. OneTimeTokens!Redeem(t)
    BY <1>2, <2>1, <2>2, <2>3 DEF OneTimeTokens!Redeem, Unissued
  <2>5. QED
    BY <2>4 DEF OneTimeTokens!Next
<1>3. QED
  BY <1>1, <1>2, RedeemCases

\* Verification tokens, MFA tickets and gateway tickets behave as OneTime says:
\* each is issued once, redeemed at most once, and never comes back.
THEOREM CredentialsAreOneTime == Spec => OneTimeSpec
<1>1. Init => OneTimeTokens!Init
  BY DEF Init, OneTimeTokens!Init, Redeemable, Unissued
<1>2. Sound /\ [Next]_vars => [OneTimeTokens!Next]_(OneTimeTokens!vars)
  BY StepOneTime
<1>3. QED
  BY <1>1, <1>2, AccountsSound, PTL DEF Spec, OneTimeSpec, OneTimeTokens!Spec

\* A credential that was redeemed was issued and is not good any more.
RedeemInv ==
  \A t \in Credentials :
    redeemed[t] # 0 => redeemed[t] = 1 /\ ~Redeemable(t) /\ credential[t] # Unissued

LEMMA StepRedeem ==
  ASSUME Sound, RedeemInv, [Next]_vars
  PROVE  RedeemInv'
<1>1. IssuedStay
  BY StepKeepsStore DEF StoreKept
<1>2. SUFFICES ASSUME NEW t \in Credentials, redeemed'[t] # 0
               PROVE  redeemed'[t] = 1 /\ ~Redeemable(t)' /\ credential'[t] # Unissued
  BY DEF RedeemInv, Unissued
<1>3. redeemed \in [Credentials -> Nat] /\ StoreTyped
  BY TypeParts DEF Sound, HistoryTyped
<1>4. redeemed[t] # 0 => redeemed[t] = 1 /\ ~Redeemable(t) /\ credential[t] # Unissued
  BY DEF RedeemInv
<1>5. CASE UNCHANGED redeemed /\ NoRevival
  BY <1>1, <1>2, <1>4, <1>5 DEF IssuedStay, NoRevival, Redeemable
<1>6. ASSUME NEW l \in Credentials, Redeemable(l), Redeem(l)
      PROVE  redeemed'[t] = 1 /\ ~Redeemable(t)' /\ credential'[t] # Unissued
  <2>1. /\ credential'[l].at = "gone" /\ redeemed'[l] = redeemed[l] + 1
        /\ \A k \in Credentials : k # l => credential'[k] = credential[k] /\ redeemed'[k] = redeemed[k]
    BY <1>3, <1>6 DEF Redeem, StoreTyped
  <2>2. CASE t = l
    BY <1>3, <1>4, <1>6, <2>1, <2>2 DEF Redeemable, Unissued
  <2>3. CASE t # l
    BY <1>2, <1>4, <2>1, <2>3 DEF Redeemable
  <2>4. QED
    BY <2>2, <2>3
<1>7. QED
  BY <1>5, <1>6, RedeemCases

\* No verification token, MFA ticket or gateway ticket is ever redeemed twice.
THEOREM RedeemedAtMostOnce == Spec => [](\A t \in Credentials : redeemed[t] <= 1)
<1>1. Init => RedeemInv
  BY DEF Init, RedeemInv
<1>2. Sound /\ RedeemInv /\ [Next]_vars => RedeemInv'
  BY StepRedeem
<1>3. Sound /\ RedeemInv => \A t \in Credentials : redeemed[t] <= 1
  BY DEF Sound, TypeOK, RedeemInv
<1>4. QED
  BY <1>1, <1>2, <1>3, AccountsSound, PTL DEF Spec

=============================================================================
