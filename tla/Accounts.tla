------------------------------ MODULE Accounts -------------------------------
(***************************************************************************)
(* Accounts: registration, login, email verification, the second factor    *)
(* and its recovery codes, gateway tickets and deletion (internal/auth/    *)
(* service.go, mfa_pending.go, mfa_ticket.go, gateway_ticket.go,           *)
(* internal/user/repository.go and their handlers in internal/api).        *)
(*                                                                         *)
(* A call is a request in progress: each SQL statement or transaction and  *)
(* each Valkey command is one step of it, and any other call may run       *)
(* between two steps.  A request refused before it changes anything is not *)
(* taken.  Any step may fail, and the process may die between two          *)
(* (Abandon); where the code goes on after a failed command, so does the   *)
(* call (IncrementFails, RevocationFails).  Passwords are right (a wrong   *)
(* one changes nothing but the login attempt log, which is left out with   *)
(* the rehash); mfa_enabled is set and cleared together with mfa_secret    *)
(* and is not kept apart from it.                                          *)
(***************************************************************************)
EXTENDS Naturals, FiniteSets

CONSTANTS
  Ids,                \* user ids
  Owner,              \* the account RunFirstInit made
  Emails, Names,
  Links,              \* email verification tokens
  MFATickets, GatewayTickets,
  Secrets,            \* TOTP secrets
  Codes,              \* recovery codes
  BatchSize,          \* recovery codes generated together
  MaxSetupAttempts,   \* maxMFASetupAttempts
  MaxUncounted,       \* bound: failed increments per id and secret
  TombstoneUsernames, \* config: DELETION_TOMBSTONE_USERNAMES
  Calls,              \* requests in flight together
  Workloads,          \* mixes of request kinds explored, each with the ids that take part
  None

ASSUME AccountsAssumption ==
  /\ Owner \in Ids
  /\ BatchSize \in Nat \ {0} /\ MaxSetupAttempts \in Nat \ {0} /\ MaxUncounted \in Nat
  /\ TombstoneUsernames \in BOOLEAN
  /\ None \notin Ids \cup Emails \cup Names \cup Secrets \cup Codes \cup Links
                 \cup MFATickets \cup GatewayTickets

\* A table and two prefixes of keys.
ASSUME CredentialsAssumption ==
  Links \cap (MFATickets \cup GatewayTickets) = {} /\ MFATickets \cap GatewayTickets = {}

VARIABLES
  users,      \* rows of users
  credential, \* email_verifications rows and the tickets' keys
  codes,      \* rows of mfa_recovery_codes
  tombstones, \* rows of deletion_tombstones
  pending,    \* mfa_pending:{id}
  attempts,   \* mfa_pending_attempts:{id}
  sessions,   \* refresh tokens per id: issued "before" or "after" its deletion
  call,       \* the requests in flight
  workload,   \* the mix of this behaviour
  redeemed,   \* history: successful redemptions of each credential
  minted,     \* history: secrets generated so far
  tries,      \* history: wrong codes per id and secret since the id's counter was cleared
  uncounted,  \* history: those among them whose increment failed
  raced,      \* history: ids with two resends past their invalidation together
  stray,      \* history: ids whose codes were replaced across a DisableMFA
  unrevoked   \* history: ids whose deletion ended without revoking their sessions

store == <<users, credential, codes, tombstones, pending, attempts, sessions>>
history == <<redeemed, minted, tries, uncounted, raced, stray, unrevoked>>
vars == <<store, call, workload, history>>

Credentials == Links \cup MFATickets \cup GatewayTickets
NoUser == [at |-> "never", email |-> None, name |-> None, verified |-> FALSE, secret |-> None]
Unissued == [at |-> "none", of |-> None]
NoCall == [kind |-> "none", pc |-> "idle", id |-> None, email |-> None, name |-> None,
           arg |-> None, rows |-> {}, past |-> {}]

\* Identifiers are random: which unused one is drawn makes no difference.
Draw(unused) == IF unused = {} THEN {} ELSE {CHOOSE x \in unused : TRUE}
Fresh(set) == Draw({t \in set : credential[t] = Unissued})

Exists(u) == users[u].at = "live"

\* A verification token ages past the resend cooldown and past its expiry;
\* only consumed_at ends it for a resend.
Redeemable(t) == credential[t].at \in {"new", "open"}
Unconsumed(u) == {t \in Links : credential[t].of = u /\ credential[t].at \in {"new", "open", "expired"}}

\* RunFirstInit: the owner's account, already verified.
Init ==
  /\ users = [u \in Ids |-> IF u = Owner THEN [NoUser EXCEPT !.at = "live", !.verified = TRUE]
                                         ELSE NoUser]
  /\ credential = [t \in Credentials |-> Unissued]
  /\ codes = [k \in Codes |-> Unissued]
  /\ tombstones = {}
  /\ pending = [u \in Ids |-> None]
  /\ attempts = [u \in Ids |-> 0]
  /\ sessions = [u \in Ids |-> {}]
  /\ call = [c \in Calls |-> NoCall]
  /\ workload \in Workloads
  /\ redeemed = [t \in Credentials |-> 0]
  /\ minted = {}
  /\ tries = [u \in Ids |-> [s \in Secrets |-> 0]]
  /\ uncounted = [u \in Ids |-> [s \in Secrets |-> 0]]
  /\ raced = {} /\ stray = {} /\ unrevoked = {}

Goto(c, pc) == call' = [call EXCEPT ![c].pc = pc]
Return(c) == call' = [call EXCEPT ![c] = NoCall]
At(c, pc) == call[c].pc = pc

\* A statement or command of call c fails, or the process dies: the request is
\* over with what it has done.  Failures the code carries on after are
\* IncrementFails and RevocationFails.
Abandon(c) ==
  /\ ~At(c, "idle") /\ ~At(c, "revoke")
  /\ Return(c)
  /\ UNCHANGED <<store, workload, history>>

\* Begin(c, kind, r): request kind arrives as call c and continues as r.
Begin(c, kind, r) ==
  /\ At(c, "idle")
  /\ kind \in workload.kinds
  /\ call' = [call EXCEPT ![c] = [r EXCEPT !.kind = kind]]

\* A request of an account that takes part in the workload.
Caller(u) == u \in workload.ids /\ Exists(u)

Issue(t, u, at) == credential' = [credential EXCEPT ![t] = [at |-> at, of |-> u]]

Redeem(t) ==
  /\ credential' = [credential EXCEPT ![t].at = "gone"]
  /\ redeemed' = [redeemed EXCEPT ![t] = @ + 1]

-----------------------------------------------------------------------------
(* Registration, login and sessions *)

\* Usernames differ in more than case: the hash of a tombstone is of their
\* lower-case form, on both sides.
CheckTombstone(kind, name) == <<kind, name>> \in tombstones

\* Register: the tombstone of the email, then the one of the username.
Register(c, e, n) ==
  /\ ~CheckTombstone("email", e)
  /\ Begin(c, "register", [NoCall EXCEPT !.pc = "username", !.email = e, !.name = n,
                                         !.past = tombstones])
  /\ UNCHANGED <<store, workload, history>>

(* Every operator whose comment reads "Variant" stands, in mutation checks *)
(* only, for the definition that follows it; none is part of the model.    *)

\* Variant: a released username is not looked up.
RegisterNameUnchecked(c) ==
  /\ At(c, "username")
  /\ Goto(c, "create")
  /\ UNCHANGED <<store, workload, history>>

RegisterName(c) ==
  /\ At(c, "username")
  /\ IF CheckTombstone("username", call[c].name) THEN Return(c) ELSE Goto(c, "create")
  /\ UNCHANGED <<store, workload, history>>

\* user.Create: the unique constraints on email and username decide.
CreateUser(c, u, t) ==
  /\ At(c, "create")
  /\ IF \E o \in Ids : Exists(o) /\ (users[o].email = call[c].email \/ users[o].name = call[c].name)
     THEN Return(c) /\ UNCHANGED store
     ELSE /\ u \in workload.ids /\ users[u] = NoUser
          /\ t \in Fresh(Links)
          /\ users' = [users EXCEPT ![u] = [NoUser EXCEPT !.at = "live", !.email = call[c].email,
                                                          !.name = call[c].name]]
          /\ Issue(t, u, "new")
          /\ call' = [call EXCEPT ![c].pc = "issue", ![c].id = u]
          /\ UNCHANGED <<codes, tombstones, pending, attempts, sessions>>
  /\ UNCHANGED <<workload, history>>

\* issueTokens: the access token leaves no trace, the refresh token is stored.
IssueTokens(c) ==
  LET u == call[c].id IN
  /\ At(c, "issue")
  /\ sessions' = [sessions EXCEPT ![u] = @ \cup {IF Exists(u) THEN "before" ELSE "after"}]
  /\ Return(c)
  /\ UNCHANGED <<users, credential, codes, tombstones, pending, attempts, workload, history>>

\* Login reads the credentials and goes for tokens or for an MFA ticket.
Login(c, u) ==
  /\ Caller(u)
  /\ Begin(c, "login", [NoCall EXCEPT !.id = u,
                          !.pc = IF users[u].secret = None THEN "issue" ELSE "ticket"])
  /\ UNCHANGED <<store, workload, history>>

CreateMFATicket(c, t) ==
  /\ At(c, "ticket")
  /\ t \in Fresh(MFATickets)
  /\ Issue(t, call[c].id, "open")
  /\ Return(c)
  /\ UNCHANGED <<users, codes, tombstones, pending, attempts, sessions, workload, history>>

\* Logout, and the last step of DisableMFA and DeleteAccount.
RevokeAll(u) == sessions' = [sessions EXCEPT ![u] = {}]

Logout(u) ==
  /\ "logout" \in workload.kinds
  /\ u \in workload.ids /\ sessions[u] # {}
  /\ RevokeAll(u)
  /\ UNCHANGED <<users, credential, codes, tombstones, pending, attempts, call, workload, history>>

RevokeSessions(c) ==
  /\ At(c, "revoke")
  /\ RevokeAll(call[c].id)
  /\ Return(c)
  /\ UNCHANGED <<users, credential, codes, tombstones, pending, attempts, workload, history>>

\* The revocation fails or the process dies before it: some sessions or all
\* stay, which DisableMFA and DeleteAccount only log.
RevocationFails(c, left) ==
  LET u == call[c].id IN
  /\ At(c, "revoke")
  /\ sessions' = [sessions EXCEPT ![u] = @ \cap left]
  /\ unrevoked' = IF call[c].kind = "delete" THEN unrevoked \cup {u} ELSE unrevoked
  /\ Return(c)
  /\ UNCHANGED <<users, credential, codes, tombstones, pending, attempts, workload,
                 redeemed, minted, tries, uncounted, raced, stray>>

\* An access token outlives its account, so a deleted user may ask too.
CreateGatewayTicket(u, t) ==
  /\ "gateway" \in workload.kinds
  /\ u \in workload.ids /\ users[u] # NoUser
  /\ t \in Fresh(GatewayTickets)
  /\ Issue(t, u, "open")
  /\ UNCHANGED <<users, codes, tombstones, pending, attempts, sessions, call, workload, history>>

\* Variant: GET and DEL as for a key that is left to expire.
GatewayTicketKept(t) ==
  /\ Redeemable(t)
  /\ redeemed' = [redeemed EXCEPT ![t] = @ + 1]
  /\ UNCHANGED <<store, call, workload, minted, tries, uncounted, raced, stray, unrevoked>>

ConsumeGatewayTicket(t) ==
  /\ Redeemable(t)
  /\ Redeem(t)
  /\ UNCHANGED <<users, codes, tombstones, pending, attempts, sessions, call, workload,
                 minted, tries, uncounted, raced, stray, unrevoked>>

-----------------------------------------------------------------------------
(* Email verification *)

\* VerifyEmail: one transaction; it waits for a resend that holds the row.
VerifyEmail(c, t) ==
  /\ Redeemable(t)
  /\ ~\E o \in Calls : At(o, "insert") /\ t \in call[o].rows
  /\ Begin(c, "verify", [NoCall EXCEPT !.pc = "load", !.id = credential[t].of])
  /\ Redeem(t)
  /\ users' = [users EXCEPT ![credential[t].of].verified = TRUE]
  /\ UNCHANGED <<codes, tombstones, pending, attempts, sessions, workload, minted, tries, uncounted, raced, stray, unrevoked>>

\* GetByID, then the tokens.
LoadVerified(c) ==
  /\ At(c, "load")
  /\ IF Exists(call[c].id) THEN Goto(c, "issue") ELSE Return(c)
  /\ UNCHANGED <<store, workload, history>>

ResendVerification(c, u) ==
  /\ Caller(u) /\ ~users[u].verified
  /\ Begin(c, "resend", [NoCall EXCEPT !.pc = "cooldown", !.id = u])
  /\ UNCHANGED <<store, workload, history>>

\* ReplaceVerificationToken is a READ COMMITTED transaction of three
\* statements: it finds no recent token,
CheckCooldown(c) ==
  /\ At(c, "cooldown")
  /\ IF \E t \in Unconsumed(call[c].id) : credential[t].at = "new"
     THEN Return(c) ELSE Goto(c, "invalidate")
  /\ UNCHANGED <<store, workload, history>>

\* Variant: the links sent before stay as they are.
InvalidateNothing(c) ==
  /\ At(c, "invalidate")
  /\ Goto(c, "insert")
  /\ UNCHANGED <<store, workload, history>>

\* locks and marks the unconsumed tokens its snapshot shows,
InvalidateLinks(c) ==
  /\ At(c, "invalidate")
  /\ call' = [call EXCEPT ![c].pc = "insert", ![c].rows = Unconsumed(call[c].id)]
  /\ UNCHANGED <<store, workload, history>>

\* and inserts the new one and commits.  The user must still be there.
InsertLink(c, t) ==
  LET u == call[c].id IN
  /\ At(c, "insert")
  /\ Return(c)
  /\ IF Exists(u)
     THEN /\ t \in Fresh(Links)
          /\ credential' = [l \in Credentials |->
               IF l = t THEN [at |-> "new", of |-> u]
               ELSE IF l \in call[c].rows THEN [credential[l] EXCEPT !.at = "gone"]
               ELSE credential[l]]
     ELSE UNCHANGED credential
  /\ raced' = raced \cup {o \in {u} : \E d \in Calls \ {c} : At(d, "insert") /\ call[d].id = o}
  /\ UNCHANGED <<users, codes, tombstones, pending, attempts, sessions, workload,
                 redeemed, minted, tries, uncounted, stray, unrevoked>>

-----------------------------------------------------------------------------
(* The second factor *)

UnusedCodes(u) == {k \in Codes : codes[k] = [at |-> "unused", of |-> u]}
DeadCodes == {k \in Codes : codes[k].at \in {"used", "gone"}}

\* codes' when user u loses every code it has and gets the new ones.
Replaced(u, new) ==
  [k \in Codes |-> IF k \in new THEN [at |-> "unused", of |-> u]
                   ELSE IF codes[k].of = u THEN [codes[k] EXCEPT !.at = "gone"]
                   ELSE codes[k]]
NewCodes == Draw({K \in SUBSET Codes : Cardinality(K) = BatchSize /\ \A k \in K : codes[k] = Unissued})

\* BeginMFASetup: read the account, store a new secret, clear the counter.
BeginMFASetup(c, u) ==
  /\ Caller(u) /\ users[u].secret = None
  /\ Begin(c, "setup", [NoCall EXCEPT !.pc = "store", !.id = u])
  /\ UNCHANGED <<store, workload, history>>

StorePendingMFASecret(c, s) ==
  /\ At(c, "store")
  /\ s \in Draw(Secrets \ minted)
  /\ minted' = minted \cup {s}
  /\ pending' = [pending EXCEPT ![call[c].id] = s]
  /\ Goto(c, "reset")
  /\ UNCHANGED <<users, credential, codes, tombstones, attempts, sessions, workload,
                 redeemed, tries, uncounted, raced, stray, unrevoked>>

\* The counter is cleared or expires: the user's secrets get their guesses back.
ClearAttempts(u) ==
  /\ attempts' = [attempts EXCEPT ![u] = 0]
  /\ tries' = [tries EXCEPT ![u] = [s \in Secrets |-> 0]]
  /\ uncounted' = [uncounted EXCEPT ![u] = [s \in Secrets |-> 0]]

ResetMFASetupAttempts(c) ==
  /\ At(c, "reset")
  /\ ClearAttempts(call[c].id)
  /\ Return(c)
  /\ UNCHANGED <<users, credential, codes, tombstones, pending, sessions, workload,
                 redeemed, minted, raced, stray, unrevoked>>

\* ConfirmMFASetup takes the pending secret and checks the code against it.
ConfirmMFASetup(c, u, right) ==
  /\ u \in workload.ids /\ pending[u] # None
  /\ right \/ "guess" \in workload.kinds
  /\ Begin(c, "confirm", [NoCall EXCEPT !.pc = IF right THEN "enable" ELSE "increment",
                                        !.id = u, !.arg = pending[u]])
  /\ pending' = [pending EXCEPT ![u] = None]
  /\ UNCHANGED <<users, credential, codes, tombstones, attempts, sessions, workload, history>>

\* Variant: one attempt too many.
IncrementBeyond(c) ==
  LET u == call[c].id IN
  /\ At(c, "increment")
  /\ attempts' = [attempts EXCEPT ![u] = @ + 1]
  /\ tries' = [tries EXCEPT ![u][call[c].arg] = @ + 1]
  /\ IF attempts[u] + 1 > MaxSetupAttempts THEN Return(c) ELSE Goto(c, "restore")
  /\ UNCHANGED <<users, credential, codes, tombstones, pending, sessions, workload,
                 redeemed, minted, uncounted, raced, stray, unrevoked>>

IncrementMFASetupAttempts(c) ==
  LET u == call[c].id IN
  /\ At(c, "increment")
  /\ attempts' = [attempts EXCEPT ![u] = @ + 1]
  /\ tries' = [tries EXCEPT ![u][call[c].arg] = @ + 1]
  /\ IF attempts[u] + 1 >= MaxSetupAttempts THEN Return(c) ELSE Goto(c, "restore")
  /\ UNCHANGED <<users, credential, codes, tombstones, pending, sessions, workload,
                 redeemed, minted, uncounted, raced, stray, unrevoked>>

\* The increment fails, carried out or not: the count reads 0, the failure is
\* logged and the secret is put back all the same.
IncrementFails(c, counted) ==
  LET u == call[c].id
      s == call[c].arg IN
  /\ At(c, "increment")
  /\ uncounted[u][s] < MaxUncounted
  /\ attempts' = IF counted THEN [attempts EXCEPT ![u] = @ + 1] ELSE attempts
  /\ tries' = [tries EXCEPT ![u][s] = @ + 1]
  /\ uncounted' = [uncounted EXCEPT ![u][s] = @ + 1]
  /\ Goto(c, "restore")
  /\ UNCHANGED <<users, credential, codes, tombstones, pending, sessions, workload,
                 redeemed, minted, raced, stray, unrevoked>>

\* The secret is put back for a retry, whatever was stored meanwhile.
RestorePending(c) ==
  /\ At(c, "restore")
  /\ pending' = [pending EXCEPT ![call[c].id] = call[c].arg]
  /\ Return(c)
  /\ UNCHANGED <<users, credential, codes, tombstones, attempts, sessions, workload, history>>

\* user.EnableMFA: one transaction; it adds codes and removes none, and the
\* foreign key of the codes rolls it back for a deleted user.
EnableMFA(c, new) ==
  LET u == call[c].id IN
  /\ At(c, "enable")
  /\ Return(c)
  /\ IF Exists(u)
     THEN /\ users' = [users EXCEPT ![u].secret = call[c].arg]
          /\ codes' = [k \in Codes |-> IF k \in new THEN [at |-> "unused", of |-> u] ELSE codes[k]]
     ELSE UNCHANGED <<users, codes>>
  /\ UNCHANGED <<credential, tombstones, pending, attempts, sessions, workload, history>>

\* RegenerateRecoveryCodes: read the account, then replace the codes.
RegenerateRecoveryCodes(c, u) ==
  /\ Caller(u) /\ users[u].secret # None
  /\ Begin(c, "regenerate", [NoCall EXCEPT !.pc = "replace", !.id = u])
  /\ UNCHANGED <<store, workload, history>>

ReplaceRecoveryCodes(c, new) ==
  /\ At(c, "replace")
  /\ codes' = IF Exists(call[c].id) THEN Replaced(call[c].id, new) ELSE codes
  /\ Return(c)
  /\ UNCHANGED <<users, credential, tombstones, pending, attempts, sessions, workload, history>>

\* VerifyMFA takes the ticket,
VerifyMFA(c, t) ==
  /\ Redeemable(t)
  /\ Begin(c, "mfa", [NoCall EXCEPT !.pc = "factor", !.id = credential[t].of, !.past = DeadCodes])
  /\ Redeem(t)
  /\ UNCHANGED <<users, codes, tombstones, pending, attempts, sessions, workload, minted, tries, uncounted, raced, stray, unrevoked>>

\* reads the account and checks the one-time password; a code that is none
\* goes on to the recovery codes.
VerifyFactor(c, totp) ==
  /\ At(c, "factor")
  /\ IF ~Exists(call[c].id) \/ users[call[c].id].secret = None THEN Return(c)
     ELSE Goto(c, IF totp THEN "issue" ELSE "recover")
  /\ UNCHANGED <<store, workload, history>>

\* DisableMFA reads the account and checks the same way.
DisableMFA(c, u, totp) ==
  /\ Caller(u) /\ users[u].secret # None
  /\ Begin(c, "disable", [NoCall EXCEPT !.pc = IF totp THEN "disable" ELSE "recover", !.id = u,
                                        !.past = DeadCodes])
  /\ UNCHANGED <<store, workload, history>>

\* Variant: the codes are read whether used or not.
MatchAnyCode(c, k) ==
  /\ At(c, "recover")
  /\ codes[k].of = call[c].id
  /\ IF codes[k].at \in {"unused", "used"}
     THEN call' = [call EXCEPT ![c].pc = "use", ![c].arg = k] ELSE Return(c)
  /\ UNCHANGED <<store, workload, history>>

\* tryRecoveryCode: the unused codes are read and compared with the given one,
MatchRecoveryCode(c, k) ==
  /\ At(c, "recover")
  /\ codes[k].of = call[c].id
  /\ IF k \in UnusedCodes(call[c].id)
     THEN call' = [call EXCEPT ![c].pc = "use", ![c].arg = k] ELSE Return(c)
  /\ UNCHANGED <<store, workload, history>>

\* and the match is marked, used already or not.
UseRecoveryCode(c) ==
  LET k == call[c].arg IN
  /\ At(c, "use")
  /\ codes' = [codes EXCEPT ![k].at = IF @ = "gone" THEN @ ELSE "used"]
  /\ Goto(c, IF call[c].kind = "mfa" THEN "issue" ELSE "disable")
  /\ UNCHANGED <<users, credential, tombstones, pending, attempts, sessions, workload, history>>

\* Variant: the codes stay when the secret goes.
ClearMFAKeepsCodes(c) ==
  LET u == call[c].id IN
  /\ At(c, "disable")
  /\ users' = IF Exists(u) THEN [users EXCEPT ![u].secret = None] ELSE users
  /\ stray' = stray \cup {o \in {u} : \E d \in Calls : At(d, "replace") /\ call[d].id = o}
  /\ Goto(c, "revoke")
  /\ UNCHANGED <<credential, codes, tombstones, pending, attempts, sessions, workload,
                 redeemed, minted, tries, uncounted, raced, unrevoked>>

\* user.DisableMFA: one transaction, then every session is revoked.
ClearMFA(c) ==
  LET u == call[c].id IN
  /\ At(c, "disable")
  /\ users' = IF Exists(u) THEN [users EXCEPT ![u].secret = None] ELSE users
  /\ codes' = Replaced(u, {})
  /\ stray' = stray \cup {o \in {u} : \E d \in Calls : At(d, "replace") /\ call[d].id = o}
  /\ Goto(c, "revoke")
  /\ UNCHANGED <<credential, tombstones, pending, attempts, sessions, workload,
                 redeemed, minted, tries, uncounted, raced, unrevoked>>

-----------------------------------------------------------------------------
(* Deletion, expiry and retention *)

\* DeleteAccount: the server owner is refused.
DeleteAccount(c, u) ==
  /\ Caller(u) /\ u # Owner
  /\ Begin(c, "delete", [NoCall EXCEPT !.pc = "delete", !.id = u])
  /\ UNCHANGED <<store, workload, history>>

Tombs(u) == {<<"email", users[u].email>>} \cup
            (IF TombstoneUsernames THEN {<<"username", users[u].name>>} ELSE {})

\* Variant: the sessions are revoked first and the row is deleted afterwards.
DeleteAfterRevoke(c) ==
  LET u == call[c].id IN
  /\ At(c, "delete")
  /\ Return(c)
  /\ IF Exists(u)
     THEN /\ tombstones' = tombstones \cup Tombs(u)
          /\ users' = [users EXCEPT ![u].at = "gone", ![u].secret = None]
          /\ codes' = Replaced(u, {})
          /\ credential' = [t \in Credentials |->
               IF t \in Unconsumed(u) THEN [credential[t] EXCEPT !.at = "gone"] ELSE credential[t]]
     ELSE UNCHANGED <<tombstones, users, codes, credential>>
  /\ UNCHANGED <<pending, attempts, sessions, workload, history>>

\* One transaction: the tombstones, and the row with all that cascades from it.
DeleteWithTombstones(c) ==
  LET u == call[c].id IN
  /\ At(c, "delete")
  /\ IF Exists(u)
     THEN /\ tombstones' = tombstones \cup Tombs(u)
          /\ users' = [users EXCEPT ![u].at = "gone", ![u].secret = None]
          /\ codes' = Replaced(u, {})
          /\ credential' = [t \in Credentials |->
               IF t \in Unconsumed(u) THEN [credential[t] EXCEPT !.at = "gone"] ELSE credential[t]]
          /\ Goto(c, "revoke")
     ELSE Return(c) /\ UNCHANGED <<tombstones, users, codes, credential>>
  /\ UNCHANGED <<pending, attempts, sessions, workload, history>>

PurgeTombstones(old) ==
  /\ "purge" \in workload.kinds
  /\ old # {}
  /\ tombstones' = tombstones \ old
  /\ call' = [c \in Calls |-> [call[c] EXCEPT !.past = @ \ old]]
  /\ UNCHANGED <<users, credential, codes, pending, attempts, sessions, workload, history>>

\* A token leaves the cooldown and then expires; a ticket's key just goes.
Age(t) ==
  /\ Redeemable(t)
  /\ credential' = [credential EXCEPT ![t].at =
       IF @ = "new" THEN "open" ELSE IF t \in Links THEN "expired" ELSE "gone"]
  /\ UNCHANGED <<users, codes, tombstones, pending, attempts, sessions, call, workload, history>>

ExpirePending(u) ==
  /\ pending[u] # None
  /\ pending' = [pending EXCEPT ![u] = None]
  /\ UNCHANGED <<users, credential, codes, tombstones, attempts, sessions, call, workload, history>>

\* The counter's deadline is set by its first increment alone.
ExpireAttempts(u) ==
  /\ attempts[u] # 0
  /\ ClearAttempts(u)
  /\ UNCHANGED <<users, credential, codes, tombstones, pending, sessions, call, workload,
                 redeemed, minted, raced, stray, unrevoked>>

-----------------------------------------------------------------------------
(* The routes of internal/api *)

AuthRequests(c) ==
  \/ \E e \in Emails, n \in Names : Register(c, e, n)
  \/ \E u \in Ids : Login(c, u)
  \/ \E t \in MFATickets : VerifyMFA(c, t)

VerificationRequests(c) ==
  \/ \E t \in Links : VerifyEmail(c, t)
  \/ \E u \in Ids : ResendVerification(c, u)

MFARequests(c) ==
  \E u \in Ids :
    \/ BeginMFASetup(c, u)
    \/ RegenerateRecoveryCodes(c, u)
    \/ \E right \in BOOLEAN : ConfirmMFASetup(c, u, right) \/ DisableMFA(c, u, right)

DeleteMe(c) == \E u \in Ids : DeleteAccount(c, u)

Continue(c) ==
  \/ Abandon(c)
  \/ \E left \in SUBSET {"before", "after"} : RevocationFails(c, left)
  \/ \E counted \in BOOLEAN : IncrementFails(c, counted)
  \/ RegisterName(c) \/ IssueTokens(c) \/ RevokeSessions(c) \/ LoadVerified(c)
  \/ CheckCooldown(c) \/ InvalidateLinks(c) \/ ResetMFASetupAttempts(c)
  \/ IncrementMFASetupAttempts(c) \/ RestorePending(c) \/ UseRecoveryCode(c)
  \/ ClearMFA(c) \/ DeleteWithTombstones(c)
  \/ \E u \in Ids, t \in Links : CreateUser(c, u, t)
  \/ \E t \in Links : InsertLink(c, t)
  \/ \E t \in MFATickets : CreateMFATicket(c, t)
  \/ \E s \in Secrets : StorePendingMFASecret(c, s)
  \/ \E new \in NewCodes : EnableMFA(c, new) \/ ReplaceRecoveryCodes(c, new)
  \/ \E totp \in BOOLEAN : VerifyFactor(c, totp)
  \/ \E k \in Codes : MatchRecoveryCode(c, k)

GatewayRequests ==
  \/ \E u \in Ids : Logout(u) \/ \E t \in GatewayTickets : CreateGatewayTicket(u, t)
  \/ \E t \in GatewayTickets : ConsumeGatewayTicket(t)

Passage ==
  \/ \E old \in SUBSET tombstones : PurgeTombstones(old)
  \/ \E t \in Credentials : Age(t)
  \/ \E u \in Ids : ExpirePending(u) \/ ExpireAttempts(u)

Next ==
  \/ \E c \in Calls :
       \/ AuthRequests(c) \/ VerificationRequests(c) \/ MFARequests(c) \/ DeleteMe(c)
       \/ Continue(c)
  \/ GatewayRequests
  \/ Passage

Spec == Init /\ [][Next]_vars

-----------------------------------------------------------------------------
(* Properties *)

Phases == {"idle", "username", "create", "issue", "ticket", "revoke", "load", "cooldown",
           "invalidate", "insert", "store", "reset", "enable", "increment", "restore",
           "replace", "factor", "recover", "use", "disable", "delete"}
Kinds == {"none", "register", "login", "verify", "resend", "setup", "confirm", "regenerate",
          "mfa", "disable", "delete"}
TombstoneRows == ({"email"} \X Emails) \cup ({"username"} \X Names)
Call == [kind : Kinds, pc : Phases, id : Ids \cup {None}, email : Emails \cup {None},
         name : Names \cup {None}, arg : Secrets \cup Codes \cup {None},
         rows : SUBSET Links, past : SUBSET (Codes \cup TombstoneRows)]

TypeOK ==
  /\ users \in [Ids -> [at : {"never", "live", "gone"}, email : Emails \cup {None},
                       name : Names \cup {None}, verified : BOOLEAN, secret : Secrets \cup {None}]]
  /\ credential \in [Credentials -> [at : {"none", "new", "open", "expired", "gone"},
                                    of : Ids \cup {None}]]
  /\ codes \in [Codes -> [at : {"none", "unused", "used", "gone"}, of : Ids \cup {None}]]
  /\ tombstones \subseteq TombstoneRows
  /\ pending \in [Ids -> Secrets \cup {None}]
  /\ attempts \in [Ids -> Nat]
  /\ sessions \in [Ids -> SUBSET {"before", "after"}]
  /\ call \in [Calls -> Call] /\ workload \in Workloads
  /\ redeemed \in [Credentials -> Nat] /\ minted \subseteq Secrets
  /\ tries \in [Ids -> [Secrets -> Nat]]
  /\ uncounted \in [Ids -> [Secrets -> Nat]]
  /\ raced \subseteq Ids /\ stray \subseteq Ids /\ unrevoked \subseteq Ids

\* Verification tokens, MFA tickets and gateway tickets are one-time
\* credentials: whatever logins, resends, deletions and expiries interleave,
\* each is issued once and redeemed at most once (ConsumeMFATicket,
\* ConsumeGatewayTicket, user.VerifyEmail, ReplaceVerificationToken).
OneTimeTokens == INSTANCE OneTime WITH
  live <- {t \in Credentials : Redeemable(t)},
  issued <- {t \in Credentials : credential[t] # Unissued}

OneTimeSpec == OneTimeTokens!Spec

\* A recovery code that was spent or withdrawn before a call began does not
\* get that call through tryRecoveryCode.  (Two calls that overlap may both
\* spend one code: the read and the marking are separate statements.)
SpentCodesRefused ==
  \A c \in Calls : At(c, "use") => call[c].arg \notin call[c].past

\* Recovery codes outlive the second factor only when RegenerateRecoveryCodes
\* had read the account before DisableMFA committed; they would be good again
\* once the user enables MFA anew, for EnableMFA removes none.
CodesGoWithMFA ==
  \A u \in Ids : users[u].secret = None /\ UnusedCodes(u) # {} => u \in stray

\* No more than maxMFASetupAttempts wrong codes, and one more for each increment
\* that failed (ConfirmMFASetup logs it and puts the secret back), are taken
\* for one pending secret until the user's counter is cleared or expires, in
\* whatever order confirmations, restorations and new setups interleave.
SetupGuessesBounded ==
  \A u \in Ids, s \in Secrets : tries[u][s] <= MaxSetupAttempts + uncounted[u][s]

\* A registration never takes an email or a username whose tombstone stood
\* when it began and was not purged meanwhile (Register, DeleteAccount).
TombstonesHold ==
  \A c \in Calls : call[c].kind = "register" /\ At(c, "issue") =>
     /\ <<"email", call[c].email>> \notin call[c].past
     /\ <<"username", call[c].name>> \notin call[c].past

\* A session issued while the account existed outlives it only until the
\* deletion's last step, or because that step failed or was never reached (it
\* is best-effort): whatever logins, verifications and deletions interleave,
\* none is stored behind a revocation that succeeded.
OldSessionsEndWithAccount ==
  \A u \in Ids :
    users[u].at = "gone" /\ "before" \in sessions[u] =>
      \/ \E c \in Calls : call[c].kind = "delete" /\ call[c].id = u /\ At(c, "revoke")
      \/ u \in unrevoked

\* Two verification links of a user work together only if two resends were
\* past their UPDATE at the same time (ReplaceVerificationToken).
SecondLinkRaced ==
  \A u \in Ids : Cardinality({t \in Links : Redeemable(t) /\ credential[t].of = u}) > 1 => u \in raced
=============================================================================
