---------------------------- MODULE GatewayPresence ----------------------------
(***************************************************************************)
(* Presence: the presence:{user} keys of internal/presence/presence.go and  *)
(* the gateway code that keeps them (internal/gateway/hub.go: Identify,     *)
(* Resume, presence updates, unregister, delayedOffline, Shutdown).         *)
(*                                                                          *)
(* A key holds a status for presenceTTL.  What other users are shown is the *)
(* last PRESENCE_UPDATE published; publishPresence is synchronous, so the   *)
(* order of publications is the order others see.  Heartbeats renew the key *)
(* of a connected user, so it lapses only without a connection.             *)
(***************************************************************************)
EXTENDS GatewayHub, Integers, FiniteSets

CONSTANTS
  MaxUpdates,  \* bound: presence updates sent by clients
  MaxFailures  \* bound: Valkey calls that fail

ASSUME PresenceAssumption ==
  MaxUpdates \in Nat /\ MaxFailures \in Nat

Online == "online"
Idle == "idle"
Invisible == "invisible"
Offline == "offline"

\* ValidStatus; dnd behaves as idle does.
Settable == {Online, Idle, Invisible}

VARIABLES
  phase,       \* per connection: where its reader is
  userOf,      \* per connection: the authenticated user
  pending,     \* per connection: the status its reader is about to publish
  key,         \* presence:{user}: a status, or None
  shown,       \* per user: the status others were last told
  timer,       \* per connection: the delayedOffline its unregister started
  up,          \* Shutdown has not run
  lost,        \* history: users with a publication that failed
  allowed      \* updates and failures left

presenceVars == <<phase, userOf, pending, registered, key, shown, timer, up, lost, allowed>>

PresenceInit ==
  /\ phase = [c \in Clients |-> "new"]
  /\ userOf = [c \in Clients |-> None]
  /\ pending = [c \in Clients |-> None]
  /\ registered = {}
  /\ key = [u \in Users |-> None]
  /\ shown = [u \in Users |-> Offline]
  /\ timer = [c \in Clients |-> "none"]
  /\ up = TRUE
  /\ lost = {}
  /\ allowed = [updates |-> MaxUpdates, failures |-> MaxFailures]

-----------------------------------------------------------------------------
\* Hub.clients[u]
ConnectionsOf(u) == {c \in registered : userOf[c] = u}

Fails == allowed.failures > 0 /\ allowed' = [allowed EXCEPT !.failures = @ - 1]
Works == UNCHANGED allowed

\* Store.Set and Store.Delete; the callers log a failure and go on.
SetPresence(u, status) ==
  \/ Works /\ key' = [key EXCEPT ![u] = status]
  \/ Fails /\ UNCHANGED key

\* publishPresence
PublishPresence(u, status) ==
  \/ Works /\ shown' = [shown EXCEPT ![u] = status] /\ UNCHANGED lost
  \/ Fails /\ lost' = lost \cup {u} /\ UNCHANGED shown

\* An operator that stands directly before another and repeats it with one
\* slip (ByFirst, Never) is a variant for mutation checks and no part
\* of the model.

\* handlePresenceUpdate's broadcast status.
Broadcast(status) == IF status = Invisible THEN Offline ELSE status

-----------------------------------------------------------------------------
(* Readers. *)

\* handleIdentify: presence is set before READY is read and the client added.
IdentifySet(c, u) ==
  /\ phase[c] = "new"
  /\ phase' = [phase EXCEPT ![c] = "register"]
  /\ userOf' = [userOf EXCEPT ![c] = u]
  /\ SetPresence(u, Online)
  /\ UNCHANGED <<pending, registered, shown, timer, up, lost>>

\* READY cannot be assembled, or register refuses: the connection is closed.
IdentifyAbort(c) ==
  /\ phase[c] = "register"
  /\ phase' = [phase EXCEPT ![c] = "gone"]
  /\ UNCHANGED <<userOf, pending, registered, key, shown, timer, up, lost, allowed>>

IdentifyRegister(c) ==
  /\ phase[c] = "register"
  /\ phase' = [phase EXCEPT ![c] = "publish"]
  /\ pending' = [pending EXCEPT ![c] = Online]
  /\ registered' = registered \cup {c}
  /\ UNCHANGED <<userOf, key, shown, timer, up, lost, allowed>>

\* handleResume up to the presence lookup.
ResumeRegister(c, u) ==
  /\ phase[c] = "new"
  /\ phase' = [phase EXCEPT ![c] = "get"]
  /\ userOf' = [userOf EXCEPT ![c] = u]
  /\ registered' = registered \cup {c}
  /\ UNCHANGED <<pending, key, shown, timer, up, lost, allowed>>

\* presence.Get: a missing key reads as offline; a failed read as nothing, and
\* then Refresh has no effect either.
ResumeGet(c) ==
  /\ phase[c] = "get"
  /\ \/ Works /\ phase' = [phase EXCEPT ![c] = IF key[userOf[c]] = None THEN "set" ELSE "open"]
     \/ Fails /\ phase' = [phase EXCEPT ![c] = "open"]
  /\ UNCHANGED <<userOf, pending, registered, key, shown, timer, up, lost>>

ResumeSet(c) ==
  /\ phase[c] = "set"
  /\ \/ /\ Works
        /\ key' = [key EXCEPT ![userOf[c]] = Online]
        /\ phase' = [phase EXCEPT ![c] = "publish"]
        /\ pending' = [pending EXCEPT ![c] = Online]
     \/ /\ Fails
        /\ phase' = [phase EXCEPT ![c] = "open"]
        /\ UNCHANGED <<key, pending>>
  /\ UNCHANGED <<userOf, registered, shown, timer, up, lost>>

\* handlePresenceUpdate: Set, then publish.
UpdateSet(c, status) ==
  /\ phase[c] = "open"
  /\ allowed.updates > 0
  /\ allowed' = [allowed EXCEPT !.updates = @ - 1]
  /\ key' = [key EXCEPT ![userOf[c]] = status]
  /\ phase' = [phase EXCEPT ![c] = "publish"]
  /\ pending' = [pending EXCEPT ![c] = Broadcast(status)]
  /\ UNCHANGED <<userOf, registered, shown, timer, up, lost>>

\* The publication that ends Identify, Resume or an update.
ReaderPublish(c) ==
  /\ phase[c] = "publish"
  /\ phase' = [phase EXCEPT ![c] = "open"]
  /\ pending' = [pending EXCEPT ![c] = None]
  /\ PublishPresence(userOf[c], pending[c])
  /\ UNCHANGED <<userOf, registered, key, timer, up>>

UnregisterPresenceByFirst(c) ==
  /\ phase[c] = "open"
  /\ phase' = [phase EXCEPT ![c] = "gone"]
  /\ registered' = registered \ {c}
  /\ timer' = [timer EXCEPT ![c] =
       IF c \in registered /\ Cardinality(ConnectionsOf(userOf[c])) > 1 THEN "waiting" ELSE @]
  /\ UNCHANGED <<userOf, pending, key, shown, up, lost, allowed>>

\* unregister: the last connection of a user starts delayedOffline.  After
\* Shutdown the client is not found and nothing is started.
UnregisterPresence(c) ==
  /\ phase[c] = "open"
  /\ phase' = [phase EXCEPT ![c] = "gone"]
  /\ registered' = registered \ {c}
  /\ timer' = [timer EXCEPT ![c] =
       IF c \in registered /\ ConnectionsOf(userOf[c]) = {c} THEN "waiting" ELSE @]
  /\ UNCHANGED <<userOf, pending, key, shown, up, lost, allowed>>

-----------------------------------------------------------------------------
(* delayedOffline, after its sleep. *)

TimerCheck(c) ==
  /\ timer[c] = "waiting"
  /\ timer' = [timer EXCEPT ![c] = IF ConnectionsOf(userOf[c]) = {} THEN "delete" ELSE "none"]
  /\ UNCHANGED <<phase, userOf, pending, registered, key, shown, up, lost, allowed>>

TimerDelete(c) ==
  /\ timer[c] = "delete"
  /\ timer' = [timer EXCEPT ![c] = "publish"]
  /\ SetPresence(userOf[c], None)
  /\ UNCHANGED <<phase, userOf, pending, registered, shown, up, lost>>

TimerPublish(c) ==
  /\ timer[c] = "publish"
  /\ timer' = [timer EXCEPT ![c] = "none"]
  /\ PublishPresence(userOf[c], Offline)
  /\ UNCHANGED <<phase, userOf, pending, registered, key, up>>

-----------------------------------------------------------------------------
InHandshake(u) == \E c \in Clients : userOf[c] = u /\ phase[c] = "register"

ExpirePresenceNever(u) == u \notin Users /\ UNCHANGED presenceVars

\* presenceTTL passes without a Set or a Refresh.
ExpirePresence(u) ==
  /\ key[u] # None
  /\ ConnectionsOf(u) = {} /\ ~InHandshake(u)
  /\ key' = [key EXCEPT ![u] = None]
  /\ UNCHANGED <<phase, userOf, pending, registered, shown, timer, up, lost, allowed>>

\* Shutdown: presence keys of connected users are deleted, every connection is
\* closed and forgotten.  Readers inside a handler finish it.
ShutdownPresence ==
  /\ up
  /\ up' = FALSE
  /\ \/ Works /\ key' = [u \in Users |-> IF ConnectionsOf(u) = {} THEN key[u] ELSE None]
     \/ Fails /\ UNCHANGED key
  /\ registered' = {}
  /\ UNCHANGED <<phase, userOf, pending, shown, timer, lost>>

-----------------------------------------------------------------------------
ReaderStep(c) ==
  \/ IdentifyAbort(c) \/ IdentifyRegister(c) \/ ResumeGet(c) \/ ResumeSet(c) \/ ReaderPublish(c)

TimerStep(c) == TimerCheck(c) \/ TimerDelete(c) \/ TimerPublish(c)

PresenceNext ==
  \/ \E c \in Clients :
       \/ ReaderStep(c) \/ TimerStep(c) \/ UnregisterPresence(c)
       \/ \E u \in Users : IdentifySet(c, u) \/ ResumeRegister(c, u)
       \/ \E status \in Settable : UpdateSet(c, status)
  \/ \E u \in Users : ExpirePresence(u)
  \/ ShutdownPresence

PresenceSpec == PresenceInit /\ [][PresenceNext]_presenceVars

\* Handlers and timers finish, and Valkey drops a key whose TTL has passed.
\* Peers may stay, leave or send nothing.
PresenceFairness ==
  /\ \A c \in Clients : WF_presenceVars(ReaderStep(c)) /\ WF_presenceVars(TimerStep(c))
  /\ \A u \in Users : WF_presenceVars(ExpirePresence(u))

FairPresenceSpec == PresenceSpec /\ PresenceFairness

-----------------------------------------------------------------------------
\* The type of every variable.  Offline is never stored.
PresenceTypeOK ==
  /\ phase \in [Clients -> {"new", "register", "get", "set", "publish", "open", "gone"}]
  /\ userOf \in [Clients -> Users \cup {None}]
  /\ pending \in [Clients -> {Online, Idle, Offline, None}]
  /\ registered \subseteq Clients
  /\ key \in [Users -> Settable \cup {None}]
  /\ shown \in [Users -> {Online, Idle, Offline}]
  /\ timer \in [Clients -> {"none", "waiting", "delete", "publish"}]
  /\ up \in BOOLEAN
  /\ lost \subseteq Users
  /\ allowed \in [updates : 0 .. MaxUpdates, failures : 0 .. MaxFailures]

\* While the server runs, a user who is shown to be there is connected, or a
\* delayedOffline is on its way that will say otherwise: the connection that
\* unregister finds to be the last one never leaves without starting it, and
\* a delayedOffline gives up only when another connection has taken over.
OfflineIsOwed ==
  \A u \in Users :
    up /\ u \notin lost /\ shown[u] # Offline =>
      \/ ConnectionsOf(u) # {}
      \/ \E c \in Clients : userOf[c] = u /\ timer[c] # "none"

\* A user who never connects again loses the presence key, however Identify,
\* a presence update and the timers raced (in the end by its TTL).
NoGhostPresence ==
  \A u \in Users :
    <>[](\A c \in Clients : userOf[c] = u => phase[c] = "gone") => <>[](key[u] = None)

\* Violated (hub.go, delayedOffline "publishes an offline presence event if the
\* user has not reconnected"): offline is announced for nobody who is connected.
OfflineOnlyIfGone ==
  [][\A c \in Clients : TimerPublish(c) => ConnectionsOf(userOf[c]) = {}]_presenceVars

\* Violated (presence.go, "StatusInvisible makes the user appear offline to
\* others while remaining connected"): with no publication under way, a user
\* whose stored status is invisible is shown as offline.
InvisibleAppearsOffline ==
  \A u \in Users :
    /\ key[u] = Invisible /\ u \notin lost
    /\ \A c \in Clients : userOf[c] = u => phase[c] # "publish"
    => shown[u] = Offline
=============================================================================
