---------------------------- MODULE GatewayProofs -----------------------------
(***************************************************************************)
(* The gateway's presence and sessions, for any number of connections,     *)
(* users, sessions and events: who is shown as present is connected or is  *)
(* about to be announced offline; sessions receive only what is meant for  *)
(* their user; and a session is saved with a counter that is not behind    *)
(* its peer.                                                               *)
(***************************************************************************)
EXTENDS GatewaySession, GatewayPresence, FiniteSetTheorems, WellFoundedInduction, TLAPS

-----------------------------------------------------------------------------
(* Presence *)

\* Readers past register are in the registry until Shutdown empties it; a
\* connection that has a user keeps it, and a delayedOffline belongs to a
\* connection that is gone.
Registry ==
  \A c \in Clients :
    /\ phase[c] # "new" => userOf[c] \in Users
    /\ up /\ phase[c] \in {"get", "set", "publish", "open"} => c \in registered
    /\ c \in registered => phase[c] # "new"
    /\ timer[c] # "none" => phase[c] = "gone"
    /\ phase[c] = "publish" => pending[c] \in {Online, Idle, Offline}

\* The inductive invariant of presence.
PresenceInv == PresenceTypeOK /\ Registry /\ OfflineIsOwed

\* The names of the statuses differ.
LEMMA Statuses ==
  /\ Online = "online" /\ Idle = "idle" /\ Invisible = "invisible" /\ Offline = "offline"
  /\ Settable = {Online, Idle, Invisible}
BY DEF Online, Idle, Invisible, Offline, Settable

\* Presence keeps its types.
LEMMA PresenceTyped ==
  ASSUME PresenceTypeOK, Registry, [PresenceNext]_presenceVars
  PROVE  PresenceTypeOK'
<1> USE HubAssumption, PresenceAssumption, Statuses
<1> USE DEF PresenceTypeOK, Fails, Works
<1>1. ASSUME NEW c \in Clients, ReaderStep(c) \/ TimerStep(c) \/ UnregisterPresence(c)
      PROVE  PresenceTypeOK'
  <2>1. CASE IdentifyAbort(c)
    BY <2>1 DEF IdentifyAbort
  <2>2. CASE IdentifyRegister(c)
    BY <2>2 DEF IdentifyRegister
  <2>3. CASE ResumeGet(c)
    BY <2>3 DEF ResumeGet
  <2>4. CASE ResumeSet(c)
    BY <2>4 DEF ResumeSet
  <2>5. CASE ReaderPublish(c)
    BY <2>5 DEF ReaderPublish, PublishPresence, Registry
  <2>6. CASE TimerCheck(c)
    BY <2>6 DEF TimerCheck
  <2>7. CASE TimerDelete(c)
    BY <2>7 DEF TimerDelete, SetPresence
  <2>8. CASE TimerPublish(c)
    BY <2>8 DEF TimerPublish, PublishPresence, Registry
  <2>9. CASE UnregisterPresence(c)
    BY <2>9 DEF UnregisterPresence
  <2> QED BY <1>1, <2>1, <2>2, <2>3, <2>4, <2>5, <2>6, <2>7, <2>8, <2>9
          DEF ReaderStep, TimerStep
<1>2. ASSUME NEW c \in Clients, NEW u \in Users, IdentifySet(c, u) \/ ResumeRegister(c, u)
      PROVE  PresenceTypeOK'
  BY <1>2 DEF IdentifySet, ResumeRegister, SetPresence
<1>3. ASSUME NEW c \in Clients, NEW status \in Settable, UpdateSet(c, status)
      PROVE  PresenceTypeOK'
  <2>1. Broadcast(status) \in {Online, Idle, Offline} /\ status \in Settable
    BY DEF Broadcast
  <2>2. userOf[c] \in Users
    BY <1>3 DEF UpdateSet, Registry
  <2>3. allowed' \in [updates : 0 .. MaxUpdates, failures : 0 .. MaxFailures]
    BY <1>3 DEF UpdateSet
  <2>4. pending' \in [Clients -> {Online, Idle, Offline, None}]
    BY <1>3, <2>1 DEF UpdateSet
  <2>5. key' \in [Users -> Settable \cup {None}]
    BY <1>3, <2>1, <2>2 DEF UpdateSet
  <2>6. phase' \in [Clients -> {"new", "register", "get", "set", "publish", "open", "gone"}]
    BY <1>3 DEF UpdateSet
  <2> QED BY <1>3, <2>3, <2>4, <2>5, <2>6 DEF UpdateSet
<1>4. ASSUME NEW u \in Users, ExpirePresence(u)
      PROVE  PresenceTypeOK'
  BY <1>4 DEF ExpirePresence
<1>5. CASE ShutdownPresence
  <2>1. allowed' \in [updates : 0 .. MaxUpdates, failures : 0 .. MaxFailures]
    BY <1>5 DEF ShutdownPresence
  <2>2. key' \in [Users -> Settable \cup {None}]
    BY <1>5 DEF ShutdownPresence
  <2> QED BY <1>5, <2>1, <2>2 DEF ShutdownPresence
<1>6. CASE UNCHANGED presenceVars
  BY <1>6 DEF presenceVars
<1> QED BY <1>1, <1>2, <1>3, <1>4, <1>5, <1>6 DEF PresenceNext


\* The registry and the timers stay in step with the readers.
LEMMA RegistryKept ==
  ASSUME PresenceTypeOK, Registry, [PresenceNext]_presenceVars
  PROVE  Registry'
<1> USE Statuses DEF PresenceTypeOK, Registry
<1>1. ASSUME NEW c \in Clients, ReaderStep(c) \/ TimerStep(c) \/ UnregisterPresence(c)
      PROVE  Registry'
  <2>1. CASE IdentifyAbort(c)
    BY <2>1 DEF IdentifyAbort
  <2>2. CASE IdentifyRegister(c)
    BY <2>2 DEF IdentifyRegister
  <2>3. CASE ResumeGet(c)
    BY <2>3 DEF ResumeGet
  <2>4. CASE ResumeSet(c)
    BY <2>4 DEF ResumeSet
  <2>5. CASE ReaderPublish(c)
    BY <2>5 DEF ReaderPublish
  <2>6. CASE TimerCheck(c)
    BY <2>6 DEF TimerCheck
  <2>7. CASE TimerDelete(c)
    BY <2>7 DEF TimerDelete
  <2>8. CASE TimerPublish(c)
    BY <2>8 DEF TimerPublish
  <2>9. CASE UnregisterPresence(c)
    BY <2>9 DEF UnregisterPresence
  <2> QED BY <1>1, <2>1, <2>2, <2>3, <2>4, <2>5, <2>6, <2>7, <2>8, <2>9
          DEF ReaderStep, TimerStep
<1>2. ASSUME NEW c \in Clients, NEW u \in Users, IdentifySet(c, u) \/ ResumeRegister(c, u)
      PROVE  Registry'
  BY <1>2 DEF IdentifySet, ResumeRegister
<1>3. ASSUME NEW c \in Clients, NEW status \in Settable, UpdateSet(c, status)
      PROVE  Registry'
  <2>1. Broadcast(status) \in {Online, Idle, Offline}
    BY DEF Broadcast
  <2> QED BY <1>3, <2>1 DEF UpdateSet
<1>4. ASSUME NEW u \in Users, ExpirePresence(u)
      PROVE  Registry'
  BY <1>4 DEF ExpirePresence
<1>5. CASE ShutdownPresence
  BY <1>5 DEF ShutdownPresence
<1>6. CASE UNCHANGED presenceVars
  BY <1>6 DEF presenceVars
<1> QED BY <1>1, <1>2, <1>3, <1>4, <1>5, <1>6 DEF PresenceNext

\* A user who is there, or owed an offline notice.
Covered(u) ==
  \/ ConnectionsOf(u) # {}
  \/ \E c \in Clients : userOf[c] = u /\ timer[c] # "none"

\* Nobody is forgotten.
LEMMA OfflineStaysOwed ==
  ASSUME PresenceInv, [PresenceNext]_presenceVars
  PROVE  OfflineIsOwed'
<1> SUFFICES ASSUME NEW u \in Users, up', u \notin lost', shown'[u] # Offline
             PROVE  Covered(u)'
  BY DEF OfflineIsOwed, Covered
<1> USE DEF PresenceInv, PresenceTypeOK
<1>0. up /\ u \notin lost /\ shown[u] # Offline => Covered(u)
  BY DEF OfflineIsOwed, Covered
\* A step that keeps what is shown, the connections and the timers.
<1>k. ASSUME up' = up, lost \subseteq lost', shown' = shown,
             registered \subseteq registered', userOf' = userOf, timer' = timer
      PROVE  Covered(u)'
  BY <1>k, <1>0 DEF Covered, ConnectionsOf
<1>1. ASSUME NEW c \in Clients, ReaderStep(c) \/ TimerStep(c) \/ UnregisterPresence(c)
      PROVE  Covered(u)'
  <2>1. CASE IdentifyAbort(c)
    BY <2>1, <1>k DEF IdentifyAbort
  <2>2. CASE IdentifyRegister(c)
    BY <2>2, <1>k DEF IdentifyRegister
  <2>3. CASE ResumeGet(c)
    BY <2>3, <1>k DEF ResumeGet
  <2>4. CASE ResumeSet(c)
    BY <2>4, <1>k DEF ResumeSet
  <2>5. CASE ReaderPublish(c)
    <3>1. /\ UNCHANGED <<userOf, registered, timer, up>> /\ lost \subseteq lost'
          /\ phase[c] = "publish"
          /\ \A v \in Users \ {userOf[c]} : shown'[v] = shown[v]
      BY <2>5 DEF ReaderPublish, PublishPresence
    <3>2. CASE u = userOf[c]
      BY <3>1, <3>2 DEF Registry, Covered, ConnectionsOf
    <3>3. CASE u # userOf[c]
      BY <3>1, <3>3, <1>0 DEF Covered, ConnectionsOf
    <3> QED BY <3>2, <3>3
  <2>6. CASE TimerCheck(c)
    <3>1. /\ UNCHANGED <<userOf, registered, up, lost, shown>> /\ timer[c] = "waiting"
          /\ timer' = [timer EXCEPT ![c] =
                         IF ConnectionsOf(userOf[c]) = {} THEN "delete" ELSE "none"]
      BY <2>6 DEF TimerCheck
    <3>2. Covered(u)
      BY <3>1, <1>0
    <3>3. ConnectionsOf(u)' = ConnectionsOf(u)
      BY <3>1 DEF ConnectionsOf
    <3> QED BY <3>1, <3>2, <3>3 DEF Covered
  <2>7. CASE TimerDelete(c)
    <3>1. /\ UNCHANGED <<userOf, registered, up, lost, shown>>
          /\ timer' = [timer EXCEPT ![c] = "publish"]
      BY <2>7 DEF TimerDelete
    <3> QED BY <3>1, <1>0 DEF Covered, ConnectionsOf
  <2>8. CASE TimerPublish(c)
    <3>1. /\ UNCHANGED <<userOf, registered, up>> /\ lost \subseteq lost'
          /\ timer' = [timer EXCEPT ![c] = "none"]
          /\ \A v \in Users \ {userOf[c]} : shown'[v] = shown[v]
          /\ userOf[c] \in Users => shown'[userOf[c]] = Offline \/ userOf[c] \in lost'
      BY <2>8 DEF TimerPublish, PublishPresence
    <3>2. u # userOf[c]
      BY <3>1
    <3> QED BY <3>1, <3>2, <1>0 DEF Covered, ConnectionsOf
  <2>9. CASE UnregisterPresence(c)
    <3>1. /\ UNCHANGED <<userOf, up, lost, shown>> /\ phase[c] = "open"
          /\ registered' = registered \ {c}
          /\ timer' = [timer EXCEPT ![c] =
                         IF c \in registered /\ ConnectionsOf(userOf[c]) = {c}
                         THEN "waiting" ELSE @]
      BY <2>9 DEF UnregisterPresence
    <3>2. Covered(u)
      BY <3>1, <1>0
    <3>3. CASE ConnectionsOf(u) = {c}
      <4>1. userOf[c] = u /\ c \in registered
        BY <3>3 DEF ConnectionsOf
      <4>2. timer'[c] = "waiting"
        BY <3>1, <3>3, <4>1
      <4> QED BY <3>1, <4>1, <4>2 DEF Covered
    <3>4. CASE ConnectionsOf(u) # {c} /\ ConnectionsOf(u) # {}
      <4>1. PICK d \in ConnectionsOf(u) : d # c
        BY <3>4
      <4>2. d \in ConnectionsOf(u)'
        BY <3>1, <4>1 DEF ConnectionsOf
      <4> QED BY <4>2 DEF Covered
    <3>5. CASE ConnectionsOf(u) = {}
      <4>1. PICK d \in Clients : userOf[d] = u /\ timer[d] # "none"
        BY <3>2, <3>5 DEF Covered
      <4>2. timer'[d] # "none"
        BY <3>1, <4>1
      <4> QED BY <3>1, <4>1, <4>2 DEF Covered
    <3> QED BY <3>3, <3>4, <3>5
  <2> QED BY <1>1, <2>1, <2>2, <2>3, <2>4, <2>5, <2>6, <2>7, <2>8, <2>9
          DEF ReaderStep, TimerStep
<1>2. ASSUME NEW c \in Clients, NEW v \in Users, IdentifySet(c, v) \/ ResumeRegister(c, v)
      PROVE  Covered(u)'
  <2>1. /\ UNCHANGED <<shown, timer, up, lost>> /\ phase[c] = "new"
        /\ userOf' = [userOf EXCEPT ![c] = v] /\ registered \subseteq registered'
    BY <1>2 DEF IdentifySet, ResumeRegister
  <2>2. c \notin registered /\ timer[c] = "none"
    BY <2>1 DEF Registry
  <2> QED BY <2>1, <2>2, <1>0 DEF Covered, ConnectionsOf
<1>3. ASSUME NEW c \in Clients, NEW status \in Settable, UpdateSet(c, status)
      PROVE  Covered(u)'
  BY <1>3, <1>k DEF UpdateSet
<1>4. ASSUME NEW v \in Users, ExpirePresence(v)
      PROVE  Covered(u)'
  BY <1>4, <1>k DEF ExpirePresence
<1>5. CASE ShutdownPresence
  BY <1>5 DEF ShutdownPresence
<1>6. CASE UNCHANGED presenceVars
  BY <1>6, <1>k DEF presenceVars
<1> QED BY <1>1, <1>2, <1>3, <1>4, <1>5, <1>6 DEF PresenceNext

LEMMA PresenceSound == PresenceSpec => []PresenceInv
<1>1. PresenceInit => PresenceInv
  BY HubAssumption, PresenceAssumption, Statuses
     DEF PresenceInit, PresenceInv, PresenceTypeOK, Registry, OfflineIsOwed
<1>2. PresenceInv /\ [PresenceNext]_presenceVars => PresenceInv'
  BY PresenceTyped, RegistryKept, OfflineStaysOwed DEF PresenceInv
<1> QED BY <1>1, <1>2, PTL DEF PresenceSpec

\* Statuses, registry, timers and publications keep their types; the key never
\* holds offline.
THEOREM PresenceTypeCorrect == PresenceSpec => []PresenceTypeOK
<1>1. PresenceInv => PresenceTypeOK
  BY DEF PresenceInv
<1> QED BY <1>1, PresenceSound, PTL

\* However many connections of however many users come, go and time out: while
\* the server runs, a user others are shown is connected, or a delayedOffline
\* is on its way to announce the end.
THEOREM NobodyIsForgotten == PresenceSpec => []OfflineIsOwed
<1>1. PresenceInv => OfflineIsOwed
  BY DEF PresenceInv
<1> QED BY <1>1, PresenceSound, PTL


-----------------------------------------------------------------------------
(* Sessions *)

\* Where a reader is once its client is identified, and where it is leaving.
Registering == {"register_new", "register_resumed"}
Replaying == {"delete_session", "send_missed", "number"}
Leaving == {"close_send", "save", "exited"}
Identified == Registering \cup Replaying \cup {"greet", "close_send", "save"}

\* Event e was published for the user session s was made for.
MeantFor(s, e) == e \in 1 .. published /\ owner[s] \in audience[e]
Sendable(s, e) == e = Greeting \/ MeantFor(s, e)

\* The highest number the peer of a client may have been sent: while the frames
\* of an earlier connection are replayed, the one RESUMED is about to draw.
Top(r) == IF r.reader \in Replaying THEN r.seq + 1 ELSE r.seq

\* A client knows its user and its session together; what is queued for it and
\* what it is to replay is meant for that session's user.
ClientBound(r) ==
  /\ r \in ClientRecord
  /\ r.conn = "new" => r = NewClient
  /\ r.identified \/ r.reader = "loaded" =>
       r.user \in Users /\ r.session \in Sessions /\ owner[r.session] = r.user
  /\ r.reader = "loaded" => ~r.identified
  /\ r.reader \in Identified => r.identified
  /\ \A i \in 1 .. Len(r.send) :
       r.send[i].seq # 0 => r.identified /\ Sendable(r.session, r.send[i].event)
  /\ \A i \in 1 .. Len(r.missed) : r.identified /\ MeantFor(r.session, r.missed[i].event)

\* Nothing numbered is sent before the client is identified; afterwards, unless
\* its session's buffer was read twice, no number is above Top.
ClientCounted(r) ==
  /\ ~r.identified =>
       r.heard = 0 /\ \A i \in 1 .. Len(r.send) : r.send[i].seq = 0
  /\ r.identified /\ resumes[r.session] <= 1 =>
       /\ r.heard <= Top(r)
       /\ \A i \in 1 .. Len(r.send) : r.send[i].seq <= Top(r)
       /\ r.reader \in {"register_resumed", "delete_session", "send_missed"} =>
            \A i \in 1 .. Len(r.missed) : r.missed[i].seq <= r.seq + 1
       /\ r.reader = "greet" => r.number <= r.seq

ClientsSound == \A c \in Clients : ClientBound(client[c]) /\ ClientCounted(client[c])

\* The registry holds identified clients that are not leaving.
RegistrySound == \A c \in registered : client[c].identified /\ client[c].reader \notin Leaving

\* The dispatcher's targets are meant to have its event, and the number it
\* carries was drawn from the target's counter.
DispatchSound ==
  dispatch # None =>
    /\ dispatch.event \in 1 .. published
    /\ \A c \in Clients : c \in dispatch.todo \/ c = dispatch.target =>
         client[c].identified /\ client[c].user \in audience[dispatch.event]
    /\ \A c \in Clients : c = dispatch.target =>
         dispatch.seq <= client[c].seq /\ -dispatch.seq <= client[c].seq

\* What is stored for a session is its user's.
ValkeySound ==
  \A s \in Sessions :
    /\ saved[s] # None => owner[s] = saved[s].user
    /\ \A i \in 1 .. Len(replay[s]) : MeantFor(s, replay[s][i].event)

ReceivedSound == \A s \in Sessions : \A e \in got[s] : Sendable(s, e)

\* While no buffer of session s was read: a counter saved (or loaded) as n is at
\* most one behind what its connection drew, and only the dispatch that was
\* under way when the connection left can draw that one.
CounterSaved(s, n) ==
  /\ \A i \in 1 .. Len(replay[s]) : replay[s][i].seq <= n + 1
  /\ \A c \in Clients : client[c].identified /\ client[c].session = s =>
       /\ client[c].reader = "exited"
       /\ client[c].seq <= n + 1
       /\ dispatch # None /\ c \in dispatch.todo => client[c].seq <= n

SessionCounted(s) ==
  /\ \A c, d \in Clients :
       client[c].identified /\ client[c].session = s /\
       client[d].identified /\ client[d].session = s => c = d
  /\ \A c \in Clients : client[c].identified /\ client[c].session = s =>
       \A i \in 1 .. Len(replay[s]) : replay[s][i].seq <= client[c].seq
  /\ saved[s] # None => CounterSaved(s, saved[s].lastSeq)
  /\ \A c \in Clients : client[c].reader = "loaded" /\ client[c].session = s =>
       CounterSaved(s, client[c].loaded)

SessionsCounted == \A s \in Sessions : resumes[s] = 0 => SessionCounted(s)

\* The inductive invariant of connections and sessions.
SessionInv ==
  /\ TypeOK /\ ClientsSound /\ RegistrySound /\ DispatchSound /\ ValkeySound
  /\ ReceivedSound /\ SessionsCounted


ClientSound(r) == ClientBound(r) /\ ClientCounted(r)

\* The types of everything but the clients.
OthersTyped ==
  /\ registered \subseteq Clients
  /\ saved \in [Sessions -> [user : Users, lastSeq : Nat] \cup {None}]
  /\ replay \in [Sessions -> Seq(Frames)]
  /\ dispatch \in [event : Events, todo : SUBSET Clients, target : Clients \cup {None},
                   seq : Int] \cup {None}
  /\ published \in 0 .. MaxEvents
  /\ audience \in [Events -> SUBSET Users]
  /\ owner \in [Sessions -> Users \cup {None}]
  /\ appended \in [Sessions -> SUBSET Events]
  /\ got \in [Sessions -> SUBSET (Events \cup {Greeting})]
  /\ seen \in [Sessions -> Nat]
  /\ resumes \in [Sessions -> Nat]
  /\ budget \in [unsequenced : 0 .. MaxUnsequenced, crashes : 0 .. MaxCrashes]

LEMMA TypeSplit == TypeOK <=> client \in [Clients -> ClientRecord] /\ OthersTyped
BY DEF TypeOK, OthersTyped

\* A step of a client that keeps its identity; a counter it loads is the saved one.
Follows(old, new) ==
  /\ new.identified <=> old.identified
  /\ new.identified =>
       /\ new.session = old.session /\ new.user = old.user
       /\ new.seq = old.seq \/ old.seq < new.seq
       /\ old.reader = "exited" => new.reader = "exited"
  /\ new.reader = "loaded" =>
       \/ old.reader = "loaded" /\ new.session = old.session /\ new.loaded = old.loaded
       \/ saved[new.session] # None /\ new.loaded = saved[new.session].lastSeq

\* The same, without drawing a number.
Alike(old, new) == Follows(old, new) /\ (new.identified => new.seq = old.seq)

\* Events that were meant for a session stay so.
LEMMA SameHistory ==
  ASSUME UNCHANGED <<published, audience, owner, resumes>>
  PROVE  /\ \A r : ClientSound(r)' <=> ClientSound(r)
         /\ \A s, e : MeantFor(s, e)' <=> MeantFor(s, e)
         /\ \A s, e : Sendable(s, e)' <=> Sendable(s, e)
<1>1. /\ \A s, e : MeantFor(s, e)' <=> MeantFor(s, e)
      /\ \A s, e : Sendable(s, e)' <=> Sendable(s, e)
  BY DEF MeantFor, Sendable
<1>2. \A r : ClientBound(r)' <=> ClientBound(r)
  BY <1>1 DEF ClientBound
<1>3. \A r : ClientCounted(r)' <=> ClientCounted(r)
  BY DEF ClientCounted, Top
<1> QED BY <1>1, <1>2, <1>3 DEF ClientSound

\* A step in which every client keeps its identity.  A counter moves only before
\* its client has left, or once by the dispatch under way; a counter is stored
\* only if it covers what was drawn; the buffer grows only by drawn numbers.
LEMMA StepKeeps ==
  ASSUME SessionInv, OthersTyped', UNCHANGED <<published, audience, owner, resumes>>,
         NEW new, client' = new, new \in [Clients -> ClientRecord],
         \A c \in Clients : ClientSound(new[c]) /\ Follows(client[c], new[c]),
         \A c \in Clients :
           client[c].identified /\ client[c].reader = "exited" /\ new[c].seq # client[c].seq =>
             /\ new[c].seq = client[c].seq + 1
             /\ dispatch # None /\ c \in dispatch.todo
             /\ dispatch' # None => c \notin dispatch'.todo,
         \A c \in registered' : new[c].identified /\ new[c].reader \notin Leaving,
         DispatchSound',
         \A c \in Clients :
           dispatch' # None /\ c \in dispatch'.todo => dispatch # None /\ c \in dispatch.todo,
         \A s \in Sessions : saved'[s] # None =>
           \/ saved'[s] = saved[s]
           \/ owner[s] = saved'[s].user /\ (resumes[s] = 0 => CounterSaved(s, saved[s].lastSeq)'),
         \A s \in Sessions : \A i \in 1 .. Len(replay'[s]) :
           /\ MeantFor(s, replay'[s][i].event)
           /\ \/ \E j \in 1 .. Len(replay[s]) : replay'[s][i] = replay[s][j]
              \/ \E c \in Clients : /\ client[c].identified /\ client[c].session = s
                                    /\ replay'[s][i].seq <= client[c].seq,
         \A s \in Sessions : \A e \in got'[s] : Sendable(s, e)
  PROVE  SessionInv'
<1>t. TypeOK
  BY DEF SessionInv
<1>1. TypeOK'
  BY DEF TypeOK, OthersTyped
<1>2. ClientsSound'
  <2> SUFFICES ASSUME NEW c \in Clients PROVE ClientSound(client[c])'
    BY DEF ClientsSound, ClientSound
  <2>1. PICK r : r = new[c]
    OBVIOUS
  <2>2. ClientSound(r)'
    BY <2>1, SameHistory
  <2>3. r = client'[c]
    BY <2>1
  <2> QED BY <2>2, <2>3
          DEF ClientSound, ClientBound, ClientCounted, Top, MeantFor, Sendable
<1>3. RegistrySound'
  BY DEF RegistrySound
<1>5. ValkeySound'
  <2> SUFFICES ASSUME NEW s \in Sessions
               PROVE  /\ saved'[s] # None => owner[s] = saved'[s].user
                      /\ \A i \in 1 .. Len(replay'[s]) : MeantFor(s, replay'[s][i].event)
    BY DEF ValkeySound, MeantFor
  <2> QED BY DEF SessionInv, ValkeySound
<1>6. ReceivedSound'
  BY DEF ReceivedSound, Sendable, MeantFor
<1>7. SessionsCounted'
  <2> SUFFICES ASSUME NEW s \in Sessions, resumes[s] = 0 PROVE SessionCounted(s)'
    BY DEF SessionsCounted
  <2>1. SessionCounted(s)
    BY DEF SessionInv, SessionsCounted
  <2>n. /\ \A c \in Clients : client[c].seq \in Nat /\ new[c].seq \in Nat /\ client[c].loaded \in Nat
        /\ saved[s] # None => saved[s].lastSeq \in Nat
        /\ \A i \in 1 .. Len(replay[s]) : replay[s][i].seq \in Nat
        /\ \A i \in 1 .. Len(replay'[s]) : replay'[s][i].seq \in Nat
    <3>1. \A c \in Clients : client[c].seq \in Nat /\ new[c].seq \in Nat /\ client[c].loaded \in Nat
      BY <1>t DEF TypeOK, ClientRecord
    <3>2. saved[s] # None => saved[s].lastSeq \in Nat
      BY <1>t DEF TypeOK
    <3>3. replay[s] \in Seq(Frames) /\ replay'[s] \in Seq(Frames)
      BY <1>t, <1>1 DEF TypeOK
    <3>4. /\ \A i \in 1 .. Len(replay[s]) : replay[s][i] \in Frames
          /\ \A i \in 1 .. Len(replay'[s]) : replay'[s][i] \in Frames
      BY <3>3
    <3> QED BY <3>1, <3>2, <3>4 DEF Frames
  <2>3. ASSUME NEW n \in Nat, CounterSaved(s, n) PROVE CounterSaved(s, n)'
    <3>1. \A i \in 1 .. Len(replay'[s]) : replay'[s][i].seq <= n + 1
      <4> SUFFICES ASSUME NEW i \in 1 .. Len(replay'[s]) PROVE replay'[s][i].seq <= n + 1
        OBVIOUS
      <4>1. CASE \E j \in 1 .. Len(replay[s]) : replay'[s][i] = replay[s][j]
        BY <2>3, <4>1 DEF CounterSaved
      <4>2. CASE \E c \in Clients : /\ client[c].identified /\ client[c].session = s
                                    /\ replay'[s][i].seq <= client[c].seq
        BY <2>3, <2>n, <4>2 DEF CounterSaved
      <4> QED BY <4>1, <4>2
    <3>2. ASSUME NEW c \in Clients, client'[c].identified, client'[c].session = s
          PROVE  /\ client'[c].reader = "exited"
                 /\ client'[c].seq <= n + 1
                 /\ dispatch' # None /\ c \in dispatch'.todo => client'[c].seq <= n
      <4>1. /\ client[c].identified /\ client[c].session = s
            /\ client[c].reader = "exited" => client'[c].reader = "exited"
        BY <3>2 DEF Follows
      <4>2. /\ client[c].reader = "exited" /\ client[c].seq <= n + 1
            /\ dispatch # None /\ c \in dispatch.todo => client[c].seq <= n
        BY <2>3, <4>1 DEF CounterSaved
      <4> QED BY <2>n, <4>1, <4>2
    <3> QED BY <3>1, <3>2 DEF CounterSaved
  <2>4. saved'[s] # None => CounterSaved(s, saved[s].lastSeq)'
    <3> SUFFICES ASSUME saved'[s] # None, saved'[s] = saved[s]
                 PROVE  CounterSaved(s, saved[s].lastSeq)'
      OBVIOUS
    <3>1. PICK n : n = saved[s].lastSeq
      OBVIOUS
    <3>2. CounterSaved(s, n) /\ n \in Nat
      BY <2>1, <2>n, <3>1 DEF SessionCounted
    <3>3. CounterSaved(s, n)'
      BY <2>3, <3>2
    <3>4. saved'[s].lastSeq = n
      BY <3>1
    <3> QED BY <3>3, <3>4 DEF CounterSaved
  <2>5. ASSUME NEW c \in Clients, client'[c].reader = "loaded", client'[c].session = s
        PROVE  CounterSaved(s, client[c].loaded)'
    <3>1. PICK n : n = client'[c].loaded
      OBVIOUS
    <3>2. CounterSaved(s, n) /\ n \in Nat
      BY <2>1, <2>5, <2>n, <3>1 DEF SessionCounted, Follows
    <3>3. CounterSaved(s, n)'
      BY <2>3, <3>2
    <3> QED BY <3>1, <3>3 DEF CounterSaved
  <2>6. \A c, d \in Clients :
          client'[c].identified /\ client'[c].session = s /\
          client'[d].identified /\ client'[d].session = s => c = d
    BY <2>1 DEF SessionCounted, Follows
  <2>7. ASSUME NEW c \in Clients, client'[c].identified, client'[c].session = s,
               NEW i \in 1 .. Len(replay'[s])
        PROVE  replay'[s][i].seq <= client'[c].seq
    <3>1. client[c].identified /\ client[c].session = s /\ client[c].seq <= client'[c].seq
      BY <2>7, <2>n DEF Follows
    <3>2. replay'[s][i].seq <= client[c].seq
      BY <2>1, <3>1 DEF SessionCounted
    <3> QED BY <2>n, <3>1, <3>2
  <2> QED BY <2>4, <2>5, <2>6, <2>7 DEF SessionCounted
<1> QED BY <1>1, <1>2, <1>3, <1>5, <1>6, <1>7 DEF SessionInv

\* A step in which every client stays alike, the dispatcher goes on with the
\* same targets, and Valkey only forgets.
LEMMA LightStep ==
  ASSUME SessionInv, OthersTyped', UNCHANGED <<published, audience, owner, resumes>>,
         NEW new, client' = new, new \in [Clients -> ClientRecord],
         \A c \in Clients : ClientSound(new[c]) /\ Alike(client[c], new[c]),
         \A c \in registered' : new[c].identified /\ new[c].reader \notin Leaving,
         dispatch' # None =>
           /\ dispatch # None /\ dispatch'.event = dispatch.event
           /\ dispatch'.todo = dispatch.todo /\ dispatch'.target = dispatch.target
           /\ dispatch'.seq \in {dispatch.seq, -dispatch.seq},
         \A s \in Sessions : saved'[s] \in {saved[s], None},
         \A s \in Sessions : replay'[s] \in {replay[s], <<>>},
         \A s \in Sessions : \A e \in got'[s] : Sendable(s, e)
  PROVE  SessionInv'
<1>1. DispatchSound'
  <2>1. dispatch # None => dispatch.seq \in Int
    BY DEF SessionInv, TypeOK
  <2>2. \A c \in Clients : client[c].seq \in Int
    BY DEF SessionInv, TypeOK, ClientRecord
  <2> QED BY <2>1, <2>2 DEF SessionInv, DispatchSound, Alike, Follows
<1>2. \A s \in Sessions : \A i \in 1 .. Len(replay'[s]) :
        i \in 1 .. Len(replay[s]) /\ replay'[s][i] = replay[s][i]
  <2>1. Len(<<>>) = 0 /\ 1 .. 0 = {}
    OBVIOUS
  <2> QED BY <2>1
<1>3. \A s \in Sessions : \A i \in 1 .. Len(replay'[s]) :
        /\ MeantFor(s, replay'[s][i].event)
        /\ \E j \in 1 .. Len(replay[s]) : replay'[s][i] = replay[s][j]
  BY <1>2 DEF SessionInv, ValkeySound
<1>4. \A c \in Clients :
        /\ Follows(client[c], new[c])
        /\ client[c].identified => new[c].seq = client[c].seq
  BY DEF Alike, Follows
<1>5. \A s \in Sessions : saved'[s] # None => saved'[s] = saved[s]
  OBVIOUS
<1>6. \A c \in Clients :
        dispatch' # None /\ c \in dispatch'.todo => dispatch # None /\ c \in dispatch.todo
  OBVIOUS
<1> QED BY <1>1, <1>3, <1>4, <1>5, <1>6, StepKeeps


\* The same for one client, the dispatcher idle.
LEMMA OneClient ==
  ASSUME SessionInv, OthersTyped', UNCHANGED <<published, audience, owner, resumes, dispatch>>,
         NEW c \in Clients, NEW r, client' = [client EXCEPT ![c] = r],
         ClientSound(r), Alike(client[c], r),
         registered' \subseteq registered \cup {c},
         c \in registered' => r.identified /\ r.reader \notin Leaving,
         \A s \in Sessions : saved'[s] \in {saved[s], None},
         \A s \in Sessions : replay'[s] \in {replay[s], <<>>},
         \A s \in Sessions : \A e \in got'[s] : Sendable(s, e)
  PROVE  SessionInv'
<1>1. PICK new : new = client'
  OBVIOUS
<1>2. new \in [Clients -> ClientRecord]
  BY <1>1 DEF SessionInv, TypeOK, ClientSound, ClientBound
<1>3. \A d \in Clients : new[d] = IF d = c THEN r ELSE client[d]
  BY <1>1 DEF SessionInv, TypeOK
<1>4. \A d \in Clients : ClientSound(new[d]) /\ Alike(client[d], new[d])
  BY <1>3 DEF SessionInv, ClientsSound, ClientSound, Alike, Follows
<1>5. \A d \in registered' : new[d].identified /\ new[d].reader \notin Leaving
  <2>1. registered \subseteq Clients
    BY DEF SessionInv, TypeOK
  <2> QED BY <1>3, <2>1 DEF SessionInv, RegistrySound
<1> QED BY <1>1, <1>2, <1>4, <1>5, LightStep

\* What enqueue may change.
LEMMA EnqueuedParts ==
  ASSUME NEW r \in ClientRecord, NEW frame \in Frames
  PROVE  LET n == Enqueued(r, frame) IN
         /\ n \in ClientRecord
         /\ n.reader = r.reader /\ n.user = r.user /\ n.session = r.session
         /\ n.identified <=> r.identified
         /\ n.seq = r.seq /\ n.loaded = r.loaded /\ n.missed = r.missed
         /\ n.number = r.number /\ n.heard = r.heard
         /\ n.conn \in {r.conn, "closed"}
         /\ n.send = r.send \/ n.send = Append(r.send, frame)
<1>1. CASE r.done
  BY <1>1 DEF Enqueued
<1>2. CASE ~r.done /\ Len(r.send) < QueueSize
  <2>1. PICK q : q = Append(r.send, frame)
    OBVIOUS
  <2>2. q \in Seq(Frames)
    BY <2>1 DEF ClientRecord
  <2>3. Enqueued(r, frame) = [r EXCEPT !.send = q]
    BY <1>2, <2>1 DEF Enqueued
  <2> QED BY <2>1, <2>2, <2>3 DEF ClientRecord
<1>3. CASE ~r.done /\ ~(Len(r.send) < QueueSize)
  BY <1>3 DEF Enqueued, ClosedSend, ClientRecord
<1> QED BY <1>1, <1>2, <1>3

\* The elements of a queue with one more frame.
LEMMA AppendParts ==
  ASSUME NEW S, NEW q \in Seq(S), NEW f \in S, NEW i \in 1 .. Len(Append(q, f))
  PROVE  Append(q, f)[i] = f \/ (i \in 1 .. Len(q) /\ Append(q, f)[i] = q[i])
<1>1. CASE i = Len(q) + 1
  BY <1>1
<1>2. CASE i # Len(q) + 1
  BY <1>2
<1> QED BY <1>1, <1>2

LEMMA TailParts ==
  ASSUME NEW S, NEW q \in Seq(S), q # <<>>
  PROVE  /\ Head(q) = q[1] /\ 1 \in 1 .. Len(q) /\ Head(q) \in S
         /\ Tail(q) \in Seq(S)
         /\ \A i \in 1 .. Len(Tail(q)) : i + 1 \in 1 .. Len(q) /\ Tail(q)[i] = q[i + 1]
OBVIOUS

\* enqueue keeps a client sound, when the frame is meant for it and its number
\* is one it may be sent.
LEMMA EnqueuedSound ==
  ASSUME NEW r, ClientSound(r), r.conn # "new", NEW frame \in Frames,
         frame.seq # 0 =>
           /\ r.identified
           /\ Sendable(r.session, frame.event)
           /\ resumes[r.session] <= 1 => frame.seq <= Top(r)
  PROVE  ClientSound(Enqueued(r, frame)) /\ Alike(r, Enqueued(r, frame))
<1> DEFINE n == Enqueued(r, frame)
<1>1. r \in ClientRecord /\ ClientBound(r) /\ ClientCounted(r)
  BY DEF ClientSound, ClientBound
<1>2. /\ n \in ClientRecord
      /\ n.reader = r.reader /\ n.user = r.user /\ n.session = r.session
      /\ n.identified <=> r.identified
      /\ n.seq = r.seq /\ n.loaded = r.loaded /\ n.missed = r.missed
      /\ n.number = r.number /\ n.heard = r.heard
      /\ n.conn \in {r.conn, "closed"}
      /\ n.send = r.send \/ n.send = Append(r.send, frame)
  BY <1>1, EnqueuedParts
<1> HIDE DEF n
<1>3. \A i \in 1 .. Len(n.send) :
        n.send[i] = frame \/ (i \in 1 .. Len(r.send) /\ n.send[i] = r.send[i])
  <2>1. r.send \in Seq(Frames)
    BY <1>1 DEF ClientRecord
  <2> QED BY <1>2, <2>1, AppendParts
<1>4. ClientBound(n)
  BY <1>1, <1>2, <1>3 DEF ClientBound
<1>5. Top(n) = Top(r)
  BY <1>2 DEF Top
<1>6. ClientCounted(n)
  <2>1. 0 <= Top(r)
    BY <1>1 DEF ClientRecord, Top
  <2>2. ~n.identified =>
          n.heard = 0 /\ \A i \in 1 .. Len(n.send) : n.send[i].seq = 0
    BY <1>1, <1>2, <1>3 DEF ClientCounted
  <2>3. n.identified /\ resumes[n.session] <= 1 =>
          \A i \in 1 .. Len(n.send) : n.send[i].seq <= Top(n)
    BY <1>1, <1>2, <1>3, <1>5, <2>1 DEF ClientCounted
  <2> QED BY <1>1, <1>2, <1>5, <2>2, <2>3 DEF ClientCounted
<1>7. Alike(r, n)
  BY <1>2 DEF Alike, Follows
<1> QED BY <1>4, <1>6, <1>7 DEF ClientSound, n

LEMMA UnsequencedFrame == Unsequenced \in Frames /\ Unsequenced.seq = 0
BY DEF Unsequenced, Frame, Frames


-----------------------------------------------------------------------------
(* Steps of one client *)

LEMMA ClientOnly ==
  ASSUME SessionInv, NEW c \in Clients, NEW r, client' = [client EXCEPT ![c] = r],
         ClientSound(r), Alike(client[c], r),
         registered' \subseteq registered \cup {c},
         c \in registered' => r.identified /\ r.reader \notin Leaving,
         UNCHANGED valkey, UNCHANGED dispatch, UNCHANGED events, UNCHANGED history,
         budget' \in [unsequenced : 0 .. MaxUnsequenced, crashes : 0 .. MaxCrashes]
  PROVE  SessionInv'
<1>1. UNCHANGED <<saved, replay, published, audience, owner, appended, got, seen, resumes>>
  BY DEF valkey, events, history
<1>2. OthersTyped'
  BY <1>1 DEF SessionInv, TypeOK, OthersTyped
<1> QED BY <1>1, <1>2, OneClient DEF SessionInv, ReceivedSound

\* What the invariant says of one client.
LEMMA OfClient ==
  ASSUME SessionInv, NEW c \in Clients
  PROVE  /\ client[c] \in ClientRecord /\ ClientSound(client[c])
         /\ budget \in [unsequenced : 0 .. MaxUnsequenced, crashes : 0 .. MaxCrashes]
         /\ c \in registered =>
              client[c].identified /\ client[c].reader \notin Leaving
         /\ client[c].reader # "new" \/ client[c].identified => client[c].conn # "new"
<1>1. ClientSound(client[c])
  BY DEF SessionInv, ClientsSound, ClientSound
<1>2. NewClient.reader = "new" /\ NewClient.identified = FALSE
  BY DEF NewClient
<1> QED BY <1>1, <1>2 DEF SessionInv, TypeOK, RegistrySound, ClientSound, ClientBound

\* A new connection.
LEMMA ConnectKeeps ==
  ASSUME SessionInv, NEW c \in Clients, Connect(c)
  PROVE  SessionInv'
<1> DEFINE r == [client[c] EXCEPT !.conn = "open", !.reader = "reading", !.writer = "running"]
<1>1. client[c] = NewClient
  BY OfClient DEF Connect, ClientSound, ClientBound
<1>2. /\ r \in ClientRecord /\ r.conn = "open" /\ r.reader = "reading" /\ r.identified = FALSE
      /\ r.send = <<>> /\ r.missed = <<>> /\ r.heard = 0
      /\ r.session = client[c].session /\ r.user = client[c].user /\ r.seq = client[c].seq
      /\ client[c].identified = FALSE /\ client[c].reader = "new"
  <2>1. client[c] \in ClientRecord
    BY OfClient
  <2>2. /\ client[c].identified = FALSE /\ client[c].reader = "new"
        /\ client[c].send = <<>> /\ client[c].missed = <<>> /\ client[c].heard = 0
    BY <1>1 DEF NewClient
  <2>3. r \in ClientRecord /\ r.conn = "open" /\ r.reader = "reading"
    BY <2>1 DEF ClientRecord
  <2>4. /\ r.identified = client[c].identified /\ r.send = client[c].send
        /\ r.missed = client[c].missed /\ r.heard = client[c].heard
        /\ r.session = client[c].session /\ r.user = client[c].user
        /\ r.seq = client[c].seq
    BY <2>1 DEF ClientRecord
  <2> QED BY <2>2, <2>3, <2>4
<1>3. /\ client' = [client EXCEPT ![c] = r]
      /\ UNCHANGED <<registered, valkey, dispatch, events, history, budget>>
  BY DEF Connect
<1> HIDE DEF r
<1>4. ClientSound(r)
  BY <1>2 DEF ClientSound, ClientBound, ClientCounted, Identified, Registering, Replaying
<1>5. Alike(client[c], r)
  BY <1>2 DEF Alike, Follows
<1>6. c \notin registered
  BY <1>2, OfClient
<1> QED BY <1>3, <1>4, <1>5, <1>6, OfClient, ClientOnly

\* A client that only closes: its connection, its queue or its writer.
Closes(old, new) ==
  /\ new \in ClientRecord /\ new.conn # "new"
  /\ new.user = old.user /\ new.session = old.session
  /\ new.identified <=> old.identified
  /\ new.reader = old.reader /\ new.seq = old.seq /\ new.send = old.send
  /\ new.loaded = old.loaded /\ new.missed = old.missed /\ new.number = old.number
  /\ new.heard = old.heard

LEMMA ClosesSound ==
  ASSUME NEW old, NEW new, ClientSound(old), Closes(old, new)
  PROVE  ClientSound(new) /\ Alike(old, new)
<1>1. Top(new) = Top(old)
  BY DEF Top, Closes
<1>2. ClientBound(new)
  BY DEF ClientSound, ClientBound, Closes
<1>3. ClientCounted(new)
  BY <1>1 DEF ClientSound, ClientCounted, Closes
<1> QED BY <1>2, <1>3 DEF ClientSound, Alike, Follows, Closes

LEMMA DropKeeps ==
  ASSUME SessionInv, NEW c \in Clients, Drop(c) \/ WriterExit(c)
  PROVE  SessionInv'
<1>1. PICK r : client' = [client EXCEPT ![c] = r] /\ Closes(client[c], r)
  <2>1. CASE Drop(c)
    <3> DEFINE r == [client[c] EXCEPT !.conn = "closed"]
    <3>1. client' = [client EXCEPT ![c] = r]
      BY <2>1 DEF Drop
    <3>2. Closes(client[c], r)
      BY OfClient DEF Closes, ClientRecord
    <3> QED BY <3>1, <3>2
  <2>2. CASE WriterExit(c)
    <3> DEFINE r == [client[c] EXCEPT !.writer = "exited", !.conn = "closed"]
    <3>1. client' = [client EXCEPT ![c] = r]
      BY <2>2 DEF WriterExit
    <3>2. Closes(client[c], r)
      BY OfClient DEF Closes, ClientRecord
    <3> QED BY <3>1, <3>2
  <2> QED BY <2>1, <2>2
<1>2. UNCHANGED <<registered, valkey, dispatch, events, history, budget>>
  BY DEF Drop, WriterExit
<1>3. ClientSound(r) /\ Alike(client[c], r)
  BY <1>1, OfClient, ClosesSound
<1>4. c \in registered => r.identified /\ r.reader \notin Leaving
  BY <1>1, OfClient DEF Closes
<1> QED BY <1>1, <1>2, <1>3, <1>4, OfClient, ClientOnly

\* An acknowledgement, a refusal: an unsequenced frame.
LEMMA HeartbeatKeeps ==
  ASSUME SessionInv, NEW c \in Clients, Heartbeat(c)
  PROVE  SessionInv'
<1> DEFINE r == Enqueued(client[c], Unsequenced)
<1>1. /\ client' = [client EXCEPT ![c] = r] /\ client[c].conn # "new"
      /\ UNCHANGED <<registered, valkey, dispatch, events, history>>
      /\ budget.unsequenced > 0 /\ budget' = [budget EXCEPT !.unsequenced = @ - 1]
  BY DEF Heartbeat, At
<1>2. ClientSound(r) /\ Alike(client[c], r)
  BY <1>1, OfClient, UnsequencedFrame, EnqueuedSound
<1>3. r.reader = client[c].reader
  BY OfClient, UnsequencedFrame, EnqueuedParts
<1>4. budget' \in [unsequenced : 0 .. MaxUnsequenced, crashes : 0 .. MaxCrashes]
  BY <1>1, OfClient, GatewayAssumption
<1> HIDE DEF r
<1>5. c \in registered => r.identified /\ r.reader \notin Leaving
  BY <1>2, <1>3, OfClient DEF Alike, Follows
<1> QED BY <1>1, <1>2, <1>4, <1>5, ClientOnly


\* The reader of a client moves on to another place, with nothing else changed.
Moves(old, new, place) ==
  /\ new \in ClientRecord /\ new.conn # "new"
  /\ new.user = old.user /\ new.session = old.session
  /\ new.identified <=> old.identified
  /\ new.reader = place /\ new.seq = old.seq /\ new.send = old.send
  /\ new.loaded = old.loaded /\ new.missed = old.missed /\ new.number = old.number
  /\ new.heard = old.heard

LEMMA MovesSound ==
  ASSUME NEW old, NEW new, NEW place, ClientSound(old), Moves(old, new, place),
         place \notin Registering \cup {"loaded", "greet"},
         place \in Identified => old.identified,
         old.reader # "exited",
         old.reader \in Replaying => place \in Replaying,
         place \in {"delete_session", "send_missed"} =>
           old.reader \in {"register_resumed", "delete_session", "send_missed"}
  PROVE  ClientSound(new) /\ Alike(old, new)
<1>1. old \in ClientRecord
  BY DEF ClientSound, ClientBound
<1>2. Top(old) <= Top(new)
  BY <1>1 DEF Top, Moves, ClientRecord
<1>3. ClientBound(new)
  BY DEF ClientSound, ClientBound, Moves, Identified
<1>4. ClientCounted(new)
  <2>1. old.heard \in Nat /\ old.send \in Seq(Frames) /\ Top(old) \in Nat /\ Top(new) \in Nat
    <3>1. old.heard \in Nat /\ old.send \in Seq(Frames) /\ old.seq \in Nat
      BY <1>1 DEF ClientRecord
    <3>2. new.seq \in Nat
      BY <3>1 DEF Moves
    <3> QED BY <3>1, <3>2 DEF Top
  <2>2. \A i \in 1 .. Len(old.send) : old.send[i].seq \in Nat
    <3>1. \A i \in 1 .. Len(old.send) : old.send[i] \in Frames
      BY <2>1
    <3> QED BY <3>1 DEF Frames
  <2>3. new.identified /\ resumes[new.session] <= 1 =>
          new.heard <= Top(new) /\ \A i \in 1 .. Len(new.send) : new.send[i].seq <= Top(new)
    BY <1>2, <2>1, <2>2 DEF ClientSound, ClientCounted, Moves
  <2>4. ~new.identified =>
          new.heard = 0 /\ \A i \in 1 .. Len(new.send) : new.send[i].seq = 0
    BY DEF ClientSound, ClientCounted, Moves
  <2>5. new.identified /\ resumes[new.session] <= 1 /\
        new.reader \in {"register_resumed", "delete_session", "send_missed"} =>
          \A i \in 1 .. Len(new.missed) : new.missed[i].seq <= new.seq + 1
    BY DEF ClientSound, ClientCounted, Moves, Registering
  <2>6. new.reader # "greet"
    BY DEF Moves
  <2> QED BY <2>3, <2>4, <2>5, <2>6 DEF ClientCounted
<1>5. Alike(old, new)
  BY DEF Alike, Follows, Moves
<1> QED BY <1>3, <1>4, <1>5 DEF ClientSound

LEMMA UnregisterKeeps ==
  ASSUME SessionInv, NEW c \in Clients, Unregister(c)
  PROVE  SessionInv'
<1> DEFINE place == IF c \in registered THEN "close_send" ELSE "exited"
           r == [client[c] EXCEPT !.reader = place]
<1>1. /\ client' = [client EXCEPT ![c] = r] /\ client[c].reader = "reading"
      /\ client[c].conn = "closed" /\ registered' = registered \ {c}
      /\ UNCHANGED <<valkey, dispatch, events, history, budget>>
  BY DEF Unregister, At
<1>2. Moves(client[c], r, place)
  BY <1>1, OfClient DEF Moves, ClientRecord
<1>3. /\ place \in {"close_send", "exited"}
      /\ place = "close_send" => client[c].identified
  BY OfClient
<1> HIDE DEF r, place
<1>4. ClientSound(r) /\ Alike(client[c], r)
  BY <1>1, <1>2, <1>3, OfClient, MovesSound DEF Registering, Identified, Replaying
<1> QED BY <1>1, <1>4, OfClient, ClientOnly

LEMMA CloseSendKeeps ==
  ASSUME SessionInv, NEW c \in Clients, CloseSend(c)
  PROVE  SessionInv'
<1> DEFINE r == ClosedSend([client[c] EXCEPT !.reader = "save"])
<1>1. /\ client' = [client EXCEPT ![c] = r] /\ client[c].reader = "close_send"
      /\ UNCHANGED <<registered, valkey, dispatch, events, history, budget>>
  BY DEF CloseSend, At
<1>2. Moves(client[c], r, "save")
  BY <1>1, OfClient DEF Moves, ClientRecord, ClosedSend
<1>3. client[c].identified /\ c \notin registered
  BY <1>1, OfClient DEF ClientSound, ClientBound, Identified, Leaving
<1> HIDE DEF r
<1>4. ClientSound(r) /\ Alike(client[c], r)
  BY <1>1, <1>2, <1>3, OfClient, MovesSound DEF Registering, Identified, Replaying
<1> QED BY <1>1, <1>3, <1>4, OfClient, ClientOnly

\* register: the client enters the registry, or there is no room.
LEMMA RegisterKeeps ==
  ASSUME SessionInv, NEW c \in Clients, Register(c)
  PROVE  SessionInv'
<1>1. /\ client[c].reader \in Registering /\ client[c].identified
      /\ UNCHANGED valkey /\ UNCHANGED dispatch /\ UNCHANGED events /\ UNCHANGED history
      /\ UNCHANGED budget
  BY OfClient DEF Register, At, Registering, ClientSound, ClientBound, Identified
<1>2. CASE Cardinality(registered) >= MaxConnections
  <2> DEFINE r == [client[c] EXCEPT !.conn = "closed", !.reader = "reading"]
  <2>1. client' = [client EXCEPT ![c] = r] /\ UNCHANGED registered
    BY <1>2 DEF Register
  <2>2. Moves(client[c], r, "reading")
    BY OfClient DEF Moves, ClientRecord
  <2> HIDE DEF r
  <2>3. ClientSound(r) /\ Alike(client[c], r)
    BY <1>1, <2>2, OfClient, MovesSound DEF Registering, Identified, Replaying
  <2>4. r.identified /\ r.reader \notin Leaving
    BY <1>1, <2>2 DEF Moves, Leaving
  <2> QED BY <1>1, <2>1, <2>3, <2>4, OfClient, ClientOnly
<1>3. CASE ~(Cardinality(registered) >= MaxConnections)
  <2> DEFINE place == IF At(c, "register_new") THEN "number" ELSE "delete_session"
             r == [client[c] EXCEPT !.reader = place]
  <2>1. client' = [client EXCEPT ![c] = r] /\ registered' = registered \cup {c}
    BY <1>3 DEF Register
  <2>2. Moves(client[c], r, place)
    BY <1>1, OfClient DEF Moves, ClientRecord, Registering
  <2>3. /\ place \in {"number", "delete_session"}
        /\ place = "delete_session" => client[c].reader = "register_resumed"
    BY <1>1 DEF At, Registering
  <2> HIDE DEF r, place
  <2>4. ClientSound(r) /\ Alike(client[c], r)
    BY <1>1, <2>2, <2>3, OfClient, MovesSound DEF Registering, Identified, Replaying
  <2>5. r.identified /\ r.reader \notin Leaving
    BY <1>1, <2>2, <2>3 DEF Moves, Leaving
  <2> QED BY <1>1, <2>1, <2>4, <2>5, OfClient, ClientOnly
<1> QED BY <1>2, <1>3


\* SessionStore.Delete succeeds or fails.
LEMMA ResumeDeleteKeeps ==
  ASSUME SessionInv, NEW c \in Clients, ResumeDelete(c)
  PROVE  SessionInv'
<1> DEFINE r == [client[c] EXCEPT !.reader = "send_missed"]
<1>1. /\ client' = [client EXCEPT ![c] = r] /\ client[c].reader = "delete_session"
      /\ UNCHANGED <<registered, dispatch, events, history, budget>>
  BY DEF ResumeDelete, At
<1>2. client[c].identified /\ client[c].conn # "new"
  BY <1>1, OfClient DEF ClientSound, ClientBound, Identified, Replaying
<1>3. Moves(client[c], r, "send_missed")
  BY <1>1, <1>2, OfClient DEF Moves, ClientRecord
<1> HIDE DEF r
<1>4. ClientSound(r) /\ Alike(client[c], r)
  BY <1>1, <1>2, <1>3, OfClient, MovesSound DEF Registering, Identified, Replaying
<1>5. r.identified /\ r.reader \notin Leaving
  BY <1>2, <1>3 DEF Moves, Leaving
<1>6. /\ saved' \in [Sessions -> [user : Users, lastSeq : Nat] \cup {None}]
      /\ replay' \in [Sessions -> Seq(Frames)]
      /\ \A s \in Sessions : saved'[s] \in {saved[s], None}
      /\ \A s \in Sessions : replay'[s] \in {replay[s], <<>>}
  <2>1. /\ saved \in [Sessions -> [user : Users, lastSeq : Nat] \cup {None}]
        /\ replay \in [Sessions -> Seq(Frames)]
    BY DEF SessionInv, TypeOK
  <2>2. <<>> \in Seq(Frames)
    OBVIOUS
  <2>3. CASE UNCHANGED valkey
    BY <2>1, <2>3 DEF valkey
  <2>4. CASE /\ saved' = [saved EXCEPT ![client[c].session] = None]
             /\ replay' = [replay EXCEPT ![client[c].session] = <<>>]
    BY <2>1, <2>2, <2>4
  <2> QED BY <2>3, <2>4 DEF ResumeDelete
<1>7. UNCHANGED <<published, audience, owner, appended, got, seen, resumes>>
  BY <1>1 DEF events, history
<1>8. OthersTyped'
  BY <1>1, <1>6, <1>7 DEF SessionInv, TypeOK, OthersTyped
<1>9. \A s \in Sessions : \A e \in got'[s] : Sendable(s, e)
  BY <1>7 DEF SessionInv, ReceivedSound
<1> QED BY <1>1, <1>4, <1>5, <1>6, <1>7, <1>8, <1>9, OneClient

\* A frame of the buffer is queued again, under its old number.
LEMMA SendMissedKeeps ==
  ASSUME SessionInv, NEW c \in Clients, SendMissed(c)
  PROVE  SessionInv'
<1>1. /\ client[c].reader = "send_missed"
      /\ UNCHANGED <<registered, valkey, dispatch, events, history, budget>>
  BY DEF SendMissed, At
<1>2. /\ client[c].identified /\ client[c].conn # "new" /\ client[c] \in ClientRecord
      /\ client[c].missed \in Seq(Frames)
  BY <1>1, OfClient DEF ClientSound, ClientBound, Identified, Replaying, ClientRecord
<1>3. CASE client[c].missed = <<>>
  <2> DEFINE r == [client[c] EXCEPT !.reader = "number"]
  <2>1. client' = [client EXCEPT ![c] = r]
    BY <1>3 DEF SendMissed
  <2>2. Moves(client[c], r, "number")
    BY <1>2 DEF Moves, ClientRecord
  <2> HIDE DEF r
  <2>3. ClientSound(r) /\ Alike(client[c], r)
    BY <1>1, <1>2, <2>2, OfClient, MovesSound DEF Registering, Identified, Replaying
  <2>4. r.identified /\ r.reader \notin Leaving
    BY <1>2, <2>2 DEF Moves, Leaving
  <2> QED BY <1>1, <2>1, <2>3, <2>4, OfClient, ClientOnly
<1>4. CASE client[c].missed # <<>>
  <2> DEFINE mid == [client[c] EXCEPT !.missed = Tail(client[c].missed)]
             frame == Head(client[c].missed)
             r == Enqueued(mid, frame)
  <2>1. client' = [client EXCEPT ![c] = r]
    BY <1>4 DEF SendMissed
  <2>2. /\ frame \in Frames /\ frame = client[c].missed[1] /\ 1 \in 1 .. Len(client[c].missed)
        /\ Tail(client[c].missed) \in Seq(Frames)
        /\ \A i \in 1 .. Len(Tail(client[c].missed)) :
             /\ i + 1 \in 1 .. Len(client[c].missed)
             /\ Tail(client[c].missed)[i] = client[c].missed[i + 1]
    BY <1>2, <1>4, TailParts
  <2>3. /\ mid \in ClientRecord /\ mid.conn = client[c].conn /\ mid.user = client[c].user
        /\ mid.session = client[c].session /\ mid.identified = client[c].identified
        /\ mid.reader = client[c].reader /\ mid.seq = client[c].seq
        /\ mid.send = client[c].send /\ mid.loaded = client[c].loaded
        /\ mid.number = client[c].number /\ mid.heard = client[c].heard
        /\ mid.missed = Tail(client[c].missed)
    BY <1>2, <2>2 DEF ClientRecord
  <2> HIDE DEF mid, frame
  <2>4. Top(mid) = Top(client[c]) /\ Top(mid) = client[c].seq + 1
    BY <1>1, <2>3 DEF Top, Replaying
  <2>5. ClientBound(mid)
    BY <1>2, <2>2, <2>3, OfClient DEF ClientSound, ClientBound
  <2>6. ClientCounted(mid)
    <3>1. ClientCounted(client[c])
      BY OfClient DEF ClientSound
    <3>2. mid.identified /\ resumes[mid.session] <= 1 =>
            /\ mid.heard <= Top(mid)
            /\ \A i \in 1 .. Len(mid.send) : mid.send[i].seq <= Top(mid)
      BY <1>2, <2>3, <2>4, <3>1 DEF ClientCounted
    <3>3. resumes[mid.session] <= 1 =>
            \A i \in 1 .. Len(client[c].missed) : client[c].missed[i].seq <= client[c].seq + 1
      BY <1>1, <1>2, <2>3, <3>1 DEF ClientCounted
    <3>4. resumes[mid.session] <= 1 =>
            \A i \in 1 .. Len(mid.missed) : mid.missed[i].seq <= mid.seq + 1
      BY <2>2, <2>3, <3>3
    <3> QED BY <1>1, <1>2, <2>3, <3>2, <3>4 DEF ClientCounted, Registering
  <2>7. /\ Sendable(mid.session, frame.event)
        /\ resumes[mid.session] <= 1 => frame.seq <= Top(mid)
    BY <1>1, <1>2, <2>2, <2>3, <2>4, OfClient
       DEF ClientSound, ClientBound, ClientCounted, Sendable
  <2>8. ClientSound(r) /\ Alike(mid, r)
    BY <1>1, <1>2, <2>2, <2>3, <2>5, <2>6, <2>7, EnqueuedSound
       DEF ClientSound, Registering
  <2>9. r.reader = "send_missed"
    BY <1>1, <2>2, <2>3, EnqueuedParts
  <2> HIDE DEF r
  <2>10. Alike(client[c], r) /\ r.identified /\ r.reader \notin Leaving
    BY <1>1, <1>2, <2>3, <2>8, <2>9 DEF Alike, Follows, Leaving
  <2> QED BY <1>1, <2>1, <2>8, <2>10, OfClient, ClientOnly
<1> QED BY <1>3, <1>4

\* READY or RESUMED is queued under the number taken for it.
LEMMA GreetKeeps ==
  ASSUME SessionInv, NEW c \in Clients, Greet(c)
  PROVE  SessionInv'
<1> DEFINE mid == [client[c] EXCEPT !.reader = "reading", !.number = 0]
           frame == Frame(client[c].number, Greeting)
           r == Enqueued(mid, frame)
<1>1. /\ client[c].reader = "greet" /\ client' = [client EXCEPT ![c] = r]
      /\ UNCHANGED <<registered, valkey, dispatch, events, history, budget>>
  BY DEF Greet, At
<1>2. /\ client[c].identified /\ client[c].conn # "new" /\ client[c] \in ClientRecord
      /\ client[c].number \in Nat /\ client[c].seq \in Nat
  BY <1>1, OfClient DEF ClientSound, ClientBound, Identified, Replaying, ClientRecord
<1>3. frame \in Frames /\ frame.seq = client[c].number /\ frame.event = Greeting
  BY <1>2 DEF Frame, Frames
<1>4. /\ mid \in ClientRecord /\ mid.conn = client[c].conn /\ mid.user = client[c].user
      /\ mid.session = client[c].session /\ mid.identified = client[c].identified
      /\ mid.reader = "reading" /\ mid.seq = client[c].seq
      /\ mid.send = client[c].send /\ mid.loaded = client[c].loaded
      /\ mid.heard = client[c].heard /\ mid.missed = client[c].missed
  BY <1>2 DEF ClientRecord
<1> HIDE DEF mid, frame
<1>5. Top(mid) = Top(client[c]) /\ Top(mid) = client[c].seq
  BY <1>1, <1>4 DEF Top, Replaying
<1>6. ClientBound(mid)
  BY <1>2, <1>4, OfClient DEF ClientSound, ClientBound, Identified, Registering, Replaying
<1>7. ClientCounted(mid)
  BY <1>1, <1>2, <1>4, <1>5, OfClient DEF ClientSound, ClientCounted, Registering
<1>8. resumes[mid.session] <= 1 => frame.seq <= Top(mid)
  BY <1>1, <1>2, <1>3, <1>4, <1>5, OfClient DEF ClientSound, ClientCounted
<1>9. ClientSound(r) /\ Alike(mid, r)
  BY <1>2, <1>3, <1>4, <1>6, <1>7, <1>8, EnqueuedSound
     DEF ClientSound, Registering, Sendable
<1>10. r.reader = "reading"
  BY <1>3, <1>4, EnqueuedParts
<1> HIDE DEF r
<1>11. Alike(client[c], r) /\ r.identified /\ r.reader \notin Leaving
  BY <1>1, <1>2, <1>4, <1>9, <1>10 DEF Alike, Follows, Leaving
<1> QED BY <1>1, <1>9, <1>11, OfClient, ClientOnly

\* The peer receives a frame, or the write fails.
LEMMA WriteKeeps ==
  ASSUME SessionInv, NEW c \in Clients, Write(c)
  PROVE  SessionInv'
<1> DEFINE frame == Head(client[c].send)
           s == client[c].session
<1>1. /\ client[c].send # <<>>
      /\ UNCHANGED <<registered, valkey, dispatch, events, owner, appended, resumes, budget>>
  BY DEF Write
<1>2. client[c] \in ClientRecord /\ client[c].send \in Seq(Frames) /\ client[c].heard \in Nat
  BY OfClient DEF ClientRecord
<1>3. /\ frame \in Frames /\ frame = client[c].send[1] /\ 1 \in 1 .. Len(client[c].send)
      /\ Tail(client[c].send) \in Seq(Frames)
      /\ \A i \in 1 .. Len(Tail(client[c].send)) :
           /\ i + 1 \in 1 .. Len(client[c].send)
           /\ Tail(client[c].send)[i] = client[c].send[i + 1]
  BY <1>1, <1>2, TailParts
<1>4. frame.seq \in Nat
  BY <1>3 DEF Frames
\* Whatever heard becomes, as long as it is the old value or the frame's number.
<1>5. ASSUME NEW r, r \in ClientRecord, r.conn # "new", r.user = client[c].user,
             r.session = client[c].session, r.identified = client[c].identified,
             r.reader = client[c].reader, r.seq = client[c].seq,
             r.send = Tail(client[c].send), r.loaded = client[c].loaded,
             r.missed = client[c].missed, r.number = client[c].number,
             r.heard \in {client[c].heard, frame.seq}
      PROVE  ClientSound(r) /\ Alike(client[c], r)
  <2> HIDE DEF frame
  <2>1. Top(r) = Top(client[c])
    BY <1>5 DEF Top
  <2>2. ClientBound(r)
    BY <1>3, <1>5, OfClient DEF ClientSound, ClientBound
  <2>3. ClientCounted(r)
    BY <1>3, <1>5, <2>1, OfClient DEF ClientSound, ClientCounted
  <2> QED BY <1>5, <2>2, <2>3 DEF ClientSound, Alike, Follows
<1>6. UNCHANGED <<saved, replay, published, audience>>
  BY <1>1 DEF valkey, events
<1>7. CASE client[c].conn = "open"
  <2> DEFINE heard == Larger(client[c].heard, frame.seq)
             r == [client[c] EXCEPT !.send = Tail(client[c].send), !.heard = Larger(client[c].heard, frame.seq)]
  <2>1. /\ client' = [client EXCEPT ![c] = r]
        /\ IF frame.seq = 0 THEN UNCHANGED <<got, seen>>
           ELSE /\ seen' = [seen EXCEPT ![s] = Larger(@, frame.seq)]
                /\ got' = [got EXCEPT ![s] = @ \cup {frame.event}]
    BY <1>7 DEF Write
  <2>2. heard \in {client[c].heard, frame.seq} /\ heard \in Nat
    BY <1>2, <1>4 DEF Larger
  <2>3. ClientSound(r) /\ Alike(client[c], r) /\ r.reader = client[c].reader
    <3> HIDE DEF heard, frame
    <3>1. r = [client[c] EXCEPT !.send = Tail(client[c].send), !.heard = heard]
      BY <1>2 DEF ClientRecord, heard
    <3>2. /\ r \in ClientRecord /\ r.conn # "new" /\ r.user = client[c].user
          /\ r.session = client[c].session /\ r.identified = client[c].identified
          /\ r.reader = client[c].reader /\ r.seq = client[c].seq
          /\ r.send = Tail(client[c].send) /\ r.loaded = client[c].loaded
          /\ r.missed = client[c].missed /\ r.number = client[c].number
          /\ r.heard = heard
      BY <1>2, <1>3, <1>7, <2>2, <3>1 DEF ClientRecord
    <3> HIDE DEF r
    <3> QED BY <1>5, <2>2, <3>2
  <2>4. frame.seq # 0 => s \in Sessions /\ Sendable(s, frame.event)
    BY <1>3, OfClient DEF ClientSound, ClientBound
  <2>5. /\ got' \in [Sessions -> SUBSET (Events \cup {Greeting})]
        /\ \A t \in Sessions : \A e \in got'[t] : Sendable(t, e)
        /\ seen' \in [Sessions -> Nat]
    <3>1. /\ got \in [Sessions -> SUBSET (Events \cup {Greeting})]
          /\ seen \in [Sessions -> Nat] /\ published \in 0 .. MaxEvents
          /\ \A t \in Sessions : \A e \in got[t] : Sendable(t, e)
      BY DEF SessionInv, TypeOK, ReceivedSound
    <3>2. CASE frame.seq = 0
      BY <2>1, <3>1, <3>2
    <3>3. CASE frame.seq # 0
      <4>1. frame.event \in Events \cup {Greeting}
        BY <2>4, <3>1, <3>3, GatewayAssumption DEF Sendable, MeantFor, Events
      <4>2. Larger(seen[s], frame.seq) \in Nat
        BY <1>4, <2>4, <3>1, <3>3 DEF Larger
      <4> HIDE DEF frame, s
      <4> QED BY <2>1, <2>4, <3>1, <3>3, <4>1, <4>2
    <3> QED BY <3>2, <3>3
  <2>6. OthersTyped'
    BY <1>1, <1>6, <2>5 DEF SessionInv, TypeOK, OthersTyped
  <2>7. c \in registered => r.identified /\ r.reader \notin Leaving
    BY <2>3, OfClient DEF Alike, Follows
  <2> HIDE DEF r
  <2> QED BY <1>1, <1>6, <2>1, <2>3, <2>5, <2>6, <2>7, OneClient
<1>8. CASE client[c].conn # "open"
  <2> DEFINE r == [client[c] EXCEPT !.send = Tail(client[c].send), !.writer = "exited"]
  <2>1. client[c].conn = "closed" /\ client' = [client EXCEPT ![c] = r] /\ UNCHANGED <<got, seen>>
    BY <1>8 DEF Write
  <2>2. /\ r \in ClientRecord /\ r.conn # "new" /\ r.user = client[c].user
        /\ r.session = client[c].session /\ r.identified = client[c].identified
        /\ r.reader = client[c].reader /\ r.seq = client[c].seq
        /\ r.send = Tail(client[c].send) /\ r.loaded = client[c].loaded
        /\ r.missed = client[c].missed /\ r.number = client[c].number
        /\ r.heard = client[c].heard
    BY <1>2, <1>3, <2>1 DEF ClientRecord
  <2> HIDE DEF r
  <2>3. ClientSound(r) /\ Alike(client[c], r)
    BY <1>5, <2>2
  <2>4. c \in registered => r.identified /\ r.reader \notin Leaving
    BY <2>2, OfClient
  <2>5. UNCHANGED history
    BY <1>1, <2>1 DEF history
  <2> QED BY <1>1, <2>1, <2>3, <2>4, <2>5, OfClient, ClientOnly
<1> QED BY <1>7, <1>8

\* handleResume's lookup: refused, or the saved counter is loaded.
LEMMA ResumeLoadKeeps ==
  ASSUME SessionInv, NEW c \in Clients, NEW u \in Users, NEW s \in Sessions, ResumeLoad(c, u, s)
  PROVE  SessionInv'
<1> DEFINE refused == \/ saved[s] = None
                      \/ saved[s] # None /\ (saved[s].user # u \/ seen[s] > saved[s].lastSeq)
<1>1. /\ client[c].reader = "reading" /\ client[c].conn # "new" /\ ~client[c].identified
      /\ UNCHANGED <<registered, valkey, dispatch, events, history, budget>>
  BY DEF ResumeLoad, At
<1>2. c \notin registered /\ client[c] \in ClientRecord
  BY <1>1, OfClient
<1>3. CASE refused
  <2> DEFINE r == Enqueued(client[c], Unsequenced)
  <2>1. client' = [client EXCEPT ![c] = r]
    BY <1>3 DEF ResumeLoad
  <2>2. ClientSound(r) /\ Alike(client[c], r)
    BY <1>1, OfClient, UnsequencedFrame, EnqueuedSound
  <2> HIDE DEF r
  <2> QED BY <1>1, <1>2, <2>1, <2>2, OfClient, ClientOnly
<1>4. CASE ~refused
  <2> DEFINE r == [client[c] EXCEPT !.user = u, !.session = s, !.loaded = saved[s].lastSeq,
                                    !.reader = "loaded"]
  <2>1. client' = [client EXCEPT ![c] = r]
    BY <1>4 DEF ResumeLoad
  <2>2. saved[s] # None /\ saved[s].user = u /\ saved[s].lastSeq \in Nat /\ owner[s] = u
    BY <1>4 DEF SessionInv, TypeOK, ValkeySound
  <2>3. /\ r \in ClientRecord /\ r.conn # "new" /\ r.user = u /\ r.session = s
        /\ r.identified = client[c].identified /\ r.reader = "loaded"
        /\ r.send = client[c].send /\ r.loaded = saved[s].lastSeq
        /\ r.missed = client[c].missed /\ r.heard = client[c].heard
    BY <1>1, <1>2, <2>2 DEF ClientRecord
  <2> HIDE DEF r
  <2>4. ClientBound(r)
    BY <1>1, <2>2, <2>3, OfClient
       DEF ClientSound, ClientBound, Identified, Registering, Replaying
  <2>5. ClientCounted(r)
    BY <1>1, <2>3, OfClient DEF ClientSound, ClientCounted
  <2>6. Alike(client[c], r)
    BY <1>1, <2>2, <2>3 DEF Alike, Follows
  <2> QED BY <1>1, <1>2, <2>1, <2>4, <2>5, <2>6, OfClient, ClientOnly DEF ClientSound
<1> QED BY <1>3, <1>4

\* Valkey fails and the client is told the session is invalid.
LEMMA ResumeFailsKeeps ==
  ASSUME SessionInv, NEW c \in Clients, ResumeFails(c)
  PROVE  SessionInv'
<1> DEFINE mid == [client[c] EXCEPT !.reader = "reading"]
           r == Enqueued(mid, Unsequenced)
<1>1. /\ client[c].reader = "loaded" /\ client' = [client EXCEPT ![c] = r]
      /\ UNCHANGED <<registered, valkey, dispatch, events, history, budget>>
  BY DEF ResumeFails, At
<1>2. /\ c \notin registered /\ client[c] \in ClientRecord /\ client[c].conn # "new"
      /\ ~client[c].identified
  BY <1>1, OfClient DEF ClientSound, ClientBound
<1>3. Moves(client[c], mid, "reading")
  BY <1>2 DEF Moves, ClientRecord
<1> HIDE DEF mid
<1>4. ClientSound(mid) /\ Alike(client[c], mid)
  BY <1>1, <1>3, OfClient, MovesSound DEF Registering, Identified, Replaying
<1>5. ClientSound(r) /\ Alike(mid, r)
  BY <1>3, <1>4, UnsequencedFrame, EnqueuedSound DEF Moves
<1>6. r.reader = "reading"
  BY <1>3, UnsequencedFrame, EnqueuedParts DEF Moves
<1> HIDE DEF r
<1>7. Alike(client[c], r)
  BY <1>4, <1>5, <1>6, <1>2, <1>3 DEF Alike, Follows, Moves
<1> QED BY <1>1, <1>2, <1>5, <1>7, OfClient, ClientOnly

\* A step that leaves every client alone.
LEMMA SameClients ==
  ASSUME SessionInv
  PROVE  /\ client \in [Clients -> ClientRecord]
         /\ \A c \in Clients : ClientSound(client[c]) /\ Alike(client[c], client[c])
         /\ \A c \in registered : client[c].identified /\ client[c].reader \notin Leaving
BY DEF SessionInv, TypeOK, ClientsSound, ClientSound, Alike, Follows, RegistrySound

\* Valkey's keys expire.
LEMMA ExpireKeeps ==
  ASSUME SessionInv, NEW s \in Sessions, Expire(s)
  PROVE  SessionInv'
<1>1. UNCHANGED <<client, registered, dispatch, published, audience, owner, appended, got, seen,
                  resumes, budget>>
  BY DEF Expire, events, history
<1>2. /\ saved' \in [Sessions -> [user : Users, lastSeq : Nat] \cup {None}]
      /\ replay' \in [Sessions -> Seq(Frames)]
      /\ \A t \in Sessions : saved'[t] \in {saved[t], None}
      /\ \A t \in Sessions : replay'[t] \in {replay[t], <<>>}
  <2>1. /\ saved \in [Sessions -> [user : Users, lastSeq : Nat] \cup {None}]
        /\ replay \in [Sessions -> Seq(Frames)]
    BY DEF SessionInv, TypeOK
  <2>2. <<>> \in Seq(Frames)
    OBVIOUS
  <2>3. saved' = [saved EXCEPT ![s] = None]
    BY DEF Expire
  <2>4. replay' = replay \/ replay' = [replay EXCEPT ![s] = <<>>]
    BY DEF Expire
  <2> QED BY <2>1, <2>2, <2>3, <2>4
<1>3. OthersTyped'
  BY <1>1, <1>2 DEF SessionInv, TypeOK, OthersTyped
<1>4. \A t \in Sessions : \A e \in got'[t] : Sendable(t, e)
  BY <1>1 DEF SessionInv, ReceivedSound
<1>5. PICK new : new = client
  OBVIOUS
<1> QED BY <1>1, <1>2, <1>3, <1>4, <1>5, SameClients, LightStep

\* unregister stores the counter, or the write fails.
LEMMA SaveKeeps ==
  ASSUME SessionInv, NEW c \in Clients, Save(c)
  PROVE  SessionInv'
<1> DEFINE r == [client[c] EXCEPT !.reader = "exited"]
<1>t. PICK t : t = client[c].session
  OBVIOUS
<1>1. /\ client[c].reader = "save" /\ client' = [client EXCEPT ![c] = r]
      /\ UNCHANGED <<registered, replay, dispatch, events, history, budget>>
      /\ \/ saved' = [saved EXCEPT ![t] = [user |-> client[c].user, lastSeq |-> client[c].seq]]
         \/ UNCHANGED saved
  BY <1>t DEF Save, At
<1>2. /\ client[c].identified /\ client[c].conn # "new" /\ client[c] \in ClientRecord
      /\ c \notin registered /\ client[c].seq \in Nat
      /\ client[c].user \in Users /\ t \in Sessions /\ owner[t] = client[c].user
  BY <1>1, <1>t, OfClient DEF ClientSound, ClientBound, Identified, Leaving, ClientRecord
<1>3. Moves(client[c], r, "exited")
  BY <1>2 DEF Moves, ClientRecord
<1> HIDE DEF r
<1>4. ClientSound(r) /\ Alike(client[c], r)
  BY <1>1, <1>2, <1>3, OfClient, MovesSound DEF Registering, Identified, Replaying
<1>5. UNCHANGED <<published, audience, owner, appended, got, seen, resumes>>
  BY <1>1 DEF events, history
<1>6. CASE UNCHANGED saved
  BY <1>1, <1>2, <1>4, <1>6, OfClient, ClientOnly DEF valkey
<1>7. CASE saved' = [saved EXCEPT ![t] = [user |-> client[c].user, lastSeq |-> client[c].seq]]
  <2>1. /\ saved' \in [Sessions -> [user : Users, lastSeq : Nat] \cup {None}]
        /\ \A s \in Sessions : s # t => saved'[s] = saved[s]
        /\ saved'[t].user = client[c].user /\ saved'[t].lastSeq = client[c].seq
    <3>1. saved \in [Sessions -> [user : Users, lastSeq : Nat] \cup {None}]
      BY DEF SessionInv, TypeOK
    <3> QED BY <1>2, <1>7, <3>1
  <2>2. OthersTyped'
    BY <1>1, <1>5, <2>1 DEF SessionInv, TypeOK, OthersTyped
  <2>3. PICK new : new = client'
    OBVIOUS
  <2>4. /\ new \in [Clients -> ClientRecord]
        /\ \A d \in Clients : new[d] = IF d = c THEN r ELSE client[d]
    BY <1>1, <1>3, <2>3, SameClients DEF Moves
  <2>5. \A d \in Clients : /\ ClientSound(new[d]) /\ Follows(client[d], new[d])
                           /\ client[d].identified => new[d].seq = client[d].seq
    <3>1. \A d \in Clients : d # c => new[d] = client[d]
      BY <2>4
    <3>2. new[c] = r
      BY <2>4
    <3>3. ClientSound(new[c]) /\ Follows(client[c], new[c]) /\
          (client[c].identified => new[c].seq = client[c].seq)
      BY <1>4, <3>2 DEF Alike, Follows
    <3>4. \A d \in Clients : d # c => Alike(client[d], new[d]) /\ ClientSound(new[d])
      BY <3>1, SameClients
    <3>5. \A d \in Clients : d # c => Follows(client[d], new[d]) /\ new[d].seq = client[d].seq
      BY <3>1, <3>4 DEF Alike
    <3> QED BY <3>3, <3>4, <3>5, Zenon
  <2>6. \A d \in registered' : new[d].identified /\ new[d].reader \notin Leaving
    <3>1. registered \subseteq Clients
      BY DEF SessionInv, TypeOK
    <3> QED BY <1>1, <1>2, <2>4, <3>1, SameClients
  <2>7. DispatchSound'
    BY <1>1, <1>5, <2>3, <2>5 DEF SessionInv, DispatchSound, Follows
  <2>8. resumes[t] = 0 => CounterSaved(t, saved[t].lastSeq)'
    <3> SUFFICES ASSUME resumes[t] = 0 PROVE CounterSaved(t, saved[t].lastSeq)'
      OBVIOUS
    <3>1. SessionCounted(t)
      BY <1>2 DEF SessionInv, SessionsCounted
    <3>2. \A d \in Clients : client'[d].identified /\ client'[d].session = t => d = c
      BY <1>2, <1>t, <2>3, <2>5, <3>1 DEF SessionCounted, Follows
    <3>3. client'[c].reader = "exited" /\ client'[c].seq = client[c].seq
      BY <1>3, <2>3, <2>4 DEF Moves
    <3>4. \A i \in 1 .. Len(replay[t]) : replay[t][i].seq <= client[c].seq + 1
      <4>1. \A i \in 1 .. Len(replay[t]) : replay[t][i].seq <= client[c].seq
        BY <1>2, <1>t, <3>1 DEF SessionCounted
      <4>2. replay[t] \in Seq(Frames)
        BY <1>2 DEF SessionInv, TypeOK
      <4>3. \A i \in 1 .. Len(replay[t]) : replay[t][i] \in Frames
        BY <4>2
      <4>4. \A i \in 1 .. Len(replay[t]) : replay[t][i].seq \in Nat
        BY <4>3 DEF Frames
      <4> QED BY <1>2, <4>1, <4>4
    <3>5. PICK n : n = client[c].seq
      OBVIOUS
    <3>6. CounterSaved(t, n)'
      BY <1>1, <1>2, <3>2, <3>3, <3>4, <3>5 DEF CounterSaved
    <3> QED BY <2>1, <3>5, <3>6 DEF CounterSaved
  <2>9. \A s \in Sessions : saved'[s] # None =>
          \/ saved'[s] = saved[s]
          \/ owner[s] = saved'[s].user /\ (resumes[s] = 0 => CounterSaved(s, saved[s].lastSeq)')
    <3> SUFFICES ASSUME NEW s \in Sessions, saved'[s] # None, saved'[s] # saved[s]
                 PROVE  /\ owner[s] = saved'[s].user
                        /\ resumes[s] = 0 => CounterSaved(s, saved[s].lastSeq)'
      OBVIOUS
    <3>1. s = t
      BY <2>1
    <3> QED BY <1>2, <2>1, <2>8, <3>1
  <2>10. \A s \in Sessions : \A i \in 1 .. Len(replay'[s]) :
           /\ MeantFor(s, replay'[s][i].event)
           /\ \E j \in 1 .. Len(replay[s]) : replay'[s][i] = replay[s][j]
    BY <1>1 DEF SessionInv, ValkeySound
  <2>11. \A s \in Sessions : \A e \in got'[s] : Sendable(s, e)
    BY <1>5 DEF SessionInv, ReceivedSound
  <2> QED BY <1>1, <1>5, <2>2, <2>3, <2>4, <2>5, <2>6, <2>7, <2>9, <2>10, <2>11, StepKeeps
<1> QED BY <1>1, <1>6, <1>7

\* One client's counter moves, Valkey stays.
LEMMA CounterMoves ==
  ASSUME SessionInv, NEW c \in Clients, NEW r, client' = [client EXCEPT ![c] = r],
         ClientSound(r), Follows(client[c], r), client[c].identified,
         r.reader \notin Leaving \/ r.reader = client[c].reader,
         r.seq = client[c].seq + 1,
         client[c].reader = "exited" =>
           /\ dispatch # None /\ c \in dispatch.todo
           /\ dispatch' # None => c \notin dispatch'.todo,
         OthersTyped', DispatchSound',
         \A d \in Clients :
           dispatch' # None /\ d \in dispatch'.todo => dispatch # None /\ d \in dispatch.todo,
         UNCHANGED registered, UNCHANGED valkey, UNCHANGED events, UNCHANGED history
  PROVE  SessionInv'
<1>1. UNCHANGED <<published, audience, owner, appended, got, seen, resumes, saved, replay>>
  BY DEF events, history, valkey
<1>2. PICK new : new = client'
  OBVIOUS
<1>3. /\ new \in [Clients -> ClientRecord]
      /\ \A d \in Clients : new[d] = IF d = c THEN r ELSE client[d]
  BY <1>2, SameClients DEF ClientSound, ClientBound
<1>4. \A d \in Clients : /\ ClientSound(new[d]) /\ Follows(client[d], new[d])
                         /\ d # c => new[d].seq = client[d].seq
  BY <1>3, SameClients DEF Alike
<1>5. \A d \in registered' : new[d].identified /\ new[d].reader \notin Leaving
  <2>1. registered \subseteq Clients
    BY DEF SessionInv, TypeOK
  <2> QED BY <1>3, <2>1, SameClients DEF Follows
<1>6. \A s \in Sessions : \A i \in 1 .. Len(replay'[s]) :
        /\ MeantFor(s, replay'[s][i].event)
        /\ \E j \in 1 .. Len(replay[s]) : replay'[s][i] = replay[s][j]
  BY <1>1 DEF SessionInv, ValkeySound
<1>7. \A s \in Sessions : \A e \in got'[s] : Sendable(s, e)
  BY <1>1 DEF SessionInv, ReceivedSound
<1>8. \A d \in Clients :
        client[d].identified /\ client[d].reader = "exited" /\ new[d].seq # client[d].seq =>
          /\ new[d].seq = client[d].seq + 1
          /\ dispatch # None /\ d \in dispatch.todo
          /\ dispatch' # None => d \notin dispatch'.todo
  BY <1>3, <1>4
<1> QED BY <1>1, <1>2, <1>3, <1>4, <1>5, <1>6, <1>7, <1>8, StepKeeps

\* nextSeq for READY or RESUMED.
LEMMA TakeNumberKeeps ==
  ASSUME SessionInv, NEW c \in Clients, TakeNumber(c)
  PROVE  SessionInv'
<1> DEFINE r == [client[c] EXCEPT !.seq = client[c].seq + 1, !.number = client[c].seq + 1,
                                  !.reader = "greet"]
<1>1. /\ client[c].reader = "number" /\ client' = [client EXCEPT ![c] = r]
      /\ UNCHANGED <<registered, valkey, dispatch, events, history, budget>>
  BY DEF TakeNumber, At
<1>2. /\ client[c].identified /\ client[c].conn # "new" /\ client[c] \in ClientRecord
      /\ client[c].seq \in Nat
  BY <1>1, OfClient DEF ClientSound, ClientBound, Identified, Replaying, ClientRecord
<1>3. /\ r \in ClientRecord /\ r.conn = client[c].conn /\ r.user = client[c].user
      /\ r.session = client[c].session /\ r.identified = client[c].identified
      /\ r.reader = "greet" /\ r.seq = client[c].seq + 1 /\ r.number = r.seq
      /\ r.send = client[c].send /\ r.loaded = client[c].loaded
      /\ r.heard = client[c].heard /\ r.missed = client[c].missed
  <2>1. PICK n : n = client[c].seq + 1
    OBVIOUS
  <2>2. r = [client[c] EXCEPT !.seq = n, !.number = n, !.reader = "greet"] /\ n \in Nat
    BY <1>2, <2>1
  <2>3. r \in ClientRecord
    BY <1>2, <2>2 DEF ClientRecord
  <2>4. /\ r.conn = client[c].conn /\ r.user = client[c].user
        /\ r.session = client[c].session /\ r.identified = client[c].identified
        /\ r.reader = "greet" /\ r.seq = n /\ r.number = n
        /\ r.send = client[c].send /\ r.loaded = client[c].loaded
        /\ r.heard = client[c].heard /\ r.missed = client[c].missed
    BY <1>2, <2>2 DEF ClientRecord
  <2> HIDE DEF r
  <2> QED BY <2>1, <2>3, <2>4
<1> HIDE DEF r
<1>4. Top(r) = Top(client[c])
  BY <1>1, <1>3 DEF Top, Replaying
<1>5. ClientBound(r)
  BY <1>2, <1>3, OfClient DEF ClientSound, ClientBound
<1>6. ClientCounted(r)
  BY <1>1, <1>2, <1>3, <1>4, OfClient DEF ClientSound, ClientCounted, Registering
<1>7. Follows(client[c], r)
  BY <1>1, <1>2, <1>3 DEF Follows
<1>8. OthersTyped'
  BY <1>1 DEF SessionInv, TypeOK, OthersTyped, valkey, events, history
<1>9. DispatchSound'
  <2>1. \A d \in Clients : client'[d] = IF d = c THEN r ELSE client[d]
    BY <1>1, SameClients
  <2>2. /\ dispatch # None => dispatch.seq \in Int
        /\ \A d \in Clients : client[d].seq \in Int
    BY DEF SessionInv, TypeOK, ClientRecord
  <2>3. \A d \in Clients : /\ client[d].identified => client'[d].identified
                           /\ client'[d].user = client[d].user
                           /\ client'[d].seq \in {client[d].seq, client[d].seq + 1}
    BY <1>2, <1>3, <2>1
  <2>4. UNCHANGED <<dispatch, published, audience>>
    BY <1>1 DEF events
  <2> QED BY <2>2, <2>3, <2>4 DEF SessionInv, DispatchSound
<1> QED BY <1>1, <1>2, <1>3, <1>5, <1>6, <1>7, <1>8, <1>9, CounterMoves
        DEF ClientSound, Leaving


-----------------------------------------------------------------------------
(* Steps of the dispatcher and the end of a process *)

\* Every target gets an unsequenced frame.
LEMMA DispatchEphemeralKeeps ==
  ASSUME SessionInv, NEW users \in SUBSET Users, DispatchEphemeral(users)
  PROVE  SessionInv'
<1>1. /\ UNCHANGED <<registered, dispatch, saved, replay, published, audience, owner, appended,
                     got, seen, resumes>>
      /\ budget.unsequenced > 0 /\ budget' = [budget EXCEPT !.unsequenced = @ - 1]
  BY DEF DispatchEphemeral, valkey, events, history
<1>2. PICK new : new = client'
  OBVIOUS
<1>3. new = [c \in Clients |-> IF c \in Targets(users) THEN Enqueued(client[c], Unsequenced)
                               ELSE client[c]]
  BY <1>2 DEF DispatchEphemeral
<1>5. ASSUME NEW c \in Clients
      PROVE  /\ new[c] \in ClientRecord /\ ClientSound(new[c]) /\ Alike(client[c], new[c])
             /\ new[c].reader = client[c].reader
  <2>1. CASE c \notin Targets(users)
    BY <1>3, <2>1, OfClient, SameClients
  <2>2. CASE c \in Targets(users)
    <3>0. new[c] = Enqueued(client[c], Unsequenced)
      BY <1>3, <2>2
    <3>1. client[c].conn # "new" /\ client[c] \in ClientRecord
      BY <2>2, OfClient DEF Targets
    <3>2. ClientSound(new[c]) /\ Alike(client[c], new[c])
      BY <3>0, <3>1, OfClient, UnsequencedFrame, EnqueuedSound
    <3>3. new[c] \in ClientRecord /\ new[c].reader = client[c].reader
      BY <3>0, <3>1, UnsequencedFrame, EnqueuedParts
    <3> QED BY <3>2, <3>3
  <2> QED BY <2>1, <2>2
<1>6. new \in [Clients -> ClientRecord]
  <2>1. new = [c \in Clients |-> new[c]]
    BY <1>3
  <2> QED BY <1>5, <2>1
<1>7. \A c \in registered' : new[c].identified /\ new[c].reader \notin Leaving
  <2>1. registered \subseteq Clients
    BY DEF SessionInv, TypeOK
  <2> QED BY <1>1, <1>5, <2>1, SameClients DEF Alike, Follows
<1>8. budget' \in [unsequenced : 0 .. MaxUnsequenced, crashes : 0 .. MaxCrashes]
  <2>1. budget \in [unsequenced : 0 .. MaxUnsequenced, crashes : 0 .. MaxCrashes]
    BY DEF SessionInv, TypeOK
  <2> QED BY <1>1, <2>1, GatewayAssumption
<1>9. OthersTyped'
  BY <1>1, <1>8 DEF SessionInv, TypeOK, OthersTyped
<1>10. \A s \in Sessions : \A e \in got'[s] : Sendable(s, e)
  BY <1>1 DEF SessionInv, ReceivedSound
<1> QED BY <1>1, <1>2, <1>5, <1>6, <1>7, <1>9, <1>10, LightStep

\* Everyone gets a last frame and is closed.
LEMMA ShutdownKeeps ==
  ASSUME SessionInv, Shutdown
  PROVE  SessionInv'
<1>1. /\ UNCHANGED <<dispatch, saved, replay, published, audience, owner, appended,
                     got, seen, resumes, budget>>
      /\ registered' = {}
  BY DEF Shutdown, valkey, events, history
<1>2. PICK new : new = client'
  OBVIOUS
<1>3. new = [c \in Clients |->
               IF c \in registered
               THEN [ClosedSend(Enqueued(client[c], Unsequenced)) EXCEPT !.conn = "closed"]
               ELSE client[c]]
  BY <1>2 DEF Shutdown
<1>5. ASSUME NEW c \in Clients
      PROVE  new[c] \in ClientRecord /\ ClientSound(new[c]) /\ Alike(client[c], new[c])
  <2>1. CASE c \notin registered
    BY <1>3, <2>1, OfClient, SameClients
  <2>2. CASE c \in registered
    <3> DEFINE mid == Enqueued(client[c], Unsequenced)
    <3>1. client[c].conn # "new" /\ client[c] \in ClientRecord
      BY <2>2, OfClient
    <3>2. ClientSound(mid) /\ Alike(client[c], mid)
      BY <2>2, <3>1, OfClient, UnsequencedFrame, EnqueuedSound
    <3>3. mid \in ClientRecord /\ mid.reader = client[c].reader
      BY <2>2, <3>1, UnsequencedFrame, EnqueuedParts
    <3>4. new[c] = [ClosedSend(mid) EXCEPT !.conn = "closed"]
      BY <1>3, <2>2
    <3> HIDE DEF mid
    <3>5. Closes(mid, new[c])
      BY <3>3, <3>4 DEF Closes, ClosedSend, ClientRecord
    <3>6. ClientSound(new[c]) /\ Alike(mid, new[c])
      BY <3>2, <3>5, ClosesSound
    <3>7. Alike(client[c], new[c])
      BY <2>2, <3>2, <3>3, <3>5, <3>6, OfClient DEF Alike, Follows, Closes, ClientSound, ClientBound
    <3> QED BY <3>5, <3>6, <3>7 DEF Closes
  <2> QED BY <2>1, <2>2
<1>6. new \in [Clients -> ClientRecord]
  <2>1. new = [c \in Clients |-> new[c]]
    BY <1>3
  <2> QED BY <1>5, <2>1
<1>9. OthersTyped'
  BY <1>1 DEF SessionInv, TypeOK, OthersTyped
<1>10. \A s \in Sessions : \A e \in got'[s] : Sendable(s, e)
  BY <1>1 DEF SessionInv, ReceivedSound
<1> QED BY <1>1, <1>2, <1>5, <1>6, <1>9, <1>10, LightStep

\* What the invariant says of the dispatcher's targets.
LEMMA OfTarget ==
  ASSUME SessionInv, dispatch # None, NEW c \in Clients,
         c \in dispatch.todo \/ c = dispatch.target
  PROVE  /\ dispatch.event \in Events /\ dispatch.seq \in Int
         /\ client[c].identified /\ client[c].seq \in Nat /\ client[c].session \in Sessions
         /\ MeantFor(client[c].session, dispatch.event)
         /\ c = dispatch.target => dispatch.seq <= client[c].seq /\ -dispatch.seq <= client[c].seq
<1>1. dispatch.event \in Events /\ dispatch.seq \in Int
  BY DEF SessionInv, TypeOK
<1>2. /\ client[c].identified /\ client[c].user \in audience[dispatch.event]
      /\ dispatch.event \in 1 .. published
      /\ c = dispatch.target => dispatch.seq <= client[c].seq /\ -dispatch.seq <= client[c].seq
  BY DEF SessionInv, DispatchSound
<1>3. client[c].session \in Sessions /\ owner[client[c].session] = client[c].user
  BY <1>2, OfClient DEF ClientSound, ClientBound
<1>4. client[c].seq \in Nat
  BY OfClient DEF ClientRecord
<1> QED BY <1>1, <1>2, <1>3, <1>4 DEF MeantFor

\* The event is queued for a target.
LEMMA DispatchEnqueueKeeps ==
  ASSUME SessionInv, NEW c \in Clients, DispatchEnqueue(c)
  PROVE  SessionInv'
<1> DEFINE frame == Frame(dispatch.seq, dispatch.event)
           r == Enqueued(client[c], frame)
<1>1. /\ dispatch # None /\ dispatch.target = c /\ dispatch.seq > 0
      /\ client' = [client EXCEPT ![c] = r]
      /\ dispatch' = [dispatch EXCEPT !.seq = -@]
      /\ UNCHANGED <<registered, saved, replay, published, audience, owner, appended,
                     got, seen, resumes, budget>>
  BY DEF DispatchEnqueue, valkey, events, history
<1>2. frame \in Frames /\ frame.seq = dispatch.seq /\ frame.event = dispatch.event
  BY <1>1, OfTarget DEF Frame, Frames
<1>3. client[c] \in ClientRecord /\ client[c].conn # "new"
  BY <1>1, OfClient, OfTarget
<1>4. frame.seq <= Top(client[c])
  BY <1>1, <1>2, OfTarget DEF Top
<1>5. ClientSound(r) /\ Alike(client[c], r)
  BY <1>1, <1>2, <1>3, <1>4, OfClient, OfTarget, EnqueuedSound DEF Sendable
<1>6. r \in ClientRecord /\ r.reader = client[c].reader
  BY <1>2, <1>3, EnqueuedParts
<1> HIDE DEF r
<1>7. PICK new : new = client'
  OBVIOUS
<1>8. /\ new \in [Clients -> ClientRecord]
      /\ \A d \in Clients : new[d] = IF d = c THEN r ELSE client[d]
  BY <1>1, <1>6, <1>7, SameClients
<1>9. \A d \in Clients : ClientSound(new[d]) /\ Alike(client[d], new[d])
  <2>1. ClientSound(new[c]) /\ Alike(client[c], new[c])
    BY <1>5, <1>8
  <2>2. \A d \in Clients : d # c => new[d] = client[d]
    BY <1>8
  <2> QED BY <2>1, <2>2, SameClients, Zenon
<1>10. \A d \in registered' : new[d].identified /\ new[d].reader \notin Leaving
  <2>1. registered \subseteq Clients
    BY DEF SessionInv, TypeOK
  <2>2. \A d \in Clients : d # c => new[d] = client[d]
    BY <1>8
  <2>3. new[c].reader = client[c].reader
    BY <1>6, <1>8
  <2>4. \A d \in registered : new[d].reader = client[d].reader
    BY <2>1, <2>2, <2>3, Zenon
  <2> QED BY <1>1, <1>9, <2>1, <2>4, SameClients DEF Alike, Follows
<1>11. /\ dispatch'.event = dispatch.event
       /\ dispatch'.todo = dispatch.todo /\ dispatch'.target = dispatch.target
       /\ dispatch'.seq = -dispatch.seq
       /\ dispatch' \in [event : Events, todo : SUBSET Clients, target : Clients \cup {None},
                         seq : Int]
  <2>1. dispatch \in [event : Events, todo : SUBSET Clients, target : Clients \cup {None},
                      seq : Int]
    BY <1>1 DEF SessionInv, TypeOK
  <2> QED BY <1>1, <2>1
<1>12. OthersTyped'
  BY <1>1, <1>11 DEF SessionInv, TypeOK, OthersTyped
<1>13. \A s \in Sessions : \A e \in got'[s] : Sendable(s, e)
  BY <1>1 DEF SessionInv, ReceivedSound
<1> QED BY <1>1, <1>7, <1>8, <1>9, <1>10, <1>11, <1>12, <1>13, LightStep

\* The dispatcher draws a number for a target.
LEMMA DispatchNumberKeeps ==
  ASSUME SessionInv, NEW c \in Clients, DispatchNumber(c)
  PROVE  SessionInv'
<1> DEFINE r == [client[c] EXCEPT !.seq = client[c].seq + 1]
<1>1. /\ dispatch # None /\ c \in dispatch.todo
      /\ client' = [client EXCEPT ![c] = r]
      /\ dispatch' = [dispatch EXCEPT !.target = c, !.seq = client[c].seq + 1, !.todo = @ \ {c}]
      /\ UNCHANGED <<registered, valkey, events, history, budget>>
  BY DEF DispatchNumber
<1>2. /\ client[c].identified /\ client[c].conn # "new" /\ client[c] \in ClientRecord
      /\ client[c].seq \in Nat
  BY <1>1, OfClient, OfTarget
<1>3. /\ r \in ClientRecord /\ r.conn = client[c].conn /\ r.user = client[c].user
      /\ r.session = client[c].session /\ r.identified = client[c].identified
      /\ r.reader = client[c].reader /\ r.seq = client[c].seq + 1 /\ r.number = client[c].number
      /\ r.send = client[c].send /\ r.loaded = client[c].loaded
      /\ r.heard = client[c].heard /\ r.missed = client[c].missed
  <2>1. PICK n : n = client[c].seq + 1
    OBVIOUS
  <2>2. r = [client[c] EXCEPT !.seq = n] /\ n \in Nat
    BY <1>2, <2>1
  <2>3. r \in ClientRecord
    BY <1>2, <2>2 DEF ClientRecord
  <2>4. /\ r.conn = client[c].conn /\ r.user = client[c].user
        /\ r.session = client[c].session /\ r.identified = client[c].identified
        /\ r.reader = client[c].reader /\ r.seq = n /\ r.number = client[c].number
        /\ r.send = client[c].send /\ r.loaded = client[c].loaded
        /\ r.heard = client[c].heard /\ r.missed = client[c].missed
    BY <1>2, <2>2 DEF ClientRecord
  <2> HIDE DEF r
  <2> QED BY <2>1, <2>3, <2>4
<1> HIDE DEF r
<1>4. Top(r) = Top(client[c]) + 1 /\ Top(client[c]) \in Nat
  BY <1>2, <1>3 DEF Top
<1>5. ClientBound(r)
  BY <1>2, <1>3, OfClient DEF ClientSound, ClientBound
<1>6. ClientCounted(r)
  <2>1. /\ client[c].heard \in Nat /\ client[c].number \in Nat
        /\ client[c].send \in Seq(Frames) /\ client[c].missed \in Seq(Frames)
    BY <1>2 DEF ClientRecord
  <2>2. /\ \A i \in 1 .. Len(client[c].send) : client[c].send[i] \in Frames
        /\ \A i \in 1 .. Len(client[c].missed) : client[c].missed[i] \in Frames
    BY <2>1
  <2>3. /\ \A i \in 1 .. Len(client[c].send) : client[c].send[i].seq \in Nat
        /\ \A i \in 1 .. Len(client[c].missed) : client[c].missed[i].seq \in Nat
    BY <2>2 DEF Frames
  <2>4. ClientCounted(client[c])
    BY OfClient DEF ClientSound
  <2> SUFFICES ASSUME resumes[r.session] <= 1
               PROVE  /\ r.heard <= Top(r)
                      /\ \A i \in 1 .. Len(r.send) : r.send[i].seq <= Top(r)
                      /\ r.reader \in {"register_resumed", "delete_session", "send_missed"} =>
                           \A i \in 1 .. Len(r.missed) : r.missed[i].seq <= r.seq + 1
                      /\ r.reader = "greet" => r.number <= r.seq
    BY <1>2, <1>3 DEF ClientCounted
  <2>5. /\ client[c].heard <= Top(client[c])
        /\ \A i \in 1 .. Len(client[c].send) : client[c].send[i].seq <= Top(client[c])
        /\ client[c].reader \in {"register_resumed", "delete_session", "send_missed"} =>
             \A i \in 1 .. Len(client[c].missed) : client[c].missed[i].seq <= client[c].seq + 1
        /\ client[c].reader = "greet" => client[c].number <= client[c].seq
    BY <1>2, <1>3, <2>4 DEF ClientCounted
  <2>6. \A m \in Nat : /\ m <= Top(client[c]) => m <= Top(r)
                       /\ m <= client[c].seq => m <= r.seq
                       /\ m <= client[c].seq + 1 => m <= r.seq + 1
    BY <1>2, <1>3, <1>4
  <2>7. /\ r.heard <= Top(r)
        /\ \A i \in 1 .. Len(r.send) : r.send[i].seq <= Top(r)
    BY <1>3, <2>1, <2>3, <2>5, <2>6
  <2>8. r.reader \in {"register_resumed", "delete_session", "send_missed"} =>
          \A i \in 1 .. Len(r.missed) : r.missed[i].seq <= r.seq + 1
    BY <1>3, <2>3, <2>5, <2>6
  <2>9. r.reader = "greet" => r.number <= r.seq
    BY <1>3, <2>1, <2>5, <2>6
  <2> QED BY <2>7, <2>8, <2>9
<1>7. Follows(client[c], r)
  BY <1>2, <1>3, OfClient DEF Follows, ClientSound, ClientBound
<1>d. dispatch \in [event : Events, todo : SUBSET Clients, target : Clients \cup {None},
                    seq : Int]
  BY <1>1 DEF SessionInv, TypeOK
<1>e. /\ dispatch'.event = dispatch.event /\ dispatch'.target = c
      /\ dispatch'.seq = client[c].seq + 1 /\ dispatch'.todo = dispatch.todo \ {c}
      /\ dispatch' \in [event : Events, todo : SUBSET Clients, target : Clients \cup {None},
                        seq : Int]
  <2>1. PICK n, rest : n = client[c].seq + 1 /\ rest = dispatch.todo \ {c}
    OBVIOUS
  <2>2. n \in Int /\ rest \in SUBSET Clients
    BY <1>2, <1>d, <2>1
  <2>3. dispatch' = [dispatch EXCEPT !.target = c, !.seq = n, !.todo = rest]
    BY <1>1, <2>1
  <2>4. dispatch' \in [event : Events, todo : SUBSET Clients, target : Clients \cup {None},
                      seq : Int]
    BY <1>d, <2>2, <2>3
  <2>5. /\ dispatch'.event = dispatch.event /\ dispatch'.target = c
        /\ dispatch'.seq = n /\ dispatch'.todo = rest
    BY <1>d, <2>3
  <2> QED BY <2>1, <2>4, <2>5
<1>f. UNCHANGED <<saved, replay, published, audience, owner, appended, got, seen, resumes>>
  BY <1>1 DEF valkey, events, history
<1>8. OthersTyped'
  BY <1>1, <1>e, <1>f DEF SessionInv, TypeOK, OthersTyped
<1>9. DispatchSound'
  <2>1. \A d \in Clients : d # c => client'[d] = client[d]
    BY <1>1, SameClients
  <2>2. client'[c] = r
    BY <1>1, SameClients
  <2>3. /\ dispatch.event \in 1 .. published
        /\ \A d \in Clients : d \in dispatch.todo =>
             client[d].identified /\ client[d].user \in audience[dispatch.event]
    BY <1>1 DEF SessionInv, DispatchSound
  <2>4. \A d \in Clients : d \in dispatch.todo =>
          client'[d].identified /\ client'[d].user \in audience[dispatch.event]
    BY <1>3, <2>1, <2>2, <2>3
  <2>5. dispatch'.seq <= client'[c].seq /\ -dispatch'.seq <= client'[c].seq
    BY <1>2, <1>3, <1>e, <2>2
  <2> QED BY <1>1, <1>e, <1>f, <2>3, <2>4, <2>5 DEF DispatchSound
<1> QED BY <1>1, <1>2, <1>3, <1>5, <1>6, <1>7, <1>8, <1>9, <1>e, CounterMoves
        DEF ClientSound

\* The elements of a buffer with one more entry.
LEMMA AppendedParts ==
  ASSUME NEW b \in Seq(Frames), NEW f \in Frames
  PROVE  /\ Appended(b, f) \in Seq(Frames)
         /\ \A i \in 1 .. Len(Appended(b, f)) :
              \/ Appended(b, f)[i] = f
              \/ \E j \in 1 .. Len(b) : Appended(b, f)[i] = b[j]
<1>1. PICK q : q = Append(b, f)
  OBVIOUS
<1>2. q \in Seq(Frames) /\ q # <<>>
  BY <1>1
<1>3. \A i \in 1 .. Len(q) : q[i] = f \/ (i \in 1 .. Len(b) /\ q[i] = b[i])
  BY <1>1, AppendParts
<1>4. /\ Tail(q) \in Seq(Frames)
      /\ \A i \in 1 .. Len(Tail(q)) : i + 1 \in 1 .. Len(q) /\ Tail(q)[i] = q[i + 1]
  BY <1>2, TailParts
<1>5. CASE Appended(b, f) = q
  BY <1>2, <1>3, <1>5
<1>6. CASE Appended(b, f) = Tail(q)
  <2>1. ASSUME NEW i \in 1 .. Len(Tail(q))
        PROVE  Tail(q)[i] = f \/ \E j \in 1 .. Len(b) : Tail(q)[i] = b[j]
    BY <1>3, <1>4
  <2> QED BY <1>4, <1>6, <2>1
<1> QED BY <1>1, <1>5, <1>6 DEF Appended

\* The event is appended to a target's buffer, or the write fails.
LEMMA DispatchAppendKeeps ==
  ASSUME SessionInv, NEW c \in Clients, DispatchAppend(c)
  PROVE  SessionInv'
<1>1. PICK t : t = client[c].session
  OBVIOUS
<1>2. PICK entry : entry = [seq |-> -dispatch.seq, event |-> dispatch.event]
  OBVIOUS
<1>3. /\ dispatch # None /\ dispatch.target = c /\ dispatch.seq < 0
      /\ \/ /\ replay' = [replay EXCEPT ![t] = Appended(@, entry)]
            /\ appended' = [appended EXCEPT ![t] = @ \cup {dispatch.event}]
         \/ UNCHANGED <<replay, appended>>
      /\ dispatch' = IF dispatch.todo = {} THEN None
                     ELSE [dispatch EXCEPT !.target = None, !.seq = 0]
      /\ UNCHANGED <<client, registered, saved, published, audience, owner, got, seen, resumes,
                     budget>>
  BY <1>1, <1>2 DEF DispatchAppend, events
<1>4. /\ dispatch.event \in Events /\ dispatch.seq \in Int /\ client[c].identified
      /\ t \in Sessions /\ MeantFor(t, dispatch.event)
      /\ client[c].seq \in Nat /\ -dispatch.seq <= client[c].seq
  BY <1>1, <1>3, OfTarget
<1>5. entry \in Frames /\ entry.event = dispatch.event /\ entry.seq <= client[c].seq
  BY <1>2, <1>3, <1>4 DEF Frames
<1>6. replay \in [Sessions -> Seq(Frames)] /\ appended \in [Sessions -> SUBSET Events]
  BY DEF SessionInv, TypeOK
<1>7. replay[t] \in Seq(Frames)
  BY <1>4, <1>6
<1>8. /\ Appended(replay[t], entry) \in Seq(Frames)
      /\ \A i \in 1 .. Len(Appended(replay[t], entry)) :
           \/ Appended(replay[t], entry)[i] = entry
           \/ \E j \in 1 .. Len(replay[t]) : Appended(replay[t], entry)[i] = replay[t][j]
  BY <1>5, <1>7, AppendedParts
<1>9. /\ replay' \in [Sessions -> Seq(Frames)] /\ appended' \in [Sessions -> SUBSET Events]
      /\ \A s \in Sessions : s # t => replay'[s] = replay[s]
      /\ replay'[t] = replay[t] \/ replay'[t] = Appended(replay[t], entry)
  <2>1. PICK longer : longer = Appended(replay[t], entry)
    OBVIOUS
  <2>2. longer \in Seq(Frames)
    BY <1>8, <2>1
  <2>3. CASE replay' = [replay EXCEPT ![t] = Appended(@, entry)] /\
             appended' = [appended EXCEPT ![t] = @ \cup {dispatch.event}]
    <3>1. replay' = [replay EXCEPT ![t] = longer]
      BY <2>1, <2>3
    <3>2. appended' \in [Sessions -> SUBSET Events]
      BY <1>4, <1>6, <2>3
    <3> QED BY <1>4, <1>6, <2>1, <2>2, <3>1, <3>2
  <2>4. CASE UNCHANGED <<replay, appended>>
    BY <1>6, <2>4
  <2> QED BY <1>3, <2>3, <2>4
<1>10. \A s \in Sessions : \A i \in 1 .. Len(replay[s]) : MeantFor(s, replay[s][i].event)
  BY DEF SessionInv, ValkeySound
<1>11. ASSUME NEW s \in Sessions, NEW i \in 1 .. Len(replay'[s])
       PROVE  /\ MeantFor(s, replay'[s][i].event)
              /\ \/ \E j \in 1 .. Len(replay[s]) : replay'[s][i] = replay[s][j]
                 \/ \E d \in Clients : /\ client[d].identified /\ client[d].session = s
                                       /\ replay'[s][i].seq <= client[d].seq
  <2>1. CASE replay'[s] = replay[s]
    BY <1>10, <2>1
  <2>2. CASE s = t /\ replay'[s] = Appended(replay[t], entry)
    <3>1. CASE replay'[s][i] = entry
      BY <1>1, <1>4, <1>5, <2>2, <3>1
    <3>2. CASE \E j \in 1 .. Len(replay[t]) : replay'[s][i] = replay[t][j]
      BY <1>10, <2>2, <3>2
    <3>3. replay'[s][i] = entry \/ \E j \in 1 .. Len(replay[t]) : replay'[s][i] = replay[t][j]
      BY <1>8, <2>2
    <3> QED BY <3>1, <3>2, <3>3
  <2> QED BY <1>9, <2>1, <2>2
<1>12. dispatch \in [event : Events, todo : SUBSET Clients, target : Clients \cup {None},
                     seq : Int]
  BY <1>3 DEF SessionInv, TypeOK
<1>13. dispatch' # None =>
         /\ dispatch'.event = dispatch.event /\ dispatch'.todo = dispatch.todo
         /\ dispatch'.target = None /\ dispatch'.seq = 0
         /\ dispatch' \in [event : Events, todo : SUBSET Clients, target : Clients \cup {None},
                           seq : Int]
  <2>1. dispatch' # None => dispatch' = [dispatch EXCEPT !.target = None, !.seq = 0]
    BY <1>3
  <2>2. dispatch' # None =>
          /\ dispatch'.event = dispatch.event /\ dispatch'.todo = dispatch.todo
          /\ dispatch'.target = None /\ dispatch'.seq = 0
    BY <1>12, <2>1
  <2>3. dispatch' # None =>
          dispatch' \in [event : Events, todo : SUBSET Clients, target : Clients \cup {None},
                         seq : Int]
    <3>1. PICK next : next = [dispatch EXCEPT !.target = None, !.seq = 0]
      OBVIOUS
    <3>2. None \in Clients \cup {None} /\ 0 \in Int
      OBVIOUS
    <3>3. next \in [event : Events, todo : SUBSET Clients, target : Clients \cup {None},
                   seq : Int]
      BY <1>12, <3>1, <3>2
    <3> QED BY <2>1, <3>1, <3>3
  <2> QED BY <2>2, <2>3
<1>14. OthersTyped'
  BY <1>3, <1>9, <1>13 DEF SessionInv, TypeOK, OthersTyped
<1>15. DispatchSound'
  <2>1. None \notin Clients
    BY HubAssumption
  <2>2. /\ dispatch.event \in 1 .. published
        /\ \A d \in Clients : d \in dispatch.todo =>
             client[d].identified /\ client[d].user \in audience[dispatch.event]
    BY <1>3 DEF SessionInv, DispatchSound
  <2> QED BY <1>3, <1>13, <2>1, <2>2 DEF DispatchSound
<1>16. \A s \in Sessions : \A e \in got'[s] : Sendable(s, e)
  BY <1>3 DEF SessionInv, ReceivedSound
<1>17. \A d \in Clients : Follows(client[d], client[d])
  BY SameClients DEF Alike
<1>18. \A d \in Clients :
         dispatch' # None /\ d \in dispatch'.todo => dispatch # None /\ d \in dispatch.todo
  BY <1>3, <1>13
<1>19. PICK new : new = client
  OBVIOUS
<1>20. \A s \in Sessions : saved'[s] = saved[s]
  BY <1>3
<1> QED BY <1>3, <1>11, <1>14, <1>15, <1>16, <1>17, <1>18, <1>19, <1>20, SameClients, StepKeeps

\* An event arrives; its targets are the registered clients of its audience.
LEMMA DispatchBeginKeeps ==
  ASSUME SessionInv, NEW users \in SUBSET Users, DispatchBegin(users)
  PROVE  SessionInv'
<1>1. PICK goal : goal = Targets(users)
  OBVIOUS
<1>2. PICK next : next = [NewDispatch EXCEPT !.event = published + 1, !.todo = goal]
  OBVIOUS
<1>3. /\ published < MaxEvents /\ published' = published + 1
      /\ audience' = [audience EXCEPT ![published + 1] = users]
      /\ dispatch' = None \/ dispatch' = next
      /\ UNCHANGED <<client, registered, saved, replay, owner, appended, got, seen, resumes,
                     budget>>
  BY <1>1, <1>2 DEF DispatchBegin, valkey, history
<1>4. TypeOK /\ published \in 0 .. MaxEvents /\ audience \in [Events -> SUBSET Users]
  BY DEF SessionInv, TypeOK
<1>5. /\ published + 1 \in Events /\ published' \in 0 .. MaxEvents
      /\ audience' \in [Events -> SUBSET Users] /\ audience'[published + 1] = users
      /\ \A e \in 1 .. published : e \in 1 .. published' /\ audience'[e] = audience[e]
  <2>1. published + 1 \in Events /\ published' \in 0 .. MaxEvents
    BY <1>3, <1>4, GatewayAssumption DEF Events
  <2>2. \A e \in 1 .. published : e \in Events /\ e # published + 1 /\ e \in 1 .. published'
    BY <1>3, <1>4, GatewayAssumption DEF Events
  <2> QED BY <1>3, <1>4, <2>1, <2>2
<1>6. goal \subseteq registered /\ goal \subseteq Clients
      /\ \A c \in goal : client[c].identified /\ client[c].user \in users
  BY <1>1, <1>4 DEF Targets, TypeOK
<1>7. /\ next.event = published + 1 /\ next.todo = goal /\ next.target = None /\ next.seq = 0
      /\ next \in [event : Events, todo : SUBSET Clients, target : Clients \cup {None}, seq : Int]
  <2>1. goal \in SUBSET Clients /\ None \in Clients \cup {None} /\ 0 \in Int
    BY <1>6
  <2>2. next = [event |-> published + 1, todo |-> goal, target |-> None, seq |-> 0]
    BY <1>2 DEF NewDispatch
  <2> QED BY <1>5, <2>1, <2>2
<1>8. TypeOK'
  BY <1>3, <1>4, <1>5, <1>7 DEF TypeOK
<1>9. \A s, e : /\ MeantFor(s, e) => MeantFor(s, e)'
                /\ Sendable(s, e) => Sendable(s, e)'
  <2>1. \A s, e : MeantFor(s, e) => MeantFor(s, e)'
    BY <1>3, <1>5 DEF MeantFor
  <2> QED BY <2>1 DEF Sendable
<1>10. ClientsSound'
  <2> SUFFICES ASSUME NEW c \in Clients PROVE ClientBound(client[c])' /\ ClientCounted(client[c])'
    BY DEF ClientsSound
  <2>1. ClientBound(client[c]) /\ ClientCounted(client[c])
    BY DEF SessionInv, ClientsSound
  <2>2. ClientBound(client[c])'
    BY <1>3, <1>9, <2>1 DEF ClientBound
  <2>3. ClientCounted(client[c])'
    BY <1>3, <2>1 DEF ClientCounted, Top
  <2> QED BY <2>2, <2>3
<1>11. RegistrySound'
  BY <1>3 DEF SessionInv, RegistrySound
<1>12. DispatchSound'
  <2>1. None \notin Clients
    BY HubAssumption
  <2>2. published + 1 \in 1 .. published'
    BY <1>3, <1>4
  <2> QED BY <1>3, <1>5, <1>6, <1>7, <2>1, <2>2 DEF DispatchSound
<1>13. ValkeySound'
  BY <1>3, <1>9 DEF SessionInv, ValkeySound
<1>14. ReceivedSound'
  BY <1>3, <1>9 DEF SessionInv, ReceivedSound
<1>15. SessionsCounted'
  <2> SUFFICES ASSUME NEW s \in Sessions, resumes[s] = 0 PROVE SessionCounted(s)'
    BY <1>3 DEF SessionsCounted
  <2>1. SessionCounted(s)
    BY DEF SessionInv, SessionsCounted
  <2>2. \A c \in Clients : client[c].reader = "exited" =>
          ~(dispatch' # None /\ c \in dispatch'.todo)
    BY <1>3, <1>6, <1>7 DEF SessionInv, RegistrySound, Leaving
  <2>3. \A n : CounterSaved(s, n) => CounterSaved(s, n)'
    BY <1>3, <2>2 DEF CounterSaved
  <2> QED BY <1>3, <2>1, <2>3 DEF SessionCounted
<1> QED BY <1>8, <1>10, <1>11, <1>12, <1>13, <1>14, <1>15 DEF SessionInv

\* A connection that was never opened.
LEMMA NewClientParts ==
  /\ NewClient \in ClientRecord /\ NewClient.conn = "new" /\ NewClient.identified = FALSE
  /\ NewClient.reader = "new" /\ NewClient.send = <<>> /\ NewClient.missed = <<>>
  /\ NewClient.heard = 0
<1>1. <<>> \in Seq(Frames) /\ None \in Users \cup {None} /\ None \in Sessions \cup {None}
  OBVIOUS
<1>2. NewClient \in ClientRecord
  BY <1>1 DEF NewClient, ClientRecord
<1> QED BY <1>2 DEF NewClient

\* A connection after its process is gone.
LEMMA GoneClient ==
  ASSUME NEW r, r = [NewClient EXCEPT !.conn = "closed", !.reader = "exited",
                                      !.writer = "exited", !.done = TRUE]
  PROVE  /\ r \in ClientRecord /\ ClientSound(r)
         /\ r.identified = FALSE /\ r.reader = "exited"
<1>1. /\ NewClient \in ClientRecord /\ NewClient.identified = FALSE
      /\ NewClient.send = <<>> /\ NewClient.missed = <<>> /\ NewClient.heard = 0
  BY NewClientParts
<1>2. r \in ClientRecord
  BY <1>1 DEF ClientRecord
<1>3. /\ r.conn = "closed" /\ r.identified = FALSE /\ r.reader = "exited" /\ r.send = <<>>
      /\ r.missed = <<>> /\ r.heard = 0
  BY <1>1 DEF ClientRecord
<1> QED BY <1>2, <1>3 DEF ClientSound, ClientBound, ClientCounted, Identified, Registering,
                          Replaying

\* The process is gone; Valkey and what the peers know stays.
LEMMA CrashKeeps ==
  ASSUME SessionInv, Crash
  PROVE  SessionInv'
<1>1. /\ budget.crashes > 0 /\ budget' = [budget EXCEPT !.crashes = @ - 1]
      /\ registered' = {} /\ dispatch' = None
      /\ UNCHANGED <<saved, replay, published, audience, owner, appended, got, seen, resumes>>
  BY DEF Crash, valkey, events, history
<1>2. PICK gone : gone = [NewClient EXCEPT !.conn = "closed", !.reader = "exited",
                                           !.writer = "exited", !.done = TRUE]
  OBVIOUS
<1>3. PICK new : new = client'
  OBVIOUS
<1>4. new = [c \in Clients |-> IF client[c].conn = "new" THEN client[c] ELSE gone]
  BY <1>2, <1>3 DEF Crash
<1>5. /\ gone \in ClientRecord /\ ClientSound(gone)
      /\ gone.identified = FALSE /\ gone.reader = "exited"
  BY <1>2, GoneClient
<1>6. ASSUME NEW c \in Clients
      PROVE  /\ new[c] \in ClientRecord /\ ClientSound(new[c])
             /\ new[c].identified = FALSE /\ new[c].reader # "loaded"
  <2>1. CASE client[c].conn = "new"
    <3>1. new[c] = client[c]
      BY <1>4, <2>1
    <3>2. client[c] = NewClient
      BY <2>1, OfClient DEF ClientSound, ClientBound
    <3>3. NewClient.identified = FALSE /\ NewClient.reader = "new"
      BY DEF NewClient
    <3> QED BY <3>1, <3>2, <3>3, OfClient
  <2>2. CASE client[c].conn # "new"
    BY <1>4, <1>5, <2>2
  <2> QED BY <2>1, <2>2
<1>7. new \in [Clients -> ClientRecord]
  <2>1. new = [c \in Clients |-> new[c]]
    BY <1>4
  <2> QED BY <1>6, <2>1
<1>8. budget' \in [unsequenced : 0 .. MaxUnsequenced, crashes : 0 .. MaxCrashes]
  <2>1. budget \in [unsequenced : 0 .. MaxUnsequenced, crashes : 0 .. MaxCrashes]
    BY DEF SessionInv, TypeOK
  <2> QED BY <1>1, <2>1, GatewayAssumption
<1>9. TypeOK'
  BY <1>1, <1>3, <1>7, <1>8 DEF SessionInv, TypeOK
<1>10. ClientsSound'
  <2> SUFFICES ASSUME NEW c \in Clients PROVE ClientSound(client[c])'
    BY DEF ClientsSound, ClientSound
  <2>1. PICK r : r = new[c]
    OBVIOUS
  <2>2. ClientSound(r)'
    BY <1>1, <1>6, <2>1, SameHistory
  <2>3. r = client'[c]
    BY <1>3, <2>1
  <2> QED BY <2>2, <2>3
          DEF ClientSound, ClientBound, ClientCounted, Top, MeantFor, Sendable
<1>11. RegistrySound' /\ DispatchSound'
  BY <1>1 DEF RegistrySound, DispatchSound
<1>12. ValkeySound' /\ ReceivedSound'
  BY <1>1 DEF SessionInv, ValkeySound, ReceivedSound, Sendable, MeantFor
<1>13. SessionsCounted'
  <2> SUFFICES ASSUME NEW s \in Sessions, resumes[s] = 0 PROVE SessionCounted(s)'
    BY <1>1 DEF SessionsCounted
  <2>1. SessionCounted(s)
    BY DEF SessionInv, SessionsCounted
  <2>2. \A n : CounterSaved(s, n) => CounterSaved(s, n)'
    BY <1>1, <1>3, <1>6 DEF CounterSaved
  <2> QED BY <1>1, <1>3, <1>6, <2>1, <2>2 DEF SessionCounted
<1> QED BY <1>9, <1>10, <1>11, <1>12, <1>13 DEF SessionInv


-----------------------------------------------------------------------------
(* A session begins, and a session is resumed *)

\* A nonempty set of naturals has a smallest element.
LEMMA SmallestNat ==
  ASSUME NEW T \in SUBSET Nat, T # {}
  PROVE  \E n \in T : \A m \in T : n <= m
<1>1. IsWellFoundedOn(OpToRel(<, Nat), Nat)
  BY NatLessThanWellFounded, Zenon
<1>2. PICK R : R = OpToRel(<, Nat)
  BY Zenon
<1>3. IsWellFoundedOn(R, Nat)
  BY <1>1, <1>2, Zenon
<1>4. R = {ss \in Nat \X Nat : ss[1] < ss[2]}
  BY <1>2, Zenon DEF OpToRel
<1>5. PICK n \in T : \A m \in T : ~(<<m, n>> \in R)
  BY <1>3, WFMin
<1>6. n \in Nat /\ \A m \in T : m \in Nat
  OBVIOUS
<1>7. \A m \in Nat : <<m, n>> \in R \/ n <= m
  BY <1>4, <1>6
<1>8. \A m \in T : n <= m
  BY <1>5, <1>6, <1>7, Zenon
<1> QED BY <1>8, Zenon

\* The nth smallest of a set of positions exists.
LEMMA NthElement ==
  ASSUME NEW L \in Nat, NEW kept, \A j \in kept : j \in 1 .. L,
         NEW n \in Nat, n >= 1, n <= Cardinality(kept)
  PROVE  \E i \in kept : Cardinality({j \in kept : j <= i}) = n
<1> DEFINE upto(i) == {j \in kept : j <= i}
           T == {i \in Nat : Cardinality(upto(i)) >= n}
<1>0. IsFiniteSet(kept)
  <2>1. IsFiniteSet(1 .. L)
    BY FS_Interval
  <2>2. kept \subseteq 1 .. L
    BY Zenon
  <2> QED BY <2>1, <2>2, FS_Subset, Zenon
<1>1. \A i \in Nat : IsFiniteSet(upto(i)) /\ Cardinality(upto(i)) \in Nat
  <2> SUFFICES ASSUME NEW i \in Nat
               PROVE  IsFiniteSet(upto(i)) /\ Cardinality(upto(i)) \in Nat
    BY Zenon
  <2>1. upto(i) \subseteq kept
    BY Zenon
  <2>2. IsFiniteSet(upto(i))
    BY <1>0, <2>1, FS_Subset, Zenon
  <2> QED BY <2>2, FS_CardinalityType, Zenon
<1>2. upto(L) = kept
  OBVIOUS
<1>3. L \in T
  BY <1>2
<1>4. PICK i \in T : \A m \in T : i <= m
  <2>1. T \in SUBSET Nat
    BY Zenon
  <2> HIDE DEF T
  <2> QED BY <1>3, <2>1, SmallestNat, Zenon
<1>t. i \in Nat /\ Cardinality(upto(i)) >= n
  BY <1>4
<1>5. i # 0
  <2>1. upto(0) = {}
    OBVIOUS
  <2> QED BY <2>1, <1>t, FS_EmptySet
<1>6. i - 1 \in Nat /\ ~(Cardinality(upto(i - 1)) >= n)
  BY <1>4, <1>5, <1>t
<1>7. CASE i \notin kept
  <2>1. upto(i) = upto(i - 1)
    BY <1>7, <1>t
  <2> QED BY <1>6, <1>t, <2>1
<1>8. CASE i \in kept
  <2>1. upto(i) = upto(i - 1) \cup {i} /\ i \notin upto(i - 1)
    <3>1. \A j \in kept : j <= i <=> j <= i - 1 \/ j = i
      BY <1>t
    <3>2. ~(i <= i - 1)
      BY <1>t
    <3> QED BY <1>8, <3>1, <3>2, Zenon
  <2> HIDE DEF upto
  <2>2. Cardinality(upto(i)) = Cardinality(upto(i - 1)) + 1
    BY <1>1, <1>6, <2>1, FS_AddElement
  <2>3. Cardinality(upto(i)) = n
    BY <1>1, <1>t, <1>6, <2>2
  <2> QED BY <1>8, <2>3 DEF upto
<1> QED BY <1>7, <1>8

\* What is replayed are entries of the buffer.
LEMMA ReplayParts ==
  ASSUME NEW s \in Sessions, replay[s] \in Seq(Frames), NEW after
  PROVE  /\ ReplayAfter(s, after) \in Seq(Frames)
         /\ \A n \in 1 .. Len(ReplayAfter(s, after)) :
              \E i \in 1 .. Len(replay[s]) : ReplayAfter(s, after)[n] = replay[s][i]
<1> DEFINE later == {i \in DOMAIN replay[s] : replay[s][i].seq > after}
           nth(n) == CHOOSE i \in later : Cardinality({j \in later : j <= i}) = n
<1>1. /\ Len(replay[s]) \in Nat /\ DOMAIN replay[s] = 1 .. Len(replay[s])
      /\ \A i \in 1 .. Len(replay[s]) : replay[s][i] \in Frames
  OBVIOUS
<1>2. \A j \in later : j \in 1 .. Len(replay[s])
  BY <1>1
<1>3. Cardinality(later) \in Nat
  <2>1. later \subseteq 1 .. Len(replay[s])
    BY <1>2
  <2>2. IsFiniteSet(1 .. Len(replay[s]))
    <3>1. 1 \in Int /\ Len(replay[s]) \in Int
      BY <1>1
    <3> QED BY <3>1, FS_Interval, Zenon
  <2> HIDE DEF later
  <2> QED BY <2>1, <2>2, FS_Subset, FS_CardinalityType
<1>4. \A n \in 1 .. Cardinality(later) : nth(n) \in later
  <2> SUFFICES ASSUME NEW n \in 1 .. Cardinality(later) PROVE nth(n) \in later
    OBVIOUS
  <2>1. n \in Nat /\ n >= 1 /\ n <= Cardinality(later)
    BY <1>3
  <2> HIDE DEF later
  <2>2. \E i \in later : Cardinality({j \in later : j <= i}) = n
    BY <1>1, <1>2, <2>1, NthElement
  <2> QED BY <2>2
<1>5. ReplayAfter(s, after) = [n \in 1 .. Cardinality(later) |-> replay[s][nth(n)]]
  BY DEF ReplayAfter
<1> HIDE DEF later, nth
<1>6. \A n \in 1 .. Cardinality(later) : replay[s][nth(n)] \in Frames
  BY <1>1, <1>2, <1>4
<1>7. ReplayAfter(s, after) \in Seq(Frames) /\ Len(ReplayAfter(s, after)) = Cardinality(later)
  BY <1>3, <1>5, <1>6
<1>8. \A n \in 1 .. Cardinality(later) : ReplayAfter(s, after)[n] = replay[s][nth(n)]
  BY <1>5
<1> QED BY <1>2, <1>4, <1>7, <1>8

\* Nothing exists of a session nobody owns.
LEMMA FreshSession ==
  ASSUME SessionInv, NEW s \in Sessions, owner[s] = None
  PROVE  /\ saved[s] = None
         /\ Len(replay[s]) = 0
         /\ \A d \in Clients : client[d].identified \/ client[d].reader = "loaded" =>
              client[d].session # s
         /\ \A e : ~MeantFor(s, e)
<1>1. None \notin Users
  BY HubAssumption
<1>2. saved[s] = None
  BY <1>1 DEF SessionInv, TypeOK, ValkeySound
<1>3. \A d \in Clients : client[d].identified \/ client[d].reader = "loaded" =>
        client[d].session # s
  BY <1>1 DEF SessionInv, ClientsSound, ClientBound
<1>4. \A e : ~MeantFor(s, e)
  <2> SUFFICES ASSUME NEW e, MeantFor(s, e) PROVE FALSE
    OBVIOUS
  <2>1. e \in 1 .. published /\ None \in audience[e]
    BY DEF MeantFor
  <2>2. published \in 0 .. MaxEvents /\ audience \in [Events -> SUBSET Users]
    BY DEF SessionInv, TypeOK
  <2>3. e \in Events
    BY <2>1, <2>2, GatewayAssumption DEF Events
  <2> QED BY <1>1, <2>1, <2>2, <2>3
<1>5. Len(replay[s]) = 0
  <2>1. \A i \in 1 .. Len(replay[s]) : FALSE
    BY <1>4 DEF SessionInv, ValkeySound
  <2>2. replay[s] \in Seq(Frames)
    BY DEF SessionInv, TypeOK
  <2>3. Len(replay[s]) \in Nat
    BY <2>2
  <2> QED BY <2>1, <2>3
<1> QED BY <1>2, <1>3, <1>4, <1>5

\* handleIdentify gives the client a session of its own.
LEMMA IdentifyKeeps ==
  ASSUME SessionInv, NEW c \in Clients, NEW u \in Users, NEW s \in Sessions, Identify(c, u, s)
  PROVE  SessionInv'
<1>1. PICK r : r = [client[c] EXCEPT !.user = u, !.session = s, !.identified = TRUE,
                                     !.reader = "register_new"]
  OBVIOUS
<1>2. /\ client[c].reader = "reading" /\ client[c].conn = "open" /\ ~client[c].identified
      /\ owner[s] = None /\ client' = [client EXCEPT ![c] = r]
      /\ owner' = [owner EXCEPT ![s] = u]
      /\ UNCHANGED <<registered, saved, replay, dispatch, published, audience, appended, got,
                     seen, resumes, budget>>
  BY <1>1 DEF Identify, At, valkey, events
<1>3. /\ client[c] \in ClientRecord /\ ClientBound(client[c]) /\ ClientCounted(client[c])
      /\ c \notin registered
  BY <1>2, OfClient DEF ClientSound
<1>4. /\ r \in ClientRecord /\ r.conn = "open" /\ r.user = u /\ r.session = s
      /\ r.identified = TRUE /\ r.reader = "register_new" /\ r.send = client[c].send
      /\ r.missed = client[c].missed /\ r.heard = client[c].heard
  BY <1>1, <1>2, <1>3 DEF ClientRecord
<1>5. /\ client'[c] = r
      /\ \A d \in Clients : d # c => client'[d] = client[d]
      /\ client' \in [Clients -> ClientRecord]
  BY <1>2, <1>4, SameClients
<1>6. /\ owner' \in [Sessions -> Users \cup {None}] /\ owner'[s] = u
      /\ \A t : t # s => owner'[t] = owner[t]
  <2>1. owner \in [Sessions -> Users \cup {None}]
    BY DEF SessionInv, TypeOK
  <2> QED BY <1>2, <2>1
<1>7. TypeOK'
  BY <1>2, <1>5, <1>6 DEF SessionInv, TypeOK
<1>8. \A t, e : t # s => /\ MeantFor(t, e) => MeantFor(t, e)'
                         /\ Sendable(t, e) => Sendable(t, e)'
  BY <1>2, <1>6 DEF MeantFor, Sendable
<1>9. ClientsSound'
  <2> SUFFICES ASSUME NEW d \in Clients PROVE ClientBound(client[d])' /\ ClientCounted(client[d])'
    BY DEF ClientsSound
  <2>1. CASE d # c
    <3>1. ClientBound(client[d]) /\ ClientCounted(client[d])
      BY DEF SessionInv, ClientsSound
    <3>2. client[d].identified \/ client[d].reader = "loaded" => client[d].session # s
      BY <1>2, FreshSession
    <3>3. ClientBound(client[d])'
      BY <1>5, <1>6, <1>8, <2>1, <3>1, <3>2 DEF ClientBound
    <3>4. ClientCounted(client[d])'
      BY <1>2, <1>5, <2>1, <3>1 DEF ClientCounted, Top
    <3> QED BY <3>3, <3>4
  <2>2. ClientBound(r)' /\ ClientCounted(r)'
    <3>1. /\ \A i \in 1 .. Len(r.send) : r.send[i].seq = 0
          /\ \A i \in 1 .. Len(r.missed) : FALSE
          /\ r.heard = 0 /\ r.seq \in Nat
      <4>1. \A i \in 1 .. Len(client[c].send) : client[c].send[i].seq = 0
        BY <1>2, <1>3 DEF ClientCounted
      <4>2. \A i \in 1 .. Len(client[c].missed) : FALSE
        BY <1>2, <1>3 DEF ClientBound
      <4>3. client[c].heard = 0
        BY <1>2, <1>3 DEF ClientCounted
      <4>4. r.seq \in Nat
        BY <1>4 DEF ClientRecord
      <4> QED BY <1>4, <4>1, <4>2, <4>3, <4>4
    <3>2. Top(r) \in Nat
      BY <3>1 DEF Top
    <3>3. ClientBound(r)'
      BY <1>4, <1>6, <3>1 DEF ClientBound
    <3>4. 0 <= Top(r)
      BY <3>2
    <3>5. ClientCounted(r)'
      BY <1>4, <3>1, <3>4 DEF ClientCounted
    <3> QED BY <3>3, <3>5
  <2>3. CASE d = c
    BY <1>5, <2>2, <2>3 DEF ClientBound, ClientCounted, Top, MeantFor, Sendable
  <2> QED BY <2>1, <2>3
<1>10. RegistrySound'
  <2>1. registered \subseteq Clients
    BY DEF SessionInv, TypeOK
  <2> QED BY <1>2, <1>3, <1>5, <2>1 DEF SessionInv, RegistrySound
<1>11. DispatchSound'
  BY <1>2, <1>5 DEF SessionInv, DispatchSound
<1>12. ValkeySound'
  <2> SUFFICES ASSUME NEW t \in Sessions
               PROVE  /\ saved'[t] # None => owner'[t] = saved'[t].user
                      /\ \A i \in 1 .. Len(replay'[t]) : MeantFor(t, replay[t][i].event)'
    BY DEF ValkeySound
  <2>1. CASE t = s
    BY <1>2, <2>1, FreshSession
  <2>2. CASE t # s
    BY <1>2, <1>6, <1>8, <2>2 DEF SessionInv, ValkeySound
  <2> QED BY <2>1, <2>2
<1>13. ReceivedSound'
  <2> SUFFICES ASSUME NEW t \in Sessions, NEW e \in got[t] PROVE Sendable(t, e)'
    BY <1>2 DEF ReceivedSound
  <2>1. Sendable(t, e)
    BY DEF SessionInv, ReceivedSound
  <2>2. CASE t = s
    BY <1>2, <2>1, <2>2, FreshSession DEF Sendable
  <2>3. CASE t # s
    BY <1>8, <2>1, <2>3
  <2> QED BY <2>2, <2>3
<1>14. SessionsCounted'
  <2> SUFFICES ASSUME NEW t \in Sessions, resumes[t] = 0 PROVE SessionCounted(t)'
    BY <1>2 DEF SessionsCounted
  <2>1. CASE t # s
    <3>1. SessionCounted(t)
      BY DEF SessionInv, SessionsCounted
    <3>2. \A d \in Clients :
            /\ client'[d].identified /\ client'[d].session = t =>
                 client[d].identified /\ client[d].session = t /\ client'[d] = client[d]
            /\ client'[d].reader = "loaded" /\ client'[d].session = t =>
                 client'[d] = client[d]
      BY <1>4, <1>5, <2>1
    <3>3. \A n : CounterSaved(t, n) => CounterSaved(t, n)'
      BY <1>2, <3>2 DEF CounterSaved
    <3>4. \A d \in Clients : client'[d].reader = "loaded" /\ client'[d].session = t =>
            CounterSaved(t, client[d].loaded)'
      <4> SUFFICES ASSUME NEW d \in Clients, client'[d].reader = "loaded", client'[d].session = t
                   PROVE  CounterSaved(t, client[d].loaded)'
        OBVIOUS
      <4>1. PICK n : n = client[d].loaded
        OBVIOUS
      <4>2. CounterSaved(t, n)' /\ client'[d].loaded = n
        BY <3>1, <3>2, <3>3, <4>1 DEF SessionCounted
      <4> QED BY <4>2 DEF CounterSaved
    <3>5. saved'[t] # None => CounterSaved(t, saved[t].lastSeq)'
      BY <1>2, <3>1, <3>3 DEF SessionCounted
    <3> QED BY <1>2, <3>1, <3>2, <3>4, <3>5 DEF SessionCounted
  <2>2. CASE t = s
    <3>1. /\ saved'[s] = None /\ Len(replay'[s]) = 0
          /\ \A d \in Clients : d # c =>
               ~(client'[d].session = s /\ (client'[d].identified \/ client'[d].reader = "loaded"))
      BY <1>2, <1>5, FreshSession
    <3>2. client'[c].reader # "loaded"
      BY <1>4, <1>5
    <3>3. \A i \in 1 .. Len(replay'[s]) : FALSE
      BY <3>1
    <3>4. \A d \in Clients : client'[d].identified /\ client'[d].session = s => d = c
      BY <3>1
    <3>5. \A d \in Clients : client'[d].reader = "loaded" => client'[d].session # s
      BY <3>1, <3>2
    <3> QED BY <2>2, <3>1, <3>3, <3>4, <3>5 DEF SessionCounted
  <2> QED BY <2>1, <2>2
<1> QED BY <1>7, <1>9, <1>10, <1>11, <1>12, <1>13, <1>14 DEF SessionInv

\* handleResume reads the buffer.  The session's buffer has now been read once
\* more, so its counter is only bounded if this was the first time.
LEMMA ResumeReplayKeeps ==
  ASSUME SessionInv, NEW c \in Clients, ResumeReplay(c)
  PROVE  SessionInv'
<1>1. PICK s : s = client[c].session
  OBVIOUS
<1>2. PICK q : q = ReplayAfter(s, seen[s])
  OBVIOUS
<1>3. PICK n : n = client[c].loaded
  OBVIOUS
<1>4. PICK r : r = [client[c] EXCEPT !.missed = q, !.seq = n, !.identified = TRUE,
                                     !.reader = "register_resumed"]
  OBVIOUS
<1>5. /\ client[c].reader = "loaded" /\ client' = [client EXCEPT ![c] = r]
      /\ resumes' = [resumes EXCEPT ![s] = @ + 1]
      /\ UNCHANGED <<registered, saved, replay, dispatch, published, audience, owner, appended,
                     got, seen, budget>>
  BY <1>1, <1>2, <1>3, <1>4 DEF ResumeReplay, At, valkey, events
<1>6. /\ client[c] \in ClientRecord /\ ClientBound(client[c]) /\ ClientCounted(client[c])
      /\ c \notin registered /\ ~client[c].identified /\ client[c].conn # "new"
  BY <1>5, OfClient DEF ClientSound, ClientBound
<1>7. s \in Sessions /\ client[c].user \in Users /\ owner[s] = client[c].user /\ n \in Nat
  BY <1>1, <1>3, <1>5, <1>6 DEF ClientBound, ClientRecord
<1>8. replay[s] \in Seq(Frames)
  BY <1>7 DEF SessionInv, TypeOK
<1>9. /\ q \in Seq(Frames)
      /\ \A i \in 1 .. Len(q) : \E j \in 1 .. Len(replay[s]) : q[i] = replay[s][j]
  BY <1>2, <1>7, <1>8, ReplayParts
<1>10. /\ r \in ClientRecord /\ r.conn # "new" /\ r.user = client[c].user /\ r.session = s
       /\ r.identified = TRUE /\ r.reader = "register_resumed" /\ r.send = client[c].send
       /\ r.missed = q /\ r.heard = client[c].heard /\ r.seq = n
  BY <1>1, <1>4, <1>6, <1>7, <1>9 DEF ClientRecord
<1>11. /\ client'[c] = r
       /\ \A d \in Clients : d # c => client'[d] = client[d]
       /\ client' \in [Clients -> ClientRecord]
  BY <1>5, <1>10, SameClients
<1>12. /\ resumes' \in [Sessions -> Nat] /\ resumes'[s] = resumes[s] + 1
       /\ resumes \in [Sessions -> Nat] /\ resumes[s] \in Nat
       /\ \A t : t # s => resumes'[t] = resumes[t]
  <2>1. resumes \in [Sessions -> Nat]
    BY DEF SessionInv, TypeOK
  <2> QED BY <1>5, <1>7, <2>1
<1>13. TypeOK'
  BY <1>5, <1>11, <1>12 DEF SessionInv, TypeOK
<1>14. \A t, e : /\ MeantFor(t, e)' <=> MeantFor(t, e)
                 /\ Sendable(t, e)' <=> Sendable(t, e)
  BY <1>5 DEF MeantFor, Sendable
<1>15. ClientsSound'
  <2> SUFFICES ASSUME NEW d \in Clients PROVE ClientBound(client[d])' /\ ClientCounted(client[d])'
    BY DEF ClientsSound
  <2>1. CASE d # c
    <3>1. ClientBound(client[d]) /\ ClientCounted(client[d])
      BY DEF SessionInv, ClientsSound
    <3>2. ClientBound(client[d])'
      BY <1>5, <1>11, <1>14, <2>1, <3>1 DEF ClientBound
    <3>3. client[d].identified /\ resumes'[client[d].session] <= 1 =>
            resumes[client[d].session] <= 1
      BY <1>12
    <3>4. ClientCounted(client[d])'
      BY <1>11, <2>1, <3>1, <3>3 DEF ClientCounted, Top
    <3> QED BY <3>2, <3>4
  <2>2. ClientBound(r)'
    <3>1. \A i \in 1 .. Len(r.send) : r.send[i].seq = 0
      BY <1>6, <1>10 DEF ClientCounted
    <3>2. \A i \in 1 .. Len(r.missed) : MeantFor(r.session, r.missed[i].event)
      BY <1>7, <1>9, <1>10 DEF SessionInv, ValkeySound
    <3> QED BY <1>5, <1>7, <1>10, <1>14, <3>1, <3>2 DEF ClientBound
  <2>3. ClientCounted(r)'
    <3>1. r.heard = 0 /\ \A i \in 1 .. Len(r.send) : r.send[i].seq = 0
      BY <1>6, <1>10 DEF ClientCounted
    <3>2. Top(r) = n /\ 0 <= n
      BY <1>7, <1>10 DEF Top, Replaying
    <3>3. resumes'[s] <= 1 => \A i \in 1 .. Len(r.missed) : r.missed[i].seq <= r.seq + 1
      <4> SUFFICES ASSUME resumes'[s] <= 1
                   PROVE  \A i \in 1 .. Len(r.missed) : r.missed[i].seq <= r.seq + 1
        OBVIOUS
      <4>1. resumes[s] = 0
        BY <1>12
      <4>2. CounterSaved(s, n)
        BY <1>1, <1>3, <1>5, <1>7, <4>1 DEF SessionInv, SessionsCounted, SessionCounted
      <4>3. \A j \in 1 .. Len(replay[s]) : replay[s][j].seq <= n + 1
        BY <4>2 DEF CounterSaved
      <4> QED BY <1>9, <1>10, <4>3
    <3> QED BY <1>10, <3>1, <3>2, <3>3 DEF ClientCounted
  <2>4. CASE d = c
    BY <1>11, <2>2, <2>3, <2>4 DEF ClientBound, ClientCounted, Top, MeantFor, Sendable
  <2> QED BY <2>1, <2>4
<1>16. RegistrySound'
  <2>1. registered \subseteq Clients
    BY DEF SessionInv, TypeOK
  <2> QED BY <1>5, <1>6, <1>11, <2>1 DEF SessionInv, RegistrySound
<1>17. DispatchSound'
  BY <1>5, <1>6, <1>11 DEF SessionInv, DispatchSound
<1>18. ValkeySound' /\ ReceivedSound'
  BY <1>5, <1>14 DEF SessionInv, ValkeySound, ReceivedSound
<1>19. SessionsCounted'
  <2> SUFFICES ASSUME NEW t \in Sessions, resumes'[t] = 0 PROVE SessionCounted(t)'
    BY DEF SessionsCounted
  <2>1. t # s /\ resumes[t] = 0
    BY <1>12
  <2>2. SessionCounted(t)
    BY <2>1 DEF SessionInv, SessionsCounted
  <2>3. \A d \in Clients :
          /\ client'[d].identified /\ client'[d].session = t =>
               client[d].identified /\ client[d].session = t /\ client'[d] = client[d]
          /\ client'[d].reader = "loaded" /\ client'[d].session = t =>
               client'[d] = client[d]
    BY <1>10, <1>11, <2>1
  <2>4. \A m : CounterSaved(t, m) => CounterSaved(t, m)'
    BY <1>5, <2>3 DEF CounterSaved
  <2>5. ASSUME NEW d \in Clients, client'[d].reader = "loaded", client'[d].session = t
        PROVE  CounterSaved(t, client[d].loaded)'
    <3>1. PICK m : m = client[d].loaded
      OBVIOUS
    <3>2. CounterSaved(t, m)' /\ client'[d].loaded = m
      BY <2>2, <2>3, <2>4, <2>5, <3>1 DEF SessionCounted
    <3> QED BY <3>2 DEF CounterSaved
  <2>6. saved'[t] # None => CounterSaved(t, saved[t].lastSeq)'
    BY <1>5, <2>2, <2>4 DEF SessionCounted
  <2> QED BY <1>5, <2>2, <2>3, <2>5, <2>6 DEF SessionCounted
<1> QED BY <1>13, <1>15, <1>16, <1>17, <1>18, <1>19 DEF SessionInv

-----------------------------------------------------------------------------
LEMMA SessionStarts == Init => SessionInv
<1> SUFFICES ASSUME Init PROVE SessionInv
  OBVIOUS
<1>1. client = [c \in Clients |-> NewClient]
  BY DEF Init
<1>2. \A c \in Clients : client[c] = NewClient
  BY <1>1, Zenon
<1>3. TypeOK
  <2>1. client \in [Clients -> ClientRecord]
    BY <1>1, NewClientParts
  <2>2. OthersTyped
    BY GatewayAssumption DEF Init, OthersTyped, Events
  <2> QED BY <2>1, <2>2, TypeSplit
<1>4. ClientsSound
  <2>1. ClientBound(NewClient) /\ ClientCounted(NewClient)
    BY NewClientParts DEF ClientBound, ClientCounted, Identified, Registering, Replaying
  <2> QED BY <1>2, <2>1, Zenon DEF ClientsSound
<1>5. RegistrySound /\ DispatchSound /\ ReceivedSound
  BY DEF Init, RegistrySound, DispatchSound, ReceivedSound
<1>6. \A s \in Sessions : saved[s] = None /\ replay[s] = <<>> /\ Len(<<>>) = 0 /\ 1 .. 0 = {}
  BY DEF Init
<1>7. ValkeySound
  BY <1>6 DEF ValkeySound
<1>8. SessionsCounted
  <2>1. \A c \in Clients : client[c].identified = FALSE /\ client[c].reader # "loaded"
    <3>1. NewClient.identified = FALSE /\ NewClient.reader # "loaded"
      BY NewClientParts
    <3> QED BY <1>2, <3>1, Zenon
  <2> QED BY <1>6, <2>1 DEF SessionsCounted, SessionCounted
<1> QED BY <1>3, <1>4, <1>5, <1>7, <1>8 DEF SessionInv

LEMMA SessionStutters ==
  ASSUME SessionInv, UNCHANGED vars
  PROVE  SessionInv'
<1>1. UNCHANGED <<client, registered, saved, replay, dispatch, published, audience, owner,
                  appended, got, seen, resumes, budget>>
  BY DEF vars
<1>2. PICK new : new = client
  OBVIOUS
<1>3. OthersTyped'
  BY <1>1 DEF SessionInv, TypeOK, OthersTyped
<1>4. \A s \in Sessions : \A e \in got'[s] : Sendable(s, e)
  BY <1>1 DEF SessionInv, ReceivedSound
<1> QED BY <1>1, <1>2, <1>3, <1>4, SameClients, LightStep

LEMMA SessionSound == Spec => []SessionInv
<1>1. SessionInv /\ [Next]_vars => SessionInv'
  <2> SUFFICES ASSUME SessionInv, [Next]_vars PROVE SessionInv'
    OBVIOUS
  <2>1. ASSUME NEW c \in Clients, Reader(c) PROVE SessionInv'
    BY <2>1, ResumeReplayKeeps, ResumeFailsKeeps, RegisterKeeps, ResumeDeleteKeeps,
       SendMissedKeeps, TakeNumberKeeps, GreetKeeps, UnregisterKeeps, CloseSendKeeps, SaveKeeps
       DEF Reader
  <2>2. ASSUME NEW c \in Clients, Writer(c) PROVE SessionInv'
    BY <2>2, WriteKeeps, DropKeeps DEF Writer
  <2>3. ASSUME NEW c \in Clients, Dispatcher(c) PROVE SessionInv'
    BY <2>3, DispatchNumberKeeps, DispatchEnqueueKeeps, DispatchAppendKeeps DEF Dispatcher
  <2>4. ASSUME NEW c \in Clients, Peer(c) PROVE SessionInv'
    BY <2>4, ConnectKeeps, DropKeeps, HeartbeatKeeps, IdentifyKeeps, ResumeLoadKeeps DEF Peer
  <2>5. ASSUME NEW users \in SUBSET Users, DispatchBegin(users) \/ DispatchEphemeral(users)
        PROVE  SessionInv'
    BY <2>5, DispatchBeginKeeps, DispatchEphemeralKeeps
  <2>6. ASSUME NEW s \in Sessions, Expire(s) PROVE SessionInv'
    BY <2>6, ExpireKeeps
  <2> QED BY <2>1, <2>2, <2>3, <2>4, <2>5, <2>6, ShutdownKeeps, CrashKeeps, SessionStutters
          DEF Next
<1> QED BY <1>1, SessionStarts, PTL DEF Spec

\* Connections, keys, dispatcher and histories keep their types.
THEOREM SessionTypeCorrect == Spec => []TypeOK
<1>1. SessionInv => TypeOK
  BY DEF SessionInv
<1> QED BY <1>1, SessionSound, PTL

\* For any number of connections, resumes and restarts: what the peer of a
\* session received was addressed to the user the session was made for.
THEOREM OthersHearNothing == Spec => []OnlyAudience
<1>1. SessionInv => OnlyAudience
  BY DEF SessionInv, ReceivedSound, Sendable, MeantFor, OnlyAudience
<1> QED BY <1>1, SessionSound, PTL

\* A connection that leaves stores a counter no lower than what its peer heard,
\* as long as its session's buffer was read for at most one resume.
THEOREM CounterIsNotBehind == Spec => []SavedCounterNotBehind
<1>1. SessionInv => SavedCounterNotBehind
  <2> SUFFICES ASSUME SessionInv, NEW c \in Clients, client[c].reader = "save",
                      resumes[client[c].session] <= 1
               PROVE  client[c].heard <= client[c].seq
    BY DEF SavedCounterNotBehind, At
  <2>1. ClientBound(client[c]) /\ ClientCounted(client[c])
    BY DEF SessionInv, ClientsSound
  <2>2. client[c].identified /\ client[c].heard <= Top(client[c])
    BY <2>1 DEF ClientBound, ClientCounted, Identified
  <2> QED BY <2>2 DEF Top, Replaying
<1> QED BY <1>1, SessionSound, PTL

=============================================================================
