---------------------------- MODULE GatewaySession ----------------------------
(***************************************************************************)
(* WebSocket connections, sessions and replay: internal/gateway/hub.go,    *)
(* client.go and session.go.                                               *)
(*                                                                         *)
(* Every connection has a reader (readPump, which runs the Identify and    *)
(* Resume handlers and finally unregister) and a writer (writePump).  One  *)
(* further goroutine, the dispatcher (Hub.Run), hands events to a snapshot *)
(* of the registry.  They share the registry, each client's queue and      *)
(* sequence counter, and two Valkey keys per session: gwsession:{id},      *)
(* written on disconnect, and gwreplay:{id}, appended to on dispatch.      *)
(* Presence is in GatewayPresence; the permission filter is abstracted to  *)
(* the audience an event is published with.                                *)
(***************************************************************************)
EXTENDS GatewayHub, Integers, Sequences, FiniteSets

CONSTANTS
  Sessions,        \* identifiers NewSessionID can return
  QueueSize,       \* capacity of Client.send (256)
  MaxReplay,       \* cfg.GatewayReplayBufferSize
  MaxConnections,  \* cfg.GatewayMaxConnections
  MaxEvents,       \* bound: events published
  MaxUnsequenced,  \* bound: heartbeat acks and ephemeral frames
  MaxCrashes       \* bound: process restarts

ASSUME GatewayAssumption ==
  /\ QueueSize \in Nat \ {0}
  /\ MaxReplay \in Nat \ {0}
  /\ MaxConnections \in Nat \ {0}
  /\ MaxEvents \in Nat /\ MaxUnsequenced \in Nat /\ MaxCrashes \in Nat
  /\ None \notin Sessions

VARIABLES
  client,      \* per connection: the Client struct and the locals of its reader
  saved,       \* gwsession:{id} -> user and last sequence number, or None
  replay,      \* gwreplay:{id} -> entries, oldest first
  dispatch,    \* the dispatcher's current event, or None
  published,   \* events handed to the dispatcher so far
  audience,    \* the users each published event is for
  owner,       \* history: the user each session was created for
  appended,    \* history: events appended to each session's replay buffer
  got,         \* history: dispatches the remote end of each session received
  seen,        \* history: the highest sequence number it received
  resumes,     \* history: how often each session's buffer was read for a resume
  budget       \* unsequenced frames and crashes left

vars == <<client, registered, saved, replay, dispatch, published, audience, owner,
          appended, got, seen, resumes, budget>>

Events == 1 .. MaxEvents

\* Frames.  Only dispatches carry a sequence number (from 1); READY and RESUMED
\* are dispatches too, written as event Greeting.
Frame(seq, event) == [seq |-> seq, event |-> event]
Greeting == 0
Unsequenced == Frame(0, None)
Frames == [seq : Nat, event : Events \cup {Greeting, None}]


\* newClient.  The reader's locals: loaded (session.LastSeq), missed (the
\* frames to replay) and number (a sequence number taken but not yet enqueued).
\* heard is history: the highest number the peer received on this connection.
NewClient ==
  [conn |-> "new", reader |-> "new", writer |-> "new", done |-> FALSE,
   user |-> None, session |-> None, identified |-> FALSE, seq |-> 0, send |-> <<>>,
   loaded |-> 0, missed |-> <<>>, number |-> 0, heard |-> 0]

Init ==
  /\ client = [c \in Clients |-> NewClient]
  /\ registered = {}
  /\ saved = [s \in Sessions |-> None]
  /\ replay = [s \in Sessions |-> <<>>]
  /\ dispatch = None
  /\ published = 0
  /\ audience = [e \in Events |-> {}]
  /\ owner = [s \in Sessions |-> None]
  /\ appended = [s \in Sessions |-> {}]
  /\ got = [s \in Sessions |-> {}]
  /\ seen = [s \in Sessions |-> 0]
  /\ resumes = [s \in Sessions |-> 0]
  /\ budget = [unsequenced |-> MaxUnsequenced, crashes |-> MaxCrashes]

-----------------------------------------------------------------------------
(* Client methods, as functions on the client record.  An operator that      *)
(* stands directly before another one and repeats it with one slip (AnyUser, *)
(* Forgets..., Keeps..., Blocks) is a variant for mutation checks and no     *)
(* part of the model.                                                        *)

\* closeSend
ClosedSend(r) == [r EXCEPT !.done = TRUE]

\* enqueue: dropped once done is closed; a full queue closes the connection.
Enqueued(r, frame) ==
  IF r.done THEN r
  ELSE IF Len(r.send) < QueueSize THEN [r EXCEPT !.send = Append(@, frame)]
  ELSE [ClosedSend(r) EXCEPT !.conn = "closed"]

At(c, pc) == client[c].reader = pc

history == <<owner, appended, got, seen, resumes>>
valkey == <<saved, replay>>
events == <<published, audience>>

-----------------------------------------------------------------------------
(* The reader. *)

\* ServeWebSocket
Connect(c) ==
  /\ client[c].conn = "new"
  /\ client' = [client EXCEPT ![c] = [@ EXCEPT !.conn = "open", !.reader = "reading",
                                               !.writer = "running"]]
  /\ UNCHANGED <<registered, valkey, dispatch, events, history, budget>>

\* The peer leaves, the network fails, a deadline or the identify timeout
\* passes, or closeWithCode answers a protocol error.
Drop(c) ==
  /\ client[c].conn = "open"
  /\ client' = [client EXCEPT ![c].conn = "closed"]
  /\ UNCHANGED <<registered, valkey, dispatch, events, history, budget>>

\* handleHeartbeat's acknowledgement.
Heartbeat(c) ==
  /\ At(c, "reading") /\ client[c].conn = "open"
  /\ budget.unsequenced > 0
  /\ client' = [client EXCEPT ![c] = Enqueued(@, Unsequenced)]
  /\ budget' = [budget EXCEPT !.unsequenced = @ - 1]
  /\ UNCHANGED <<registered, valkey, dispatch, events, history>>

\* handleIdentify up to the assignment of the session: the token names the
\* user, the READY payload is read, the client is marked identified.
Identify(c, u, s) ==
  /\ At(c, "reading") /\ client[c].conn = "open" /\ ~client[c].identified
  /\ owner[s] = None
  /\ client' = [client EXCEPT ![c] = [@ EXCEPT !.user = u, !.session = s,
                                               !.identified = TRUE,
                                               !.reader = "register_new"]]
  /\ owner' = [owner EXCEPT ![s] = u]
  /\ UNCHANGED <<registered, valkey, dispatch, events, appended, got, seen, resumes, budget>>

ResumeLoadAnyUser(c, u, s) ==
  /\ At(c, "reading") /\ client[c].conn = "open" /\ ~client[c].identified
  /\ Greeting \in got[s]
  /\ saved[s] # None
  /\ client' = [client EXCEPT ![c] = [@ EXCEPT !.user = u, !.session = s, !.reader = "loaded",
                                               !.loaded = saved[s].lastSeq]]
  /\ UNCHANGED <<registered, valkey, dispatch, events, history, budget>>

\* handleResume, the session lookup and its three refusals.  The peer learnt
\* the session's name from READY and sends the highest number it has received.
ResumeLoad(c, u, s) ==
  /\ At(c, "reading") /\ client[c].conn = "open" /\ ~client[c].identified
  /\ Greeting \in got[s]
  /\ LET refused == \/ saved[s] = None
                    \/ saved[s] # None /\ (saved[s].user # u \/ seen[s] > saved[s].lastSeq)
     IN client' = [client EXCEPT ![c] =
          IF refused THEN Enqueued(@, Unsequenced)
          ELSE [@ EXCEPT !.user = u, !.session = s, !.loaded = saved[s].lastSeq,
                         !.reader = "loaded"]]
  /\ UNCHANGED <<registered, valkey, dispatch, events, history, budget>>

\* SessionStore.Replay: what the buffer holds beyond the client's number, in
\* the buffer's order.
ReplayAfter(s, after) ==
  LET later == {i \in DOMAIN replay[s] : replay[s][i].seq > after}
      nth(n) == CHOOSE i \in later : Cardinality({j \in later : j <= i}) = n
  IN [n \in 1 .. Cardinality(later) |-> replay[s][nth(n)]]

ResumeReplayKeepsCounter(c) ==
  /\ At(c, "loaded")
  /\ LET s == client[c].session IN
     /\ client' = [client EXCEPT ![c] = [@ EXCEPT !.missed = ReplayAfter(s, seen[s]),
                                                  !.identified = TRUE,
                                                  !.reader = "register_resumed"]]
     /\ resumes' = [resumes EXCEPT ![s] = @ + 1]
  /\ UNCHANGED <<registered, valkey, dispatch, events, owner, appended, got, seen, budget>>

\* handleResume, the buffer and the client's fields.  The code uses the number
\* that came with Resume; seen has not moved since unless an older connection
\* of the session still delivers, and then fewer frames are replayed twice.
ResumeReplay(c) ==
  /\ At(c, "loaded")
  /\ LET s == client[c].session IN
     /\ client' = [client EXCEPT ![c] = [@ EXCEPT !.missed = ReplayAfter(s, seen[s]),
                                                  !.seq = client[c].loaded,
                                                  !.identified = TRUE,
                                                  !.reader = "register_resumed"]]
     /\ resumes' = [resumes EXCEPT ![s] = @ + 1]
  /\ UNCHANGED <<registered, valkey, dispatch, events, owner, appended, got, seen, budget>>

\* handleResume when Valkey fails: the client is told the session is invalid.
ResumeFails(c) ==
  /\ At(c, "loaded")
  /\ client' = [client EXCEPT ![c] = Enqueued([@ EXCEPT !.reader = "reading"],
                                              Unsequenced)]
  /\ UNCHANGED <<registered, valkey, dispatch, events, history, budget>>

\* register, under the hub's lock.
Register(c) ==
  /\ At(c, "register_new") \/ At(c, "register_resumed")
  /\ IF Cardinality(registered) >= MaxConnections
     THEN /\ client' = [client EXCEPT ![c] = [@ EXCEPT !.conn = "closed", !.reader = "reading"]]
          /\ UNCHANGED registered
     ELSE /\ registered' = registered \cup {c}
          /\ client' = [client EXCEPT ![c].reader =
               IF At(c, "register_new") THEN "number" ELSE "delete_session"]
  /\ UNCHANGED <<valkey, dispatch, events, history, budget>>

\* SessionStore.Delete; a failure is only logged.
ResumeDelete(c) ==
  /\ At(c, "delete_session")
  /\ client' = [client EXCEPT ![c].reader = "send_missed"]
  /\ \/ /\ saved' = [saved EXCEPT ![client[c].session] = None]
        /\ replay' = [replay EXCEPT ![client[c].session] = <<>>]
     \/ UNCHANGED valkey
  /\ UNCHANGED <<registered, dispatch, events, history, budget>>

SendMissed(c) ==
  /\ At(c, "send_missed")
  /\ client' = [client EXCEPT ![c] =
       IF @.missed = <<>> THEN [@ EXCEPT !.reader = "number"]
       ELSE Enqueued([@ EXCEPT !.missed = Tail(client[c].missed)], Head(@.missed))]
  /\ UNCHANGED <<registered, valkey, dispatch, events, history, budget>>

\* nextSeq for READY or RESUMED, then its enqueue.
TakeNumber(c) ==
  /\ At(c, "number")
  /\ client' = [client EXCEPT ![c] = [@ EXCEPT !.seq = client[c].seq + 1,
                                               !.number = client[c].seq + 1,
                                               !.reader = "greet"]]
  /\ UNCHANGED <<registered, valkey, dispatch, events, history, budget>>

Greet(c) ==
  /\ At(c, "greet")
  /\ client' = [client EXCEPT ![c] = Enqueued([@ EXCEPT !.reader = "reading", !.number = 0],
                                              Frame(@.number, Greeting))]
  /\ UNCHANGED <<registered, valkey, dispatch, events, history, budget>>

\* unregister, under the hub's lock.  A client that is not in the registry
\* (never registered, or removed by Shutdown) returns at once.
Unregister(c) ==
  /\ At(c, "reading") /\ client[c].conn = "closed"
  /\ client' = [client EXCEPT ![c].reader = IF c \in registered THEN "close_send" ELSE "exited"]
  /\ registered' = registered \ {c}
  /\ UNCHANGED <<valkey, dispatch, events, history, budget>>

CloseSendForgotten(c) ==
  /\ At(c, "close_send")
  /\ client' = [client EXCEPT ![c].reader = "save"]
  /\ UNCHANGED <<registered, valkey, dispatch, events, history, budget>>

CloseSend(c) ==
  /\ At(c, "close_send")
  /\ client' = [client EXCEPT ![c] = ClosedSend([@ EXCEPT !.reader = "save"])]
  /\ UNCHANGED <<registered, valkey, dispatch, events, history, budget>>

\* SessionStore.Save with the counter as it is now; a failure is only logged.
Save(c) ==
  /\ At(c, "save")
  /\ client' = [client EXCEPT ![c].reader = "exited"]
  /\ \/ saved' = [saved EXCEPT ![client[c].session] =
                    [user |-> client[c].user, lastSeq |-> client[c].seq]]
     \/ UNCHANGED saved
  /\ UNCHANGED <<registered, replay, dispatch, events, history, budget>>

\* Save gives both keys the same TTL, and an AppendReplay after it extends the
\* buffer's: the session goes with the buffer or before it.
Expire(s) ==
  /\ saved[s] # None \/ replay[s] # <<>>
  /\ saved' = [saved EXCEPT ![s] = None]
  /\ replay' \in {[replay EXCEPT ![s] = <<>>], replay}
  /\ UNCHANGED <<client, registered, dispatch, events, history, budget>>

-----------------------------------------------------------------------------
(* The writer and the remote end. *)

Larger(m, n) == IF m > n THEN m ELSE n

\* writePump takes a frame: the peer receives it, or the write fails.
Write(c) ==
  /\ client[c].writer = "running" /\ client[c].send # <<>>
  /\ LET frame == Head(client[c].send)
         s == client[c].session
     IN
     \/ /\ client[c].conn = "open"
        /\ client' = [client EXCEPT ![c] =
             [@ EXCEPT !.send = Tail(client[c].send),
                       !.heard = Larger(client[c].heard, frame.seq)]]
        /\ IF frame.seq = 0 THEN UNCHANGED <<got, seen>>
           ELSE /\ seen' = [seen EXCEPT ![s] = Larger(@, frame.seq)]
                /\ got' = [got EXCEPT ![s] = @ \cup {frame.event}]
     \/ /\ client[c].conn = "closed"
        /\ client' = [client EXCEPT ![c] = [@ EXCEPT !.send = Tail(client[c].send),
                                                     !.writer = "exited"]]
        /\ UNCHANGED <<got, seen>>
  /\ UNCHANGED <<registered, valkey, dispatch, events, owner, appended, resumes, budget>>

\* writePump returns once done is closed and the queue is drained.
WriterExit(c) ==
  /\ client[c].writer = "running" /\ client[c].done /\ client[c].send = <<>>
  /\ client' = [client EXCEPT ![c] = [@ EXCEPT !.writer = "exited", !.conn = "closed"]]
  /\ UNCHANGED <<registered, valkey, dispatch, events, history, budget>>

-----------------------------------------------------------------------------
(* The dispatcher (handlePubSubEvent). *)

NewDispatch == [event |-> 0, todo |-> {}, target |-> None, seq |-> 0]

Targets(users) == {c \in registered : client[c].identified /\ client[c].user \in users}

\* An event arrives: the targets are snapshotted under the read lock.
DispatchBegin(users) ==
  /\ dispatch = None
  /\ published < MaxEvents
  /\ published' = published + 1
  /\ audience' = [audience EXCEPT ![published + 1] = users]
  /\ dispatch' = IF Targets(users) = {} THEN None
                 ELSE [NewDispatch EXCEPT !.event = published + 1, !.todo = Targets(users)]
  /\ UNCHANGED <<client, registered, valkey, history, budget>>

\* A typing event: one unsequenced frame per target, not stored.
DispatchEphemeral(users) ==
  /\ dispatch = None
  /\ budget.unsequenced > 0
  /\ client' = [c \in Clients |-> IF c \in Targets(users)
                                  THEN Enqueued(client[c], Unsequenced)
                                  ELSE client[c]]
  /\ budget' = [budget EXCEPT !.unsequenced = @ - 1]
  /\ UNCHANGED <<registered, valkey, dispatch, events, history>>

DispatchNumber(c) ==
  /\ dispatch # None
  /\ dispatch.target = None /\ c \in dispatch.todo
  /\ client' = [client EXCEPT ![c].seq = @ + 1]
  /\ dispatch' = [dispatch EXCEPT !.target = c, !.seq = client[c].seq + 1,
                                  !.todo = @ \ {c}]
  /\ UNCHANGED <<registered, valkey, events, history, budget>>

DispatchEnqueueBlocks(c) ==
  /\ dispatch # None
  /\ dispatch.target = c /\ dispatch.seq > 0
  /\ Len(client[c].send) < QueueSize
  /\ client' = [client EXCEPT ![c] = Enqueued(@, Frame(dispatch.seq, dispatch.event))]
  /\ dispatch' = [dispatch EXCEPT !.seq = -@]
  /\ UNCHANGED <<registered, valkey, events, history, budget>>

DispatchEnqueue(c) ==
  /\ dispatch # None
  /\ dispatch.target = c /\ dispatch.seq > 0
  /\ client' = [client EXCEPT ![c] =
       Enqueued(@, Frame(dispatch.seq, dispatch.event))]
  /\ dispatch' = [dispatch EXCEPT !.seq = -@]
  /\ UNCHANGED <<registered, valkey, events, history, budget>>

\* RPUSH, then LTRIM to the newest MaxReplay entries.
Appended(buffer, entry) ==
  LET longer == Append(buffer, entry)
  IN IF Len(longer) > MaxReplay THEN Tail(longer) ELSE longer

\* AppendReplay; a failure is only logged.
DispatchAppend(c) ==
  /\ dispatch # None
  /\ dispatch.target = c /\ dispatch.seq < 0
  /\ \/ /\ replay' = [replay EXCEPT ![client[c].session] =
                        Appended(@, [seq |-> -dispatch.seq, event |-> dispatch.event])]
        /\ appended' = [appended EXCEPT ![client[c].session] = @ \cup {dispatch.event}]
     \/ UNCHANGED <<replay, appended>>
  /\ dispatch' = IF dispatch.todo = {} THEN None
                 ELSE [dispatch EXCEPT !.target = None, !.seq = 0]
  /\ UNCHANGED <<client, registered, saved, events, owner, got, seen, resumes, budget>>

-----------------------------------------------------------------------------
(* The end of a process.  Valkey survives it.  A shutdown ends in a Crash. *)

\* Shutdown: Reconnect to everyone, then close, under the hub's lock.
Shutdown ==
  /\ budget.crashes > 0
  /\ registered # {}
  /\ client' = [c \in Clients |->
       IF c \in registered
       THEN [ClosedSend(Enqueued(client[c], Unsequenced)) EXCEPT !.conn = "closed"]
       ELSE client[c]]
  /\ registered' = {}
  /\ UNCHANGED <<valkey, dispatch, events, history, budget>>

\* The process is gone, after Shutdown or without it.
Crash ==
  /\ budget.crashes > 0
  /\ budget' = [budget EXCEPT !.crashes = @ - 1]
  /\ client' = [c \in Clients |->
       IF client[c].conn = "new" THEN client[c]
       ELSE [NewClient EXCEPT !.conn = "closed", !.reader = "exited", !.writer = "exited",
                              !.done = TRUE]]
  /\ registered' = {}
  /\ dispatch' = None
  /\ UNCHANGED <<valkey, events, history>>

-----------------------------------------------------------------------------
Reader(c) ==
  \/ ResumeReplay(c) \/ ResumeFails(c) \/ Register(c) \/ ResumeDelete(c) \/ SendMissed(c)
  \/ TakeNumber(c) \/ Greet(c) \/ Unregister(c) \/ CloseSend(c) \/ Save(c)

Writer(c) == Write(c) \/ WriterExit(c)

Dispatcher(c) == DispatchNumber(c) \/ DispatchEnqueue(c) \/ DispatchAppend(c)

Peer(c) ==
  \/ Connect(c) \/ Drop(c) \/ Heartbeat(c)
  \/ \E u \in Users, s \in Sessions : Identify(c, u, s) \/ ResumeLoad(c, u, s)

Next ==
  \/ \E c \in Clients : Reader(c) \/ Writer(c) \/ Dispatcher(c) \/ Peer(c)
  \/ \E users \in (SUBSET Users) \ {{}} : DispatchBegin(users) \/ DispatchEphemeral(users)
  \/ \E s \in Sessions : Expire(s)
  \/ Shutdown
  \/ Crash

Spec == Init /\ [][Next]_vars

\* Goroutines are scheduled: a reader, a writer or the dispatcher that can
\* take a step takes one.  Nothing is assumed of peers, events or crashes.
Fairness ==
  \A c \in Clients :
    /\ WF_vars(Reader(c))
    /\ WF_vars(Writer(c))
    /\ WF_vars(Dispatcher(c))

FairSpec == Spec /\ Fairness

-----------------------------------------------------------------------------
ClientRecord ==
  [conn : {"new", "open", "closed"},
   reader : {"new", "reading", "register_new", "loaded", "register_resumed",
             "delete_session", "send_missed", "number", "greet", "close_send", "save",
             "exited"},
   writer : {"new", "running", "exited"},
   done : BOOLEAN,
   user : Users \cup {None},
   session : Sessions \cup {None},
   identified : BOOLEAN,
   seq : Nat, send : Seq(Frames), loaded : Nat,
   missed : Seq(Frames), number : Nat, heard : Nat]

\* The type of every variable.
TypeOK ==
  /\ client \in [Clients -> ClientRecord]
  /\ registered \subseteq Clients
  /\ saved \in [Sessions -> [user : Users, lastSeq : Nat] \cup {None}]
  /\ replay \in [Sessions -> Seq(Frames)]
  /\ dispatch \in [event : Events, todo : SUBSET Clients, target : Clients \cup {None},
                   seq : Int] \cup {None}
  /\ published \in 0 .. MaxEvents
  /\ audience \in [Events -> SUBSET Users]
  /\ owner \in [Sessions -> Users \cup {None}]
  /\ appended \in [Sessions -> SUBSET Events]
  /\ got \in [Sessions -> SUBSET (Events \cup {Greeting})]
  /\ seen \in [Sessions -> Nat]
  /\ resumes \in [Sessions -> Nat]
  /\ budget \in [unsequenced : 0 .. MaxUnsequenced, crashes : 0 .. MaxCrashes]

\* Isolation of handlePubSubEvent and handleResume together: whatever the peer
\* of a session received, live or replayed, before or after any number of
\* resumes and restarts, was addressed to the user the session was made for.
OnlyAudience ==
  \A s \in Sessions : \A e \in got[s] \ {Greeting} : owner[s] \in audience[e]

\* unregister saves a counter that is not behind its peer: the numbers of
\* replayed frames, which were drawn by an earlier connection and possibly
\* after that one's own Save, are below the one RESUMED draws.  Otherwise
\* handleResume would refuse an honest peer as "ahead of server".  Two resumes
\* that read the same buffer break this, so it is stated for at most one.
SavedCounterNotBehind ==
  \A c \in Clients :
    At(c, "save") /\ resumes[client[c].session] <= 1 => client[c].heard <= client[c].seq

\* Violated (client.go, "done is closed to signal that the client is shutting
\* down"): a connection whose reader has returned also ends its writer.
WriterStops ==
  \A c \in Clients : At(c, "exited") ~> client[c].writer = "exited"

\* Violated (hub.go, handleResume "replays missed events"): once a resumed
\* peer has been sent all that is queued for it, it has every event that was
\* put into its session's buffer.
ResumeReplaysMissed ==
  \A c \in Clients :
    /\ At(c, "reading") /\ client[c].conn = "open"
    /\ client[c].loaded > 0 /\ client[c].identified
    /\ client[c].send = <<>> /\ dispatch = None
    => appended[client[c].session] \subseteq got[client[c].session]

\* A registered connection that closes leaves the registry and its writer
\* returns, however unregister, a full queue and Shutdown race.  Nothing is said
\* of one that closes before it is registered: its writer may stay (WriterStops).
ClosedConnectionsReleased ==
  \A c \in Clients :
    c \in registered /\ client[c].conn = "closed"
      ~> c \notin registered /\ client[c].writer = "exited"

\* enqueue never waits: no slow or dead peer stalls the dispatcher.
DispatchNeverStalls == dispatch # None ~> dispatch = None
=============================================================================
