------------------------------ MODULE Messages -------------------------------
(***************************************************************************)
(* Messages with their threads, pins, reactions, search documents and the  *)
(* direct-message channels (internal/message, thread, reaction, dm,        *)
(* typesense and their handlers in internal/api).                          *)
(*                                                                         *)
(* A call is a request in progress; each SQL statement or transaction is   *)
(* one step of it.  Index writes are goroutines of their own: tasks.  An   *)
(* event counts as told when the handler enqueues it for the people of the *)
(* channel; what the gateway does with it is GatewayPublisher and          *)
(* GatewaySession.  Any statement may fail and the process may die between *)
(* two (Abandon), and a user's account may be deleted with all that hangs  *)
(* on it (DeleteAccount).  Permission checks are left out (any user may    *)
(* act where some permission allows it), and so are typing and the audit   *)
(* log.                                                                    *)
(***************************************************************************)
EXTENDS Naturals, FiniteSets

CONSTANTS
  Users, Texts,
  MessageIds, ThreadIds,
  Channels,      \* server channels
  DMIds,         \* direct-message channels
  MaxGroup,      \* MaxGroupDMParticipants
  Calls,         \* requests in flight together
  Goroutines,    \* index requests under way together
  Workloads,     \* mixes explored: request kinds, users, messages and texts that take
                 \* part, and whether search is configured
  None

ASSUME MessagesAssumption ==
  /\ MaxGroup \in Nat
  /\ Channels \cap DMIds = {}
  /\ None \notin Users \cup Texts \cup MessageIds \cup ThreadIds \cup Channels \cup DMIds
  /\ \A w \in Workloads : /\ w.users \subseteq Users /\ w.messages \subseteq MessageIds
                         /\ w.texts \subseteq Texts /\ w.search \in BOOLEAN

VARIABLES
  accounts,  \* users with a row in users
  message,   \* rows of messages
  thread,    \* rows of threads
  reactions, \* rows of reactions, for one emoji
  dm,        \* rows of dm_channels with their dm_participants
  index,     \* the text of each document of the Typesense collection
  tasks,     \* the index requests under way
  call,      \* the requests in flight
  workload,  \* the mix of this behaviour
  told,      \* history: the state of each message as last announced
  crossed,   \* history: messages written while another call held an older copy
  silent,    \* history: messages whose last change no event told their channel of
  skewed,    \* history: messages with an index task that failed, was refused, was
             \* overtaken or never started, or that were cut from their thread
  dmRaced    \* history: pairs two CreateDM calls looked for together

tables == <<accounts, message, thread, reactions, dm>>
search == <<index, tasks>>
history == <<told, crossed, silent, skewed, dmRaced>>
vars == <<tables, search, call, workload, history>>

NoMessage == [at |-> "none", chan |-> None, author |-> None, thread |-> None,
              text |-> None, pinned |-> FALSE]
NoThread == [at |-> "none", parent |-> None, chan |-> None, archived |-> FALSE, locked |-> FALSE]
NoDM == [kind |-> "none", owner |-> None, users |-> {}]
NoCall == [kind |-> "none", pc |-> "idle", user |-> None, m |-> None, chan |-> None,
           thread |-> None, with |-> None, copy |-> NoMessage]
NoTask == [op |-> "none", m |-> None, text |-> None, retry |-> FALSE]

Init ==
  /\ accounts = Users
  /\ message = [m \in MessageIds |-> NoMessage]
  /\ thread = [t \in ThreadIds |-> NoThread]
  /\ reactions = {}
  /\ dm = [d \in DMIds |-> NoDM]
  /\ index = [m \in MessageIds |-> None]
  /\ tasks = [g \in Goroutines |-> NoTask]
  /\ call = [c \in Calls |-> NoCall]
  /\ workload \in Workloads
  /\ told = [m \in MessageIds |-> NoMessage]
  /\ crossed = {} /\ silent = {} /\ skewed = {} /\ dmRaced = {}

\* Ids are random: which unused one is drawn makes no difference.
Draw(unused) == IF unused = {} THEN {} ELSE {CHOOSE x \in unused : TRUE}

At(c, pc) == call[c].pc = pc
Goto(c, pc) == call' = [call EXCEPT ![c].pc = pc]
Return(c) == call' = [call EXCEPT ![c] = NoCall]

\* Begin(c, kind, r): request kind arrives as call c and continues as r.
Begin(c, kind, r) ==
  /\ At(c, "idle")
  /\ kind \in workload.kinds
  /\ call' = [call EXCEPT ![c] = [r EXCEPT !.kind = kind]]

\* message.GetByID finds the messages that are not deleted.
Found(m) == message[m].at = "live"
Deleted(m) == message[m].at = "deleted"
InChannel(m) == message[m].chan \in Channels

\* Calls holding a copy of m that they have not announced yet.
Holders(m) == {c \in Calls : call[c].m = m /\ call[c].pc \in {"link", "audience", "announce"}}

\* The handler of call c ends between its write and its event: a statement
\* in between fails, or the process dies.
Silence(c) ==
  /\ Return(c)
  /\ silent' = silent \cup {call[c].m}
  /\ skewed' = IF call[c].kind \in {"post", "edit", "delete"} THEN skewed \cup {call[c].m} ELSE skewed

\* A row of m changes under call c; any copy another call holds is now old.
Write(c, m, row) ==
  /\ message' = [message EXCEPT ![m] = row]
  /\ crossed' = IF Holders(m) \ {c} = {} THEN crossed ELSE crossed \cup {m}

-----------------------------------------------------------------------------
(* Posting *)

\* CreateMessage: the route's permission check comes first.
CreateMessage(c, u, ch, reply) ==
  /\ Begin(c, "post", [NoCall EXCEPT !.pc = "store", !.user = u, !.chan = ch, !.with = reply])
  /\ UNCHANGED <<tables, search, workload, history>>

\* CreateThreadMessage reads the thread: archived and locked ones refuse.
CreateThreadMessage(c, u, t, reply) ==
  /\ thread[t].at = "live" /\ ~thread[t].archived /\ ~thread[t].locked
  /\ Begin(c, "threadpost",
           [NoCall EXCEPT !.pc = "store", !.user = u, !.chan = thread[t].chan, !.thread = t,
              !.with = reply])
  /\ UNCHANGED <<tables, search, workload, history>>

\* The check in front of every route of a direct-message channel
RequireParticipant(u, d) == u \in dm[d].users

SendMessage(c, u, d, reply) ==
  /\ RequireParticipant(u, d)
  /\ Begin(c, "send", [NoCall EXCEPT !.pc = "store", !.user = u, !.chan = d, !.with = reply])
  /\ UNCHANGED <<tables, search, workload, history>>

(* Every operator whose comment reads "Variant" stands, in mutation checks *)
(* only, for the definition that follows it; none is part of the model.    *)

\* message.Create: the target of a reply must be a live message of the
\* channel; the author and the thread must have a row (foreign keys).
StoreMessage(c, m, text) ==
  LET r == call[c]
      row == [at |-> "live", chan |-> r.chan, author |-> r.user, thread |-> r.thread,
              text |-> text, pinned |-> FALSE] IN
  /\ At(c, "store")
  /\ m \in Draw({n \in workload.messages : message[n] = NoMessage})
  /\ IF /\ r.with = None \/ (Found(r.with) /\ message[r.with].chan = r.chan)
        /\ r.user \in accounts
        /\ r.thread # None => thread[r.thread].at = "live"
     THEN /\ message' = [message EXCEPT ![m] = row]
          /\ call' = [call EXCEPT ![c].m = m, ![c].copy = row,
                        ![c].pc = IF r.kind = "send" THEN "audience" ELSE "link"]
     ELSE UNCHANGED message /\ Return(c)
  /\ UNCHANGED <<accounts, thread, reactions, dm, search, workload, history>>

\* LinkToMessage (module Files): a message without attachments, or one
\* that got them all, is announced; otherwise the handler ends with an error
\* and the row stays.
LinkToMessage(c, ok) ==
  /\ At(c, "link")
  /\ IF ok THEN Goto(c, "announce") /\ UNCHANGED <<silent, skewed>> ELSE Silence(c)
  /\ UNCHANGED <<tables, search, workload, told, crossed, dmRaced>>

\* The event of a direct message is for the participants of the moment.  If
\* they cannot be read it goes out without targets (see Audience).
ListParticipants(c, ok) ==
  /\ At(c, "audience")
  /\ IF ok THEN Goto(c, "announce") /\ UNCHANGED <<silent, skewed>> ELSE Silence(c)
  /\ UNCHANGED <<tables, search, workload, told, crossed, dmRaced>>

\* go func() { indexer... }(): a goroutine of its own, if search is configured.
Spawn(op, m, text) ==
  IF workload.search
  THEN \E g \in Draw({h \in Goroutines : tasks[h] = NoTask}) :
         tasks' = [tasks EXCEPT ![g] = [op |-> op, m |-> m, text |-> text, retry |-> FALSE]]
  ELSE UNCHANGED tasks

\* The hub sends an event without targets to those who may view its channel,
\* which a direct-message channel is not: its people never see it.
Audience(c) == InChannel(call[c].m) \/ call[c].kind = "send"

\* The people of the channel of c's message are told of row, or nobody is.
Tell(c, row) ==
  LET m == call[c].m IN
  IF Audience(c) THEN told' = [told EXCEPT ![m] = row] /\ silent' = silent \ {m}
  ELSE UNCHANGED told /\ silent' = silent \cup {m}

\* The handler's last step: the index goroutine and the event, both with the
\* copy it holds.  Thread and direct messages are not indexed when made.
Announce(c) ==
  LET r == call[c] IN
  /\ At(c, "announce")
  /\ CASE r.kind = "post" -> Spawn("create", r.m, r.copy.text)
       [] r.kind = "edit" -> Spawn("upsert", r.m, r.copy.text)
       [] OTHER -> UNCHANGED tasks
  /\ Tell(c, r.copy)
  /\ Return(c)
  /\ UNCHANGED <<tables, index, workload, crossed, skewed, dmRaced>>

\* A statement of call c fails or the process dies: before the write nothing
\* has happened, after it the event and the index task are lost.
Abandon(c) ==
  /\ ~At(c, "idle")
  /\ IF call[c].pc \in {"link", "audience", "reload", "announce", "announce_delete"}
     THEN Silence(c) ELSE Return(c) /\ UNCHANGED <<silent, skewed>>
  /\ UNCHANGED <<tables, search, workload, told, crossed, dmRaced>>

-----------------------------------------------------------------------------
(* Edits, deletions and pins *)

\* EditMessage: only the author; the route serves direct messages too.
EditMessage(c, u, m) ==
  /\ Found(m) /\ message[m].author = u
  /\ Begin(c, "edit", [NoCall EXCEPT !.pc = "update", !.user = u, !.m = m])
  /\ UNCHANGED <<tables, search, workload, history>>

\* Variant: UPDATE without deleted_at IS NULL.
UpdateAnyMessage(c, text) ==
  LET m == call[c].m IN
  /\ At(c, "update")
  /\ Write(c, m, [message[m] EXCEPT !.text = text])
  /\ Goto(c, "reload")
  /\ UNCHANGED <<accounts, thread, reactions, dm, search, workload, told, silent, skewed, dmRaced>>

\* message.Update
UpdateMessage(c, text) ==
  LET m == call[c].m IN
  /\ At(c, "update")
  /\ IF Found(m)
     THEN Write(c, m, [message[m] EXCEPT !.text = text]) /\ Goto(c, "reload")
     ELSE Return(c) /\ UNCHANGED <<message, crossed>>
  /\ UNCHANGED <<accounts, thread, reactions, dm, search, workload, told, silent, skewed, dmRaced>>

\* PinMessage and UnpinMessage (messages of server channels only).
PinMessage(c, u, m) ==
  /\ Found(m) /\ InChannel(m)
  /\ Begin(c, "pin", [NoCall EXCEPT !.pc = "pin", !.user = u, !.m = m])
  /\ UNCHANGED <<tables, search, workload, history>>

UnpinMessage(c, u, m) ==
  /\ Found(m) /\ InChannel(m)
  /\ Begin(c, "unpin", [NoCall EXCEPT !.pc = "unpin", !.user = u, !.m = m])
  /\ UNCHANGED <<tables, search, workload, history>>

\* UPDATE ... pinned, when it is not so already.
SetPinned(c, pinned) ==
  LET m == call[c].m IN
  /\ IF Found(m) /\ message[m].pinned # pinned
     THEN Write(c, m, [message[m] EXCEPT !.pinned = pinned]) /\ Goto(c, "reload")
     ELSE Return(c) /\ UNCHANGED <<message, crossed>>
  /\ UNCHANGED <<accounts, thread, reactions, dm, search, workload, told, silent, skewed, dmRaced>>

Pin(c) == At(c, "pin") /\ SetPinned(c, TRUE)
Unpin(c) == At(c, "unpin") /\ SetPinned(c, FALSE)

\* Variant: the event is built from what the handler wrote, read before.
ReloadStale(c) ==
  /\ At(c, "reload")
  /\ call' = [call EXCEPT ![c].pc = "announce", ![c].copy = told[call[c].m]]
  /\ UNCHANGED <<tables, search, workload, history>>

\* Variant: the read at the end does not ask for deleted_at IS NULL.
ReloadAny(c) ==
  /\ At(c, "reload")
  /\ call' = [call EXCEPT ![c].pc = "announce", ![c].copy = [message[call[c].m] EXCEPT !.at = "live"]]
  /\ UNCHANGED <<tables, search, workload, history>>

\* Update, Pin and Unpin end with a read of the row, which the event carries.
Reload(c) ==
  /\ At(c, "reload")
  /\ IF Found(call[c].m)
     THEN call' = [call EXCEPT ![c].pc = "announce", ![c].copy = message[call[c].m]]
     ELSE Return(c)
  /\ UNCHANGED <<tables, search, workload, history>>

\* DeleteMessage: the author, or a moderator of the channel.
DeleteMessage(c, u, m) ==
  /\ Found(m) /\ (message[m].author = u \/ InChannel(m))
  /\ Begin(c, "delete", [NoCall EXCEPT !.pc = "delete", !.user = u, !.m = m])
  /\ UNCHANGED <<tables, search, workload, history>>

\* deleted_by refers to users.
SoftDelete(c) ==
  LET m == call[c].m IN
  /\ At(c, "delete")
  /\ IF Found(m) /\ call[c].user \in accounts
     THEN Write(c, m, [message[m] EXCEPT !.at = "deleted"]) /\ Goto(c, "announce_delete")
     ELSE Return(c) /\ UNCHANGED <<message, crossed>>
  /\ UNCHANGED <<accounts, thread, reactions, dm, search, workload, told, silent, skewed, dmRaced>>

\* Variant: a deleted message stays in the collection.
AnnounceDeleteOnly(c) ==
  /\ At(c, "announce_delete")
  /\ Tell(c, [NoMessage EXCEPT !.at = "deleted"])
  /\ Return(c)
  /\ UNCHANGED <<tables, search, workload, crossed, skewed, dmRaced>>

AnnounceDelete(c) ==
  /\ At(c, "announce_delete")
  /\ Spawn("delete", call[c].m, None)
  /\ Tell(c, [NoMessage EXCEPT !.at = "deleted"])
  /\ Return(c)
  /\ UNCHANGED <<tables, index, workload, crossed, skewed, dmRaced>>

-----------------------------------------------------------------------------
(* Threads and reactions *)

CreateThread(c, u, m) ==
  /\ Found(m) /\ InChannel(m)
  /\ Begin(c, "thread", [NoCall EXCEPT !.pc = "thread", !.user = u, !.m = m])
  /\ UNCHANGED <<tables, search, workload, history>>

\* thread.Create: the parent is live and has no thread yet (unique index).
StoreThread(c, t) ==
  LET m == call[c].m IN
  /\ At(c, "thread")
  /\ t \in Draw({n \in ThreadIds : thread[n] = NoThread})
  /\ IF Found(m) /\ \A o \in ThreadIds : thread[o].parent # m
     THEN /\ thread' = [thread EXCEPT ![t] = [NoThread EXCEPT !.at = "live", !.parent = m,
                                                             !.chan = message[m].chan]]
          /\ Goto(c, "announce_other")
     ELSE UNCHANGED thread /\ Return(c)
  /\ UNCHANGED <<accounts, message, reactions, dm, search, workload, history>>

\* thread.Update locks the row: a locked thread takes only its unlocking.
UpdateLocked(t, archived, locked) ==
  /\ thread[t].at = "live"
  /\ thread[t].locked => ~locked
  /\ thread' = [thread EXCEPT ![t].archived = archived, ![t].locked = locked]

\* The handler UpdateThread; an update that changes nothing is left out.
UpdateThread(t, archived, locked) ==
  /\ "update_thread" \in workload.kinds
  /\ <<archived, locked>> # <<thread[t].archived, thread[t].locked>>
  /\ UpdateLocked(t, archived, locked)
  /\ UNCHANGED <<accounts, message, reactions, dm, search, call, workload, history>>

AddReaction(c, u, m) ==
  /\ Found(m) /\ InChannel(m)
  /\ Begin(c, "react", [NoCall EXCEPT !.pc = "react", !.user = u, !.m = m])
  /\ UNCHANGED <<tables, search, workload, history>>

\* reaction.Add: the unique index decides.  The user and the message must have
\* a row (foreign keys); a message deleted since it was found still has one.
StoreReaction(c) ==
  LET row == <<call[c].m, call[c].user>> IN
  /\ At(c, "react")
  /\ IF row \in reactions \/ call[c].user \notin accounts \/ message[call[c].m].at = "erased"
     THEN Return(c) /\ UNCHANGED reactions
     ELSE Goto(c, "announce_other") /\ reactions' = reactions \cup {row}
  /\ UNCHANGED <<accounts, message, thread, dm, search, workload, history>>

\* reaction.Remove
DeleteReaction(u, m) ==
  /\ <<m, u>> \in reactions
  /\ reactions' = reactions \ {<<m, u>>}

\* RemoveReaction deletes the row without a look at the message.
RemoveReaction(u, m) ==
  /\ "react" \in workload.kinds
  /\ DeleteReaction(u, m)
  /\ UNCHANGED <<accounts, message, thread, dm, search, call, workload, history>>

\* ThreadCreate, ReactionAdd, DMChannelCreate
AnnounceOther(c) ==
  /\ At(c, "announce_other")
  /\ Return(c)
  /\ UNCHANGED <<tables, search, workload, history>>

-----------------------------------------------------------------------------
(* Direct-message channels *)

Between(u, v) == {d \in DMIds : dm[d].kind = "dm" /\ {u, v} \subseteq dm[d].users}

\* Variant: no look for an existing channel.
AlwaysNewDM(c, u, v) ==
  /\ Begin(c, "dm", [NoCall EXCEPT !.user = u, !.with = v, !.pc = "insert_dm"])
  /\ UNCHANGED <<tables, search, workload, history>>

\* CreateDM is a READ COMMITTED transaction: it looks for a channel of the two
CreateDM(c, u, v) ==
  /\ Begin(c, "dm", [NoCall EXCEPT !.user = u, !.with = v,
                       !.pc = IF Between(u, v) = {} THEN "insert_dm" ELSE "announce_other"])
  /\ UNCHANGED <<tables, search, workload, history>>

\* and inserts one.  Nobody can be a participant twice, and both have a row.
InsertDM(c, d) ==
  LET pair == {call[c].user, call[c].with} IN
  /\ At(c, "insert_dm")
  /\ d \in Draw({n \in DMIds : dm[n] = NoDM})
  /\ IF Cardinality(pair) = 2 /\ pair \subseteq accounts
     THEN /\ dm' = [dm EXCEPT ![d] = [kind |-> "dm", owner |-> None, users |-> pair]]
          /\ dmRaced' = IF \E o \in Calls \ {c} : At(o, "insert_dm") /\ {call[o].user, call[o].with} = pair
                        THEN dmRaced \cup {pair} ELSE dmRaced
          /\ Goto(c, "announce_other")
     ELSE Return(c) /\ UNCHANGED <<dm, dmRaced>>
  /\ UNCHANGED <<accounts, message, thread, reactions, search, workload, told, crossed, silent, skewed>>

\* CreateGroupDM: the owner and the recipients, without repetition.
CreateGroupDM(u, others, d) ==
  /\ "group" \in workload.kinds
  /\ d \in Draw({n \in DMIds : dm[n] = NoDM})
  /\ Cardinality(others \cup {u}) <= MaxGroup
  /\ others \cup {u} \subseteq accounts
  /\ dm' = [dm EXCEPT ![d] = [kind |-> "group", owner |-> u, users |-> others \cup {u}]]
  /\ UNCHANGED <<accounts, message, thread, reactions, search, call, workload, history>>

\* RemoveParticipant: the owner removes anyone, the others leave.
RemoveParticipant(c, u, d, v) ==
  /\ RequireParticipant(u, d) /\ dm[d].kind = "group"
  /\ v = u \/ dm[d].owner = u
  /\ Begin(c, "leave", [NoCall EXCEPT !.pc = "leave", !.user = u, !.chan = d, !.with = v])
  /\ UNCHANGED <<tables, search, workload, history>>

DeleteParticipant(c) ==
  /\ At(c, "leave")
  /\ dm' = [dm EXCEPT ![call[c].chan].users = @ \ {call[c].with}]
  /\ Return(c)
  /\ UNCHANGED <<accounts, message, thread, reactions, search, workload, history>>

-----------------------------------------------------------------------------
(* Accounts *)

\* DeleteWithTombstones (module Accounts) deletes the row of u and the schema
\* the rest: the messages of u, the threads under them, the reactions of u and
\* to those messages, the places of u in direct messages; messages of others
\* leave the deleted threads.  Nothing is announced and no document removed.
DeleteAccount(u) ==
  LET gone == {m \in MessageIds : message[m].author = u}
      lost == {t \in ThreadIds : thread[t].at = "live" /\ thread[t].parent \in gone}
      cut == {m \in MessageIds \ gone : message[m].thread \in lost} IN
  /\ "delete_account" \in workload.kinds
  /\ u \in accounts
  /\ accounts' = accounts \ {u}
  /\ message' = [m \in MessageIds |-> CASE m \in gone -> [message[m] EXCEPT !.at = "erased"]
                                        [] m \in cut -> [message[m] EXCEPT !.thread = None]
                                        [] OTHER -> message[m]]
  /\ thread' = [t \in ThreadIds |-> IF t \in lost THEN [thread[t] EXCEPT !.at = "erased"] ELSE thread[t]]
  /\ reactions' = {r \in reactions : r[1] \notin gone /\ r[2] # u}
  /\ dm' = [d \in DMIds |-> [dm[d] EXCEPT !.owner = IF @ = u THEN None ELSE @, !.users = @ \ {u}]]
  /\ crossed' = crossed \cup {m \in gone \cup cut : Holders(m) # {}}
  /\ silent' = silent \cup gone \cup cut
  /\ skewed' = skewed \cup cut
  /\ UNCHANGED <<search, call, workload, told, dmRaced>>

-----------------------------------------------------------------------------
(* The search index *)

\* What the collection may hold of a message once a request is carried out.
\* A document is created only once;
IndexMessage(doc, text) == {IF doc = None THEN text ELSE doc}
\* an upsert without the required fields may be refused;
UpsertMessage(doc, text) == {text, doc}
\* a document that is not there counts as deleted.
RemoveMessage == {None}

Carried(t) ==
  CASE t.op = "create" -> IndexMessage(index[t.m], t.text)
    [] t.op = "upsert" -> UpsertMessage(index[t.m], t.text)
    [] t.op = "delete" -> RemoveMessage

\* A request of goroutine g reaches Typesense, or does not; do sends it once
\* more when it learns nothing or a server error.
IndexRequest(g, doc, reaches, answered) ==
  LET t == tasks[g]
      over == answered \/ t.retry IN
  /\ t # NoTask
  /\ answered => reaches
  /\ IF reaches THEN doc \in Carried(t) ELSE doc = index[t.m]
  /\ index' = [index EXCEPT ![t.m] = doc]
  /\ tasks' = [tasks EXCEPT ![g] = IF over THEN NoTask ELSE [t EXCEPT !.retry = TRUE]]
  /\ skewed' = IF (over /\ doc # t.text) \/ \E h \in Goroutines \ {g} : tasks[h].m = t.m
               THEN skewed \cup {t.m} ELSE skewed
  /\ UNCHANGED <<tables, call, workload, told, crossed, silent, dmRaced>>

-----------------------------------------------------------------------------
PostRequests(c, u) ==
  \E reply \in {None} \cup {m \in workload.messages : "reply" \in workload.kinds} :
    \/ \E ch \in Channels : CreateMessage(c, u, ch, reply)
    \/ \E t \in ThreadIds : CreateThreadMessage(c, u, t, reply)
    \/ \E d \in DMIds : SendMessage(c, u, d, reply)

MessageRequests(c, u) ==
  \E m \in workload.messages :
    \/ EditMessage(c, u, m) \/ DeleteMessage(c, u, m)
    \/ PinMessage(c, u, m) \/ UnpinMessage(c, u, m)
    \/ CreateThread(c, u, m) \/ AddReaction(c, u, m)

CreateDMChannel(c, u) ==
  \/ \E v \in Users : CreateDM(c, u, v)
  \/ \E others \in SUBSET Users, d \in DMIds : CreateGroupDM(u, others, d)

Continue(c) ==
  \/ \E m \in MessageIds, text \in workload.texts : StoreMessage(c, m, text)
  \/ \E ok \in BOOLEAN : LinkToMessage(c, ok) \/ ListParticipants(c, ok)
  \/ \E text \in workload.texts : UpdateMessage(c, text)
  \/ \E t \in ThreadIds : StoreThread(c, t)
  \/ \E d \in DMIds : InsertDM(c, d)
  \/ Announce(c) \/ Abandon(c) \/ Pin(c) \/ Unpin(c) \/ Reload(c)
  \/ SoftDelete(c) \/ AnnounceDelete(c) \/ StoreReaction(c) \/ AnnounceOther(c)
  \/ DeleteParticipant(c)

Next ==
  \/ \E c \in Calls, u \in workload.users :
       \/ PostRequests(c, u) \/ MessageRequests(c, u) \/ CreateDMChannel(c, u)
       \/ \E d \in DMIds, v \in Users : RemoveParticipant(c, u, d, v)
  \/ \E c \in Calls : Continue(c)
  \/ \E u \in Users : DeleteAccount(u) \/ \E m \in workload.messages : RemoveReaction(u, m)
  \/ \E t \in ThreadIds, archived, locked \in BOOLEAN : UpdateThread(t, archived, locked)
  \/ \E g \in Goroutines, doc \in Texts \cup {None}, reaches, answered \in BOOLEAN :
       IndexRequest(g, doc, reaches, answered)

Spec == Init /\ [][Next]_vars

-----------------------------------------------------------------------------
(* Properties *)

Message == [at : {"none", "live", "deleted", "erased"}, chan : Channels \cup DMIds \cup {None},
            author : Users \cup {None}, thread : ThreadIds \cup {None},
            text : Texts \cup {None}, pinned : BOOLEAN]
Thread == [at : {"none", "live", "erased"}, parent : MessageIds \cup {None},
           chan : Channels \cup {None}, archived : BOOLEAN, locked : BOOLEAN]
DM == [kind : {"none", "dm", "group"}, owner : Users \cup {None}, users : SUBSET Users]
Task == [op : {"none", "create", "upsert", "delete"}, m : MessageIds \cup {None},
         text : Texts \cup {None}, retry : BOOLEAN]

Kinds == {"none", "post", "threadpost", "send", "edit", "pin", "unpin", "delete",
          "thread", "react", "dm", "leave"}
Phases == {"idle", "store", "link", "audience", "announce", "update", "pin", "unpin", "reload",
           "delete", "announce_delete", "thread", "react", "announce_other", "insert_dm", "leave"}
Call == [kind : Kinds, pc : Phases, user : Users \cup {None}, m : MessageIds \cup {None},
         chan : Channels \cup DMIds \cup {None}, thread : ThreadIds \cup {None},
         with : MessageIds \cup Users \cup {None}, copy : Message]

TypeOK ==
  /\ accounts \subseteq Users
  /\ message \in [MessageIds -> Message]
  /\ thread \in [ThreadIds -> Thread]
  /\ reactions \subseteq MessageIds \X Users
  /\ dm \in [DMIds -> DM]
  /\ index \in [MessageIds -> Texts \cup {None}]
  /\ tasks \in [Goroutines -> Task]
  /\ call \in [Calls -> Call]
  /\ workload \in Workloads
  /\ told \in [MessageIds -> Message]
  /\ crossed \cup silent \cup skewed \subseteq MessageIds
  /\ dmRaced \subseteq SUBSET Users

\* A deleted message does not come back: a handler that found it before the
\* deletion neither edits, pins nor revives it (Update, Pin, Unpin, SoftDelete);
\* at most it goes for good with its author's account.
DeletedStaysDeleted ==
  [][\A m \in MessageIds : Deleted(m) =>
       /\ message'[m].at \in {"deleted", "erased"}
       /\ message'[m].text = message[m].text /\ message'[m].pinned = message[m].pinned]_vars

\* People who were told that a message is deleted hear of it again only if a
\* handler held an unannounced copy of it when its row changed (a post, edit or
\* pin overtaken by the deletion); Reload is what keeps the other edits quiet.
DeletionToldLast ==
  [][\A m \in MessageIds :
       told[m].at = "deleted" /\ told'[m].at # "deleted" => m \in crossed]_vars

\* Once no request on a message is under way, the people of its channel were
\* last told what is stored, unless a write overtook the announcement of an
\* older copy, or its last change was announced to none of them: the handler
\* ended between its write and its event, it was an edit or a deletion of a
\* direct message, or the deletion of an account removed the message or cut it
\* from its thread.
ClientsSeeStored ==
  \A m \in MessageIds :
    (\A c \in Calls : call[c].m # m) =>
      \/ told[m] = message[m]
      \/ message[m].at \in {"deleted", "erased"} /\ told[m].at = "deleted"
      \/ m \in crossed \cup silent

\* Once no request and no index task of a message is under way, its document
\* is there with the stored text, or gone with the message, unless a task
\* failed, was refused, crossed another or was never started because its
\* handler ended early; a message of a thread or a direct message, not indexed
\* when made, may have none.  The document of a message that went with its
\* author's account stays behind.
SearchFollowsMessages ==
  \A m \in MessageIds :
    /\ workload.search
    /\ \A c \in Calls : call[c].m # m
    /\ \A g \in Goroutines : tasks[g].m # m
    /\ m \notin crossed \cup skewed
    /\ message[m].at # "erased"
    => \/ Deleted(m) /\ index[m] = None
       \/ Found(m) /\ index[m] = message[m].text
       \/ index[m] = None /\ (message[m].thread # None \/ ~InChannel(m))

\* Two users have two one-to-one channels only if two CreateDM transactions
\* had both found none before either committed.
SecondDMRaced ==
  \A u, v \in Users : u # v /\ Cardinality(Between(u, v)) > 1 => {u, v} \in dmRaced
=============================================================================
