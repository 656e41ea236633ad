---------------------------- MODULE MessagesProofs ---------------------------
(***************************************************************************)
(* Proofs about Messages, for every set of users, messages, threads,       *)
(* channels, calls and index goroutines and every mix of requests.         *)
(***************************************************************************)
EXTENDS Messages, FiniteSetTheorems, TLAPS

\* The phases that have written a row nobody has been told of yet; those that
\* hold a copy of it are Holders.
Untold == {"link", "audience", "reload", "announce", "announce_delete"}

\* The phases of a call that works on a stored message.
OnMessage == Untold \cup {"update", "pin", "unpin", "delete", "thread", "react"}

\* Deleted, or gone with its author's account
Gone(m) == message[m].at \in {"deleted", "erased"}

\* What a call carries between its steps.
Carries(c) ==
  LET r == call[c] IN
  /\ r.pc = "idle" => r = NoCall
  /\ r.pc = "store" =>
       /\ r.m = None /\ r.user \in Users /\ r.with \in MessageIds \cup {None}
       /\ \/ r.kind = "post" /\ r.thread = None
          \/ r.kind = "threadpost" /\ r.thread \in ThreadIds
          \/ r.kind = "send" /\ r.chan \in DMIds /\ r.thread = None
  /\ r.pc \in OnMessage => r.m \in MessageIds
  /\ r.m # None => message[r.m].at # "none"
  /\ r.pc \in {"link", "audience", "announce"} => r.copy.at = "live"
  /\ r.pc = "link" => r.kind \in {"post", "threadpost"}
  /\ r.pc \in {"audience", "leave"} => r.kind \in {"send", "leave"}
  /\ r.pc = "update" => r.kind = "edit"
  /\ r.pc \in {"delete", "announce_delete"} => r.kind = "delete"
  /\ r.pc = "reload" => r.kind \in {"edit", "pin", "unpin"}
  /\ r.pc \in {"pin", "unpin"} => r.kind \in {"pin", "unpin"}
  /\ r.pc = "thread" => message[r.m].chan \in Channels
  /\ r.pc = "react" => r.user \in Users
  /\ r.pc = "insert_dm" => r.user \in Users /\ r.with \in Users
  /\ r.pc = "leave" => r.chan \in DMIds /\ dm[r.chan].kind = "group"
  /\ r.pc = "announce_delete" => Gone(r.m)

CallsCarry == \A c \in Calls : Carries(c)

\* A message that was never stored has left no trace; a task is about one that was.
RowsOwned ==
  /\ \A m \in MessageIds : message[m].at = "none" =>
       message[m] = NoMessage /\ told[m] = NoMessage /\ index[m] = None
  /\ \A g \in Goroutines : tasks[g] # NoTask =>
       /\ tasks[g].m \in MessageIds /\ tasks[g].op # "none"
       /\ message[tasks[g].m].at # "none"

Sound == TypeOK /\ CallsCarry /\ RowsOwned

\* A call with m in one of these phases.
Some(m, pcs) == \E c \in Calls : call[c].m = m /\ call[c].pc \in pcs

\* While no write overtook an announcement, the copies held are what is
\* stored, what is not told yet is on record or has a call that will tell it,
\* and a deletion was told of messages only that are gone.
ToldOf(m) ==
  m \notin crossed =>
    /\ \A c \in Calls : call[c].m = m /\ call[c].pc \in {"link", "audience", "announce"} =>
         call[c].copy = message[m]
    /\ Found(m) => \/ told[m] = message[m]
                   \/ m \in silent
                   \/ Some(m, {"link", "audience", "reload", "announce"})
    /\ Gone(m) => told[m].at = "deleted" \/ m \in silent \/ Some(m, {"announce_delete"})
    /\ told[m].at = "deleted" => Gone(m)

\* Call c will start an index task for what m is now.
WillIndex(c, m) ==
  /\ call[c].m = m
  /\ \/ Found(m) /\ call[c].kind = "post" /\ call[c].pc \in {"link", "announce"}
     \/ Found(m) /\ call[c].kind = "edit" /\ call[c].pc \in {"reload", "announce"}
     \/ Gone(m) /\ call[c].pc = "announce_delete"

\* What the collection should hold of m.
Wanted(m) == IF Found(m) THEN message[m].text ELSE None

\* The document of m is settled.
Settled(m) ==
  \/ Deleted(m) /\ index[m] = None
  \/ Found(m) /\ index[m] = message[m].text
  \/ index[m] = None /\ (message[m].thread # None \/ ~InChannel(m))

\* Of a message nothing went wrong with, a call will start the task, a task
\* carries what is wanted, or the document is settled and nothing is under way.
IndexOf(m) ==
  workload.search /\ m \notin crossed \cup skewed /\ message[m].at # "erased" =>
    \/ \E c \in Calls : WillIndex(c, m)
    \/ \E g \in Goroutines : tasks[g].m = m /\ tasks[g].text = Wanted(m)
    \/ (\A g \in Goroutines : tasks[g].m # m) /\ Settled(m)

\* What holds of every message between its write, its events and its document.
StoryInv == \A m \in MessageIds : ToldOf(m) /\ IndexOf(m)

\* Without a race a pair has at most one channel, and none while a CreateDM
\* of the two is past its look.
PairInv ==
  \A u, v \in Users : u # v /\ {u, v} \notin dmRaced =>
    /\ \A d, e \in Between(u, v) : d = e
    /\ \A c \in Calls : At(c, "insert_dm") /\ {call[c].user, call[c].with} = {u, v} =>
         Between(u, v) = {}
-----------------------------------------------------------------------------
(* Calls. *)

\* Only call c moves, to something a call may be.
Moves(c) == call' \in [Calls -> Call] /\ \A d \in Calls : d # c => call'[d] = call[d]

LEMMA NoRows ==
  /\ NoMessage \in Message /\ NoMessage.at = "none" /\ NoMessage.thread = None
  /\ NoMessage.chan = None
  /\ NoThread \in Thread /\ NoDM \in DM /\ NoDM.users = {} /\ NoDM.kind = "none"
  /\ NoCall \in Call /\ NoCall.pc = "idle" /\ NoCall.kind = "none" /\ NoCall.m = None
  /\ NoMessage.author = None
  /\ NoTask \in Task /\ NoTask.m = None
<1>1. NoMessage \in Message /\ NoMessage.at = "none" /\ NoMessage.thread = None
      /\ NoMessage.chan = None /\ NoMessage.author = None
  BY DEF NoMessage, Message
<1>2. NoCall \in Call /\ NoCall.pc = "idle" /\ NoCall.kind = "none" /\ NoCall.m = None
  BY <1>1 DEF NoCall, Call, Kinds, Phases
<1>3. NoThread \in Thread /\ NoDM \in DM /\ NoDM.users = {} /\ NoDM.kind = "none"
  BY DEF NoThread, Thread, NoDM, DM
<1>4. NoTask \in Task /\ NoTask.m = None
  BY DEF NoTask, Task
<1>5. QED
  BY <1>1, <1>2, <1>3, <1>4

LEMMA BeginMoves ==
  ASSUME TypeOK, NEW c \in Calls, NEW kind \in Kinds, NEW r \in Call, Begin(c, kind, r)
  PROVE  /\ Moves(c) /\ call[c].pc = "idle" /\ kind \in workload.kinds
         /\ call'[c].kind = kind
         /\ call'[c].pc = r.pc /\ call'[c].user = r.user /\ call'[c].m = r.m
         /\ call'[c].chan = r.chan /\ call'[c].thread = r.thread /\ call'[c].with = r.with
         /\ call'[c].copy = r.copy
BY DEF Begin, At, TypeOK, Call, Moves

LEMMA GotoMoves ==
  ASSUME TypeOK, NEW c \in Calls, NEW pc \in Phases, Goto(c, pc)
  PROVE  /\ Moves(c) /\ call'[c].kind = call[c].kind
         /\ call'[c].pc = pc /\ call'[c].user = call[c].user /\ call'[c].m = call[c].m
         /\ call'[c].chan = call[c].chan /\ call'[c].thread = call[c].thread
         /\ call'[c].with = call[c].with /\ call'[c].copy = call[c].copy
<1>1. call[c] \in Call
  BY DEF TypeOK
<1>2. Moves(c)
  BY <1>1 DEF Goto, TypeOK, Call, Moves
<1>3. call'[c] = [call[c] EXCEPT !.pc = pc]
  BY DEF Goto, TypeOK
<1>4. QED
  BY <1>1, <1>2, <1>3 DEF Call

LEMMA ReturnMoves ==
  ASSUME TypeOK, NEW c \in Calls, Return(c)
  PROVE  Moves(c) /\ call'[c] = NoCall
BY NoRows DEF Return, TypeOK, Moves

\* A call that answered carries nothing.
LEMMA NoCallCarries ==
  ASSUME NEW c \in Calls, call'[c] = NoCall
  PROVE  Carries(c)'
BY DEF Carries, NoCall, Untold, OnMessage

\* Rows keep their channel, deleted ones do not come back and are not written,
\* and a group stays one.
Monotone ==
  /\ \A m \in MessageIds : message[m].at # "none" =>
       message'[m].at # "none" /\ message'[m].chan = message[m].chan
  /\ \A m \in MessageIds : Gone(m) =>
       /\ Gone(m)' /\ message'[m].text = message[m].text
       /\ message'[m].pinned = message[m].pinned
  /\ \A d \in DMIds : dm[d].kind = "group" => dm'[d].kind = "group"

LEMMA OthersCarry ==
  ASSUME TypeOK, CallsCarry, Monotone, NEW c \in Calls, Moves(c), Carries(c)'
  PROVE  CallsCarry'
<1>1. SUFFICES ASSUME NEW d \in Calls, d # c PROVE Carries(d)'
  BY DEF CallsCarry
<1>2. call'[d] = call[d] /\ call[d] \in Call /\ Carries(d)
  BY <1>1 DEF Moves, CallsCarry, TypeOK
<1>3. call[d].m # None => call[d].m \in MessageIds
  BY <1>2 DEF Call
<1>4. call[d].pc \in OnMessage => call[d].m \in MessageIds
  BY <1>2 DEF Carries
<1>5. call[d].pc \in {"thread", "announce_delete"} =>
        call[d].m \in MessageIds /\ call[d].m # None
  BY <1>4, MessagesAssumption DEF OnMessage, Untold
<1>6. QED
  BY <1>2, <1>3, <1>4, <1>5 DEF Carries, Monotone
\* A request arrives: nothing but its call changes, and what its first look
\* found is what the call carries.
Arrives(c) ==
  /\ Moves(c) /\ Carries(c)'
  /\ call[c].pc = "idle" /\ call'[c].pc \notin Untold /\ call'[c].pc # "idle"
  /\ call'[c].pc = "insert_dm" => Between(call'[c].user, call'[c].with) = {}
  /\ UNCHANGED <<tables, search, workload, history>>

LEMMA PostsArrive ==
  ASSUME Sound, NEW c \in Calls, NEW u \in workload.users
  PROVE  PostRequests(c, u) => Arrives(c)
<1>0. u \in Users /\ workload.messages \subseteq MessageIds
  BY MessagesAssumption DEF Sound, TypeOK
<1>1. ASSUME NEW reply \in MessageIds \cup {None}, NEW ch \in Channels,
             CreateMessage(c, u, ch, reply)
      PROVE  Arrives(c)
  <2> DEFINE r == [NoCall EXCEPT !.pc = "store", !.user = u, !.chan = ch, !.with = reply]
  <2>1. /\ r \in Call /\ r.pc = "store" /\ r.user = u /\ r.chan = ch /\ r.with = reply
        /\ r.m = None /\ r.thread = None
    BY <1>0, NoRows DEF NoCall, Call, Phases
  <2>2. Begin(c, "post", r) /\ UNCHANGED <<tables, search, workload, history>>
    BY <1>1 DEF CreateMessage
  <2> HIDE DEF r
  <2>3. /\ Moves(c) /\ call[c].pc = "idle" /\ call'[c].kind = "post"
        /\ call'[c].pc = r.pc /\ call'[c].user = r.user /\ call'[c].m = r.m
        /\ call'[c].chan = r.chan /\ call'[c].thread = r.thread /\ call'[c].with = r.with
    BY <2>1, <2>2, BeginMoves DEF Sound, Kinds
  <2>4. Carries(c)'
    BY <1>0, <2>1, <2>2, <2>3 DEF Carries, OnMessage, Untold, tables
  <2>5. QED
    BY <2>1, <2>2, <2>3, <2>4 DEF Arrives, Untold
<1>2. ASSUME NEW reply \in MessageIds \cup {None}, NEW t \in ThreadIds,
             CreateThreadMessage(c, u, t, reply)
      PROVE  Arrives(c)
  <2>0. thread[t] \in Thread
    BY DEF Sound, TypeOK
  <2> DEFINE r == [NoCall EXCEPT !.pc = "store", !.user = u, !.chan = thread[t].chan,
                                 !.thread = t, !.with = reply]
  <2>1. /\ r \in Call /\ r.pc = "store" /\ r.user = u /\ r.with = reply
        /\ r.m = None /\ r.thread = t
    <3>1. thread[t].chan \in Channels \cup DMIds \cup {None}
      BY <2>0 DEF Thread
    <3>2. QED
      BY <1>0, <3>1, NoRows DEF NoCall, Call, Phases
  <2>2. Begin(c, "threadpost", r) /\ UNCHANGED <<tables, search, workload, history>>
    BY <1>2 DEF CreateThreadMessage
  <2> HIDE DEF r
  <2>3. /\ Moves(c) /\ call[c].pc = "idle" /\ call'[c].kind = "threadpost"
        /\ call'[c].pc = r.pc /\ call'[c].user = r.user /\ call'[c].m = r.m
        /\ call'[c].thread = r.thread /\ call'[c].with = r.with
    BY <2>1, <2>2, BeginMoves DEF Sound, Kinds
  <2>4. Carries(c)'
    BY <1>0, <2>1, <2>2, <2>3 DEF Carries, OnMessage, Untold, tables
  <2>5. QED
    BY <2>1, <2>2, <2>3, <2>4 DEF Arrives, Untold
<1>3. ASSUME NEW reply \in MessageIds \cup {None}, NEW d \in DMIds,
             SendMessage(c, u, d, reply)
      PROVE  Arrives(c)
  <2> DEFINE r == [NoCall EXCEPT !.pc = "store", !.user = u, !.chan = d, !.with = reply]
  <2>1. /\ r \in Call /\ r.pc = "store" /\ r.user = u /\ r.chan = d /\ r.with = reply
        /\ r.m = None /\ r.thread = None
    BY <1>0, NoRows DEF NoCall, Call, Phases
  <2>2. Begin(c, "send", r) /\ UNCHANGED <<tables, search, workload, history>>
    BY <1>3 DEF SendMessage
  <2> HIDE DEF r
  <2>3. /\ Moves(c) /\ call[c].pc = "idle" /\ call'[c].kind = "send"
        /\ call'[c].pc = r.pc /\ call'[c].user = r.user /\ call'[c].m = r.m
        /\ call'[c].chan = r.chan /\ call'[c].thread = r.thread /\ call'[c].with = r.with
    BY <2>1, <2>2, BeginMoves DEF Sound, Kinds
  <2>4. Carries(c)'
    BY <1>0, <2>1, <2>2, <2>3 DEF Carries, OnMessage, Untold, tables
  <2>5. QED
    BY <2>1, <2>2, <2>3, <2>4 DEF Arrives, Untold
<1>4. QED
  BY <1>0, <1>1, <1>2, <1>3 DEF PostRequests
\* The call of a handler that looks its message up first.
Looked(pc, u, m) == [NoCall EXCEPT !.pc = pc, !.user = u, !.m = m]

\* These handlers all arrive alike.
LEMMA LookArrives ==
  ASSUME Sound, NEW c \in Calls, NEW u \in Users, NEW m \in MessageIds, Found(m),
         NEW kind \in Kinds, NEW pc \in {"update", "pin", "unpin", "delete", "thread", "react"},
         pc = "update" => kind = "edit",
         pc = "delete" => kind = "delete",
         pc \in {"pin", "unpin"} => kind \in {"pin", "unpin"},
         pc = "thread" => InChannel(m),
         Begin(c, kind, Looked(pc, u, m)),
         UNCHANGED <<tables, search, workload, history>>
  PROVE  Arrives(c)
<1> DEFINE r == [NoCall EXCEPT !.pc = pc, !.user = u, !.m = m]
<1>0. m # None /\ message[m].at = "live"
  BY MessagesAssumption DEF Found
<1>1. r \in Call /\ r.pc = pc /\ r.user = u /\ r.m = m
  BY NoRows DEF NoCall, Call, Phases
<1>2. Begin(c, kind, r)
  BY DEF Looked
<1> HIDE DEF r
<1>3. /\ Moves(c) /\ call[c].pc = "idle" /\ call'[c].kind = kind
      /\ call'[c].pc = r.pc /\ call'[c].user = r.user /\ call'[c].m = r.m
     
  BY <1>1, <1>2, BeginMoves DEF Sound
<1>4. message' = message
  BY DEF tables
<1>5. Carries(c)'
  BY <1>0, <1>1, <1>3, <1>4 DEF Carries, OnMessage, Untold, InChannel
<1>6. QED
  BY <1>1, <1>3, <1>5 DEF Arrives, Untold

LEMMA MessageRequestsArrive ==
  ASSUME Sound, NEW c \in Calls, NEW u \in workload.users
  PROVE  MessageRequests(c, u) => Arrives(c)
<1>0. u \in Users /\ workload.messages \subseteq MessageIds
  BY MessagesAssumption DEF Sound, TypeOK
<1>1. SUFFICES ASSUME NEW m \in MessageIds,
                      \/ EditMessage(c, u, m) \/ DeleteMessage(c, u, m)
                      \/ PinMessage(c, u, m) \/ UnpinMessage(c, u, m)
                      \/ CreateThread(c, u, m) \/ AddReaction(c, u, m)
               PROVE  Arrives(c)
  BY <1>0 DEF MessageRequests
<1> USE <1>0 DEF Kinds
<1>2. CASE EditMessage(c, u, m)
  <2>1. /\ Begin(c, "edit", Looked("update", u, m)) /\ Found(m)
        /\ UNCHANGED <<tables, search, workload, history>>
    BY <1>2 DEF EditMessage, Looked
  <2>2. QED
    BY <2>1, LookArrives
<1>3. CASE DeleteMessage(c, u, m)
  <2>1. /\ Begin(c, "delete", Looked("delete", u, m)) /\ Found(m)
        /\ UNCHANGED <<tables, search, workload, history>>
    BY <1>3 DEF DeleteMessage, Looked
  <2>2. QED
    BY <2>1, LookArrives
<1>4. CASE PinMessage(c, u, m)
  <2>1. /\ Begin(c, "pin", Looked("pin", u, m)) /\ Found(m)
        /\ UNCHANGED <<tables, search, workload, history>>
    BY <1>4 DEF PinMessage, Looked
  <2>2. QED
    BY <2>1, LookArrives
<1>5. CASE UnpinMessage(c, u, m)
  <2>1. /\ Begin(c, "unpin", Looked("unpin", u, m)) /\ Found(m)
        /\ UNCHANGED <<tables, search, workload, history>>
    BY <1>5 DEF UnpinMessage, Looked
  <2>2. QED
    BY <2>1, LookArrives
<1>6. CASE CreateThread(c, u, m)
  <2>1. /\ Begin(c, "thread", Looked("thread", u, m)) /\ Found(m)
        /\ UNCHANGED <<tables, search, workload, history>>
    BY <1>6 DEF CreateThread, Looked
  <2>2. InChannel(m)
    BY <1>6 DEF CreateThread
  <2>3. QED
    BY <2>1, <2>2, LookArrives
<1>7. CASE AddReaction(c, u, m)
  <2>1. /\ Begin(c, "react", Looked("react", u, m)) /\ Found(m)
        /\ UNCHANGED <<tables, search, workload, history>>
    BY <1>7 DEF AddReaction, Looked
  <2>2. QED
    BY <2>1, LookArrives
<1>8. QED
  BY <1>1, <1>2, <1>3, <1>4, <1>5, <1>6, <1>7

LEMMA DMRequestsArrive ==
  ASSUME Sound, NEW c \in Calls, NEW u \in workload.users, NEW v \in Users
  PROVE  CreateDM(c, u, v) \/ (\E d \in DMIds : RemoveParticipant(c, u, d, v)) => Arrives(c)
<1>0. u \in Users
  BY MessagesAssumption DEF Sound, TypeOK
<1>1. ASSUME CreateDM(c, u, v) PROVE Arrives(c)
  <2>0. PICK pc \in {"insert_dm", "announce_other"} :
          /\ pc = IF Between(u, v) = {} THEN "insert_dm" ELSE "announce_other"
          /\ pc = "insert_dm" => Between(u, v) = {}
    OBVIOUS
  <2> DEFINE r == [NoCall EXCEPT !.user = u, !.with = v, !.pc = pc]
  <2>1. /\ r \in Call /\ r.pc = pc /\ r.user = u /\ r.with = v /\ r.m = None
    BY <1>0, NoRows DEF NoCall, Call, Phases
  <2>2. Begin(c, "dm", r) /\ UNCHANGED <<tables, search, workload, history>>
    BY <1>1, <2>0 DEF CreateDM
  <2> HIDE DEF r
  <2>3. /\ Moves(c) /\ call[c].pc = "idle" /\ call'[c].kind = "dm"
        /\ call'[c].pc = r.pc /\ call'[c].user = r.user /\ call'[c].m = r.m
        /\ call'[c].with = r.with
    BY <2>1, <2>2, BeginMoves DEF Sound, Kinds
  <2>4. Carries(c)'
    BY <1>0, <2>0, <2>1, <2>3 DEF Carries, OnMessage, Untold
  <2>5. QED
    BY <2>0, <2>1, <2>2, <2>3, <2>4 DEF Arrives, Untold
<1>2. ASSUME NEW d \in DMIds, RemoveParticipant(c, u, d, v) PROVE Arrives(c)
  <2> DEFINE r == [NoCall EXCEPT !.pc = "leave", !.user = u, !.chan = d, !.with = v]
  <2>1. /\ r \in Call /\ r.pc = "leave" /\ r.user = u /\ r.with = v /\ r.m = None
        /\ r.chan = d
    BY <1>0, NoRows DEF NoCall, Call, Phases
  <2>2. /\ Begin(c, "leave", r) /\ UNCHANGED <<tables, search, workload, history>>
        /\ dm[d].kind = "group"
    BY <1>2 DEF RemoveParticipant
  <2> HIDE DEF r
  <2>3. /\ Moves(c) /\ call[c].pc = "idle" /\ call'[c].kind = "leave"
        /\ call'[c].pc = r.pc /\ call'[c].user = r.user /\ call'[c].m = r.m
        /\ call'[c].with = r.with /\ call'[c].chan = r.chan
    BY <2>1, <2>2, BeginMoves DEF Sound, Kinds
  <2>4. dm' = dm
    BY <2>2 DEF tables
  <2>5. Carries(c)'
    BY <1>0, <2>1, <2>2, <2>3, <2>4 DEF Carries, OnMessage, Untold
  <2>6. QED
    BY <2>1, <2>2, <2>3, <2>5 DEF Arrives, Untold
<1>3. QED
  BY <1>1, <1>2
-----------------------------------------------------------------------------
(* The steps of a call, as what they do to one message m. *)

aboutMessages == <<message, index, tasks, workload, told, crossed, silent, skewed>>

\* A step that concerns no message, or fails.
Quietly(c) ==
  /\ Moves(c) /\ Carries(c)'
  /\ call[c].pc \notin Untold /\ call'[c].pc \notin Untold
  /\ UNCHANGED aboutMessages

\* StoreMessage
Stores(c, m) ==
  LET r == call[c] IN
  /\ Moves(c) /\ Carries(c)'
  /\ r.pc = "store" /\ message[m] = NoMessage
  /\ call'[c].m = m /\ call'[c].kind = r.kind
  /\ call'[c].pc = IF r.kind = "send" THEN "audience" ELSE "link"
  /\ \E row \in Message :
       /\ row.at = "live" /\ row.thread = r.thread /\ row.chan = r.chan
       /\ message' = [message EXCEPT ![m] = row] /\ call'[c].copy = row
  /\ UNCHANGED <<accounts, thread, reactions, dm, search, workload, history>>

\* UpdateMessage, Pin, Unpin, SoftDelete on a message that is live
Writes(c, m) ==
  /\ Moves(c) /\ Carries(c)' /\ Found(m)
  /\ call[c].m = m /\ call'[c].m = m /\ call'[c].kind = call[c].kind
  /\ call[c].pc \notin Untold
  /\ \E row \in Message :
       /\ message' = [message EXCEPT ![m] = row]
       /\ row.chan = message[m].chan /\ row.thread = message[m].thread
       /\ \/ row.at = "deleted" /\ call'[c].pc = "announce_delete"
          \/ /\ row.at = "live" /\ call'[c].pc = "reload"
             /\ call[c].kind = "edit" \/ row.text = message[m].text
  /\ crossed' = IF Holders(m) \ {c} = {} THEN crossed ELSE crossed \cup {m}
  /\ UNCHANGED <<accounts, thread, reactions, dm, search, workload, told, silent, skewed, dmRaced>>

\* LinkToMessage, ListParticipants; Reload of a message that is live
Readies(c, m) ==
  /\ Moves(c) /\ Carries(c)'
  /\ call[c].m = m /\ call'[c].m = m /\ call'[c].kind = call[c].kind
  /\ call'[c].pc = "announce"
  /\ \/ call[c].pc \in {"link", "audience"} /\ call'[c].copy = call[c].copy
     \/ call[c].pc = "reload" /\ Found(m) /\ call'[c].copy = message[m]
  /\ UNCHANGED <<tables, search, workload, history>>

\* Reload of a message that is gone
Drops(c, m) ==
  /\ Moves(c) /\ call'[c] = NoCall
  /\ call[c].m = m /\ call[c].pc = "reload" /\ ~Found(m)
  /\ UNCHANGED <<tables, search, workload, history>>

\* LinkToMessage and ListParticipants that fail; Abandon after the write
Silences(c, m) ==
  /\ Moves(c) /\ call'[c] = NoCall
  /\ call[c].m = m /\ call[c].pc \in Untold
  /\ silent' = silent \cup {m}
  /\ skewed' = IF call[c].kind \in {"post", "edit", "delete"} THEN skewed \cup {m} ELSE skewed
  /\ UNCHANGED <<tables, search, workload, told, crossed, dmRaced>>

\* A goroutine starts with a request about m.
Starts(m, text) ==
  \E g \in Goroutines, t \in Task :
    /\ tasks[g] = NoTask /\ t.m = m /\ t.text = text /\ t.op # "none"
    /\ tasks' = [tasks EXCEPT ![g] = t]

\* Announce
Announces(c, m) ==
  /\ Moves(c) /\ call'[c] = NoCall
  /\ call[c].m = m /\ call[c].pc = "announce"
  /\ Tell(c, call[c].copy)
  /\ IF call[c].kind \in {"post", "edit"} /\ workload.search
     THEN Starts(m, call[c].copy.text) ELSE tasks' = tasks
  /\ UNCHANGED <<tables, index, workload, crossed, skewed, dmRaced>>

\* AnnounceDelete
AnnouncesDelete(c, m) ==
  /\ Moves(c) /\ call'[c] = NoCall
  /\ call[c].m = m /\ call[c].pc = "announce_delete"
  /\ \E row \in Message : row.at = "deleted" /\ Tell(c, row)
  /\ IF workload.search THEN Starts(m, None) ELSE tasks' = tasks
  /\ UNCHANGED <<tables, index, workload, crossed, skewed, dmRaced>>

\* The tables beside the messages
SideTyped ==
  /\ accounts \subseteq Users
  /\ thread \in [ThreadIds -> Thread] /\ reactions \subseteq MessageIds \X Users
  /\ dm \in [DMIds -> DM] /\ dmRaced \subseteq SUBSET Users

GroupsStay == \A d \in DMIds : dm[d].kind = "group" => dm'[d].kind = "group"

\* No channel of a pair is made or gains a user.
KeepsPairs ==
  /\ \A d \in DMIds : dm'[d].kind = "dm" => dm[d].kind = "dm" /\ dm'[d].users \subseteq dm[d].users
  /\ dmRaced' = dmRaced

\* InsertDM
Inserts(c, d) ==
  LET pair == {call[c].user, call[c].with} IN
  /\ call[c].pc = "insert_dm" /\ call'[c].pc = "announce_other" /\ dm[d] = NoDM
  /\ dm' = [dm EXCEPT ![d] = [kind |-> "dm", owner |-> None, users |-> pair]]
  /\ dmRaced' = IF \E o \in Calls \ {c} : At(o, "insert_dm") /\ {call[o].user, call[o].with} = pair
                THEN dmRaced \cup {pair} ELSE dmRaced

\* The channels and threads of a step with c
Beside(c) ==
  /\ SideTyped' /\ GroupsStay
  /\ \/ /\ KeepsPairs
        /\ call'[c].pc = "insert_dm" => Between(call'[c].user, call'[c].with) = {}
     \/ \E d \in DMIds : Inserts(c, d)

LEMMA SideUnchanged ==
  ASSUME Sound, NEW c \in Calls, UNCHANGED <<accounts, thread, reactions, dm, dmRaced>>,
         call'[c].pc = "insert_dm" => Between(call'[c].user, call'[c].with) = {}
  PROVE  Beside(c)
BY DEF Beside, SideTyped, GroupsStay, KeepsPairs, Sound, TypeOK

LEMMA SpawnStarts ==
  ASSUME Sound, NEW m \in MessageIds, NEW text \in Texts \cup {None},
         NEW op \in {"create", "upsert", "delete"}, Spawn(op, m, text)
  PROVE  IF workload.search THEN Starts(m, text) ELSE tasks' = tasks
<1>1. CASE workload.search
  <2>1. PICK g \in Draw({h \in Goroutines : tasks[h] = NoTask}) :
           tasks' = [tasks EXCEPT ![g] = [op |-> op, m |-> m, text |-> text, retry |-> FALSE]]
    BY <1>1 DEF Spawn
  <2>2. g \in Goroutines /\ tasks[g] = NoTask
    BY DEF Draw
  <2> DEFINE t == [op |-> op, m |-> m, text |-> text, retry |-> FALSE]
  <2>3. t \in Task /\ t.m = m /\ t.text = text /\ t.op # "none"
    BY DEF Task
  <2>4. QED
    BY <1>1, <2>1, <2>2, <2>3 DEF Starts
<1>2. CASE ~workload.search
  BY <1>2 DEF Spawn
<1>3. QED
  BY <1>1, <1>2

LEMMA StoreSteps ==
  ASSUME Sound, NEW c \in Calls, NEW m \in MessageIds, NEW text \in workload.texts
  PROVE  StoreMessage(c, m, text) => (Quietly(c) /\ Beside(c)) \/ Stores(c, m)
<1>1. SUFFICES ASSUME StoreMessage(c, m, text)
               PROVE  (Quietly(c) /\ Beside(c)) \/ Stores(c, m)
  OBVIOUS
<1>2. /\ call[c] \in Call /\ call[c].pc = "store" /\ Carries(c) /\ text \in Texts
      /\ message[m] = NoMessage
  BY <1>1, MessagesAssumption DEF Sound, TypeOK, CallsCarry, StoreMessage, At, Draw
<1>3. UNCHANGED <<accounts, thread, reactions, dm, search, workload, history>>
  BY <1>1 DEF StoreMessage
<1> DEFINE ok == /\ \/ call[c].with = None
                    \/ Found(call[c].with) /\ message[call[c].with].chan = call[c].chan
                 /\ call[c].user \in accounts
                 /\ call[c].thread # None => thread[call[c].thread].at = "live"
           row == [at |-> "live", chan |-> call[c].chan, author |-> call[c].user,
                   thread |-> call[c].thread, text |-> text, pinned |-> FALSE]
           pc == IF call[c].kind = "send" THEN "audience" ELSE "link"
<1>4. CASE ~ok
  <2>1. message' = message /\ Return(c)
    BY <1>1, <1>4 DEF StoreMessage
  <2>2. Moves(c) /\ call'[c] = NoCall
    BY <2>1, ReturnMoves DEF Sound
  <2>3. Quietly(c)
    BY <1>2, <1>3, <2>1, <2>2, NoRows, NoCallCarries
    DEF Quietly, Untold, aboutMessages, search, history
  <2>4. Beside(c)
    BY <1>3, <2>2, NoRows, SideUnchanged DEF history
  <2>5. QED
    BY <2>3, <2>4
<1>5. CASE ok
  <2>1. /\ message' = [message EXCEPT ![m] = row]
        /\ call' = [call EXCEPT ![c].m = m, ![c].copy = row, ![c].pc = pc]
    BY <1>1, <1>5 DEF StoreMessage
  <2>2. /\ row \in Message /\ row.at = "live" /\ row.thread = call[c].thread
        /\ row.chan = call[c].chan
    BY <1>2 DEF Call, Message
  <2>4. pc \in {"audience", "link"} /\ (pc = "audience" <=> call[c].kind = "send")
    OBVIOUS
  <2> HIDE DEF row, pc, ok
  <2>5. Moves(c)
    BY <1>2, <2>1, <2>2, <2>4 DEF Moves, Sound, TypeOK, Call, Phases
  <2>6. call'[c] = [call[c] EXCEPT !.m = m, !.copy = row, !.pc = pc]
    BY <2>1 DEF Sound, TypeOK
  <2>7. /\ call'[c].m = m /\ call'[c].copy = row /\ call'[c].pc = pc
        /\ call'[c].kind = call[c].kind
    BY <1>2, <2>6 DEF Call
  <2>8. message'[m] = row
    BY <2>1 DEF Sound, TypeOK
  <2>9. Carries(c)'
    <3>1. call[c].kind \in {"post", "threadpost", "send"}
      BY <1>2 DEF Carries
    <3>2. QED
      BY <1>2, <2>2, <2>4, <2>7, <2>8, <3>1 DEF Carries, OnMessage, Untold
  <2>10. QED
    BY <1>2, <1>3, <2>1, <2>2, <2>5, <2>7, <2>9 DEF Stores, pc
<1>6. QED
  BY <1>4, <1>5
\* A call with a message goes on with it.
LEMMA GotoCarries ==
  ASSUME Sound, NEW c \in Calls, NEW m \in MessageIds, call[c].m = m, call[c].pc # "store",
         NEW pc \in {"announce", "announce_delete", "announce_other", "reload"}, Goto(c, pc),
         pc = "announce" => call[c].pc \in {"link", "audience"},
         pc = "reload" => call[c].pc \in {"update", "pin", "unpin"},
         pc = "announce_delete" => call[c].pc = "delete" /\ Gone(m)',
         message'[m].at # "none"
  PROVE  /\ Moves(c) /\ Carries(c)' /\ call'[c].m = m /\ call'[c].kind = call[c].kind
         /\ call'[c].pc = pc /\ call'[c].copy = call[c].copy
<1>1. /\ Moves(c) /\ call'[c].m = m /\ call'[c].kind = call[c].kind
      /\ call'[c].pc = pc /\ call'[c].copy = call[c].copy
  BY GotoMoves DEF Sound, Phases
<1>2. Carries(c) /\ m # None
  BY MessagesAssumption DEF Sound, CallsCarry
<1>3. Carries(c)'
  BY <1>1, <1>2 DEF Carries, OnMessage, Untold
<1>4. QED
  BY <1>1, <1>3

\* A phase that works on a message has one, of which there is a row.
LEMMA CarriedMessage ==
  ASSUME Sound, NEW c \in Calls, call[c].pc \in OnMessage
  PROVE  call[c].m \in MessageIds /\ message[call[c].m].at # "none" /\ call[c].m # None
BY MessagesAssumption DEF Sound, CallsCarry, Carries

\* A handler that ends after its write
LEMMA SilenceStep ==
  ASSUME Sound, NEW c \in Calls, NEW m \in MessageIds, call[c].m = m, call[c].pc \in Untold,
         Silence(c), UNCHANGED <<tables, search, workload, told, crossed, dmRaced>>
  PROVE  Silences(c, m)
<1>1. Moves(c) /\ call'[c] = NoCall
  BY ReturnMoves DEF Silence, Sound
<1>2. QED
  BY <1>1 DEF Silence, Silences

LEMMA TellingSteps ==
  ASSUME Sound, NEW c \in Calls, NEW ok \in BOOLEAN, NEW m \in MessageIds, call[c].m = m
  PROVE  LinkToMessage(c, ok) \/ ListParticipants(c, ok) \/ Reload(c) \/ Announce(c)
           \/ AnnounceDelete(c) =>
         \/ Readies(c, m) \/ Drops(c, m) \/ Silences(c, m) \/ Announces(c, m)
         \/ AnnouncesDelete(c, m)
<1>0. Carries(c) /\ call[c] \in Call /\ TypeOK /\ m # None /\ message[m].at # "none"
  BY MessagesAssumption DEF Sound, TypeOK, CallsCarry, Carries
<1>1. ASSUME LinkToMessage(c, ok) \/ ListParticipants(c, ok)
      PROVE  Readies(c, m) \/ Silences(c, m)
  <2>0. /\ call[c].pc \in {"link", "audience"}
        /\ IF ok THEN Goto(c, "announce") /\ UNCHANGED <<silent, skewed>> ELSE Silence(c)
        /\ UNCHANGED <<tables, search, workload, told, crossed, dmRaced>>
    BY <1>1 DEF LinkToMessage, ListParticipants, At
  <2>1. CASE ok
    <3>1. Goto(c, "announce") /\ UNCHANGED <<tables, search, workload, history>>
      BY <2>0, <2>1 DEF history
    <3>2. message'[m].at # "none"
      BY <1>0, <3>1 DEF tables
    <3>3. /\ Moves(c) /\ Carries(c)' /\ call'[c].m = m /\ call'[c].kind = call[c].kind
          /\ call'[c].pc = "announce" /\ call'[c].copy = call[c].copy
      BY <2>0, <3>1, <3>2, GotoCarries
    <3>4. QED
      BY <2>0, <3>1, <3>3 DEF Readies
  <2>2. CASE ~ok
    BY <2>0, <2>2, SilenceStep DEF Untold
  <2>3. QED
    BY <2>1, <2>2
<1>3. ASSUME Reload(c) PROVE Readies(c, m) \/ Drops(c, m)
  <2>0. call[c].pc = "reload" /\ UNCHANGED <<tables, search, workload, history>>
    BY <1>3 DEF Reload, At
  <2>1. CASE Found(m)
    <3>1. call' = [call EXCEPT ![c].pc = "announce", ![c].copy = message[m]]
      BY <1>3, <2>1 DEF Reload
    <3>2. PICK row \in Message : row = message[m]
      BY <1>0 DEF TypeOK
    <3>3. call' = [call EXCEPT ![c].pc = "announce", ![c].copy = row]
      BY <3>1, <3>2
    <3>4. Moves(c)
      BY <1>0, <3>3 DEF Moves, TypeOK, Call, Phases
    <3>5. call'[c] = [call[c] EXCEPT !.pc = "announce", !.copy = row]
      BY <1>0, <3>3 DEF TypeOK
    <3>6. /\ call'[c].m = m /\ call'[c].copy = row /\ call'[c].pc = "announce"
          /\ call'[c].kind = call[c].kind
      BY <1>0, <3>5 DEF Call
    <3>7. Carries(c)'
      BY <1>0, <2>0, <2>1, <3>2, <3>6 DEF Carries, OnMessage, Untold, Found, tables
    <3>8. QED
      BY <2>0, <2>1, <3>2, <3>4, <3>6, <3>7 DEF Readies
  <2>2. CASE ~Found(m)
    <3>1. Return(c)
      BY <1>3, <2>2 DEF Reload
    <3>2. Moves(c) /\ call'[c] = NoCall
      BY <1>0, <3>1, ReturnMoves
    <3>3. QED
      BY <2>0, <2>2, <3>2 DEF Drops
  <2>3. QED
    BY <2>1, <2>2
<1>4. ASSUME Announce(c) PROVE Announces(c, m)
  <2>1. /\ call[c].pc = "announce" /\ Return(c) /\ Tell(c, call[c].copy)
        /\ UNCHANGED <<tables, index, workload, crossed, skewed, dmRaced>>
    BY <1>4 DEF Announce, At
  <2>2. Moves(c) /\ call'[c] = NoCall
    BY <1>0, <2>1, ReturnMoves
  <2>3. call[c].copy.text \in Texts \cup {None}
    BY <1>0 DEF Call, Message
  <2>4. IF call[c].kind \in {"post", "edit"} /\ workload.search
        THEN Starts(m, call[c].copy.text) ELSE tasks' = tasks
    <3>1. CASE call[c].kind = "post"
      <4>1. Spawn("create", m, call[c].copy.text)
        BY <1>4, <3>1 DEF Announce
      <4>2. QED
        BY <2>3, <3>1, <4>1, SpawnStarts
    <3>2. CASE call[c].kind = "edit"
      <4>1. Spawn("upsert", m, call[c].copy.text)
        BY <1>4, <3>2 DEF Announce
      <4>2. QED
        BY <2>3, <3>2, <4>1, SpawnStarts
    <3>3. CASE call[c].kind \notin {"post", "edit"}
      BY <1>4, <3>3 DEF Announce
    <3>4. QED
      BY <3>1, <3>2, <3>3
  <2>5. QED
    BY <2>1, <2>2, <2>4 DEF Announces
<1>5. ASSUME AnnounceDelete(c) PROVE AnnouncesDelete(c, m)
  <2> DEFINE row == [NoMessage EXCEPT !.at = "deleted"]
  <2>0. row \in Message /\ row.at = "deleted"
    BY DEF NoMessage, Message
  <2>1. /\ call[c].pc = "announce_delete" /\ Return(c) /\ Tell(c, row)
        /\ Spawn("delete", m, None)
        /\ UNCHANGED <<tables, index, workload, crossed, skewed, dmRaced>>
    BY <1>5 DEF AnnounceDelete, At
  <2> HIDE DEF row
  <2>2. Moves(c) /\ call'[c] = NoCall
    BY <1>0, <2>1, ReturnMoves
  <2>3. IF workload.search THEN Starts(m, None) ELSE tasks' = tasks
    BY <2>1, SpawnStarts
  <2>4. QED
    BY <2>0, <2>1, <2>2, <2>3 DEF AnnouncesDelete
<1>6. QED
  BY <1>1, <1>3, <1>4, <1>5

LEMMA WritingSteps ==
  ASSUME Sound, NEW c \in Calls, NEW m \in MessageIds, call[c].m = m
  PROVE  (\E text \in workload.texts : UpdateMessage(c, text)) \/ Pin(c) \/ Unpin(c)
           \/ SoftDelete(c) =>
           Writes(c, m) \/ (Quietly(c) /\ Beside(c))
<1>0. /\ Carries(c) /\ call[c] \in Call /\ TypeOK /\ m # None /\ message[m] \in Message
      /\ workload.texts \subseteq Texts /\ message[m].at # "none"
  BY MessagesAssumption DEF Sound, TypeOK, CallsCarry, Carries
<1> DEFINE Rest == UNCHANGED <<accounts, thread, reactions, dm, search, workload, told, silent,
                               skewed, dmRaced>>
           Before == {"update", "pin", "unpin", "delete"}
<1>1. ASSUME call[c].pc \in Before, ~Found(m) \/ UNCHANGED message, Return(c),
             UNCHANGED <<message, crossed>>, Rest
      PROVE  Quietly(c) /\ Beside(c)
  <2>1. Moves(c) /\ call'[c] = NoCall
    BY <1>0, <1>1, ReturnMoves
  <2>2. Quietly(c)
    BY <1>1, <2>1, NoCallCarries, NoRows DEF Quietly, Untold, aboutMessages, search
  <2>3. Beside(c)
    BY <1>1, <2>1, NoRows, SideUnchanged
  <2>4. QED
    BY <2>2, <2>3
<1>2. ASSUME call[c].pc \in Before, Found(m), NEW row \in Message, Write(c, m, row),
             row.chan = message[m].chan, row.thread = message[m].thread,
             NEW pc \in {"announce_delete", "reload"}, Goto(c, pc), Rest,
             pc = "reload" <=> call[c].pc # "delete",
             \/ row.at = "deleted" /\ pc = "announce_delete"
             \/ /\ row.at = "live" /\ pc = "reload"
                /\ call[c].kind = "edit" \/ row.text = message[m].text
      PROVE  Writes(c, m)
  <2>1. /\ message' = [message EXCEPT ![m] = row]
        /\ crossed' = IF Holders(m) \ {c} = {} THEN crossed ELSE crossed \cup {m}
    BY <1>2 DEF Write
  <2>2. message'[m].at # "none" /\ (pc = "announce_delete" => Gone(m)')
    BY <1>0, <1>2, <2>1 DEF TypeOK, Gone
  <2>3. call[c].pc # "store" /\ (pc = "reload" => call[c].pc \in {"update", "pin", "unpin"})
    BY <1>2
  <2>4. /\ Moves(c) /\ Carries(c)' /\ call'[c].m = m /\ call'[c].kind = call[c].kind
        /\ call'[c].pc = pc
    BY <1>2, <2>2, <2>3, GotoCarries
  <2>5. call[c].pc \notin Untold
    BY <1>2 DEF Untold
  <2>6. QED
    BY <1>2, <2>1, <2>4, <2>5 DEF Writes
<1>3. ASSUME NEW text \in workload.texts, UpdateMessage(c, text)
      PROVE  Writes(c, m) \/ (Quietly(c) /\ Beside(c))
  <2>1. call[c].pc = "update" /\ call[c].kind = "edit" /\ Rest
    BY <1>0, <1>3 DEF UpdateMessage, At, Carries
  <2>2. CASE Found(m)
    <3>1. PICK row : row = [message[m] EXCEPT !.text = text]
      OBVIOUS
    <3>2. /\ row \in Message /\ row.chan = message[m].chan /\ row.thread = message[m].thread
          /\ row.at = message[m].at
      BY <1>0, <3>1 DEF Message
    <3>3. Write(c, m, row) /\ Goto(c, "reload")
      BY <1>3, <2>2, <3>1 DEF UpdateMessage
    <3>4. QED
      BY <1>2, <2>1, <2>2, <3>2, <3>3 DEF Found
  <2>3. CASE ~Found(m)
    <3>1. Return(c) /\ UNCHANGED <<message, crossed>>
      BY <1>3, <2>3 DEF UpdateMessage
    <3>2. QED
      BY <1>1, <2>1, <2>3, <3>1
  <2>4. QED
    BY <2>2, <2>3
<1>4. ASSUME NEW pinned \in BOOLEAN, call[c].pc \in {"pin", "unpin"}, SetPinned(c, pinned)
      PROVE  Writes(c, m) \/ (Quietly(c) /\ Beside(c))
  <2>1. Rest
    BY <1>4 DEF SetPinned
  <2>2. CASE Found(m) /\ message[m].pinned # pinned
    <3>1. PICK row : row = [message[m] EXCEPT !.pinned = pinned]
      OBVIOUS
    <3>2. /\ row \in Message /\ row.chan = message[m].chan /\ row.thread = message[m].thread
          /\ row.at = message[m].at /\ row.text = message[m].text
      BY <1>0, <1>4, <3>1 DEF Message
    <3>3. Write(c, m, row) /\ Goto(c, "reload")
      BY <1>4, <2>2, <3>1 DEF SetPinned
    <3>4. QED
      BY <1>2, <1>4, <2>1, <2>2, <3>2, <3>3 DEF Found
  <2>3. CASE ~(Found(m) /\ message[m].pinned # pinned)
    <3>1. Return(c) /\ UNCHANGED <<message, crossed>>
      BY <1>4, <2>3 DEF SetPinned
    <3>2. QED
      BY <1>1, <1>4, <2>1, <3>1
  <2>4. QED
    BY <2>2, <2>3
<1>5. ASSUME SoftDelete(c) PROVE Writes(c, m) \/ (Quietly(c) /\ Beside(c))
  <2>1. call[c].pc = "delete" /\ Rest
    BY <1>5 DEF SoftDelete, At
  <2>2. CASE Found(m) /\ call[c].user \in accounts
    <3>1. PICK row : row = [message[m] EXCEPT !.at = "deleted"]
      OBVIOUS
    <3>2. /\ row \in Message /\ row.chan = message[m].chan /\ row.thread = message[m].thread
          /\ row.at = "deleted"
      BY <1>0, <3>1 DEF Message
    <3>3. Write(c, m, row) /\ Goto(c, "announce_delete")
      BY <1>5, <2>2, <3>1 DEF SoftDelete
    <3>4. QED
      BY <1>2, <2>1, <2>2, <3>2, <3>3
  <2>3. CASE ~(Found(m) /\ call[c].user \in accounts)
    <3>1. Return(c) /\ UNCHANGED <<message, crossed>>
      BY <1>5, <2>3 DEF SoftDelete
    <3>2. QED
      BY <1>1, <2>1, <2>3, <3>1
  <2>4. QED
    BY <2>2, <2>3
<1>6. QED
  BY <1>3, <1>4, <1>5 DEF Pin, Unpin, At
LEMMA ThreadSteps ==
  ASSUME Sound, NEW c \in Calls, NEW t \in ThreadIds, StoreThread(c, t)
  PROVE  Quietly(c) /\ Beside(c)
<1>0. /\ Carries(c) /\ TypeOK /\ call[c].pc = "thread"
      /\ UNCHANGED <<accounts, message, reactions, dm, search, workload, history>>
  BY DEF Sound, CallsCarry, StoreThread, At
<1>1. PICK m \in MessageIds : m = call[c].m /\ message[m].at # "none" /\ m # None
  BY <1>0, CarriedMessage DEF OnMessage
<1>2. message[m].chan \in Channels
  BY <1>0, <1>1 DEF Carries
<1> DEFINE ok == Found(m) /\ \A o \in ThreadIds : thread[o].parent # m
<1>3. CASE ok
  <2> DEFINE row == [NoThread EXCEPT !.at = "live", !.parent = m, !.chan = message[m].chan]
  <2>1. row \in Thread
    BY <1>2 DEF NoThread, Thread
  <2>2. thread' = [thread EXCEPT ![t] = row] /\ Goto(c, "announce_other")
    BY <1>1, <1>3 DEF StoreThread
  <2> HIDE DEF row
  <2>3. thread' \in [ThreadIds -> Thread]
    BY <1>0, <2>1, <2>2 DEF TypeOK
  <2>4. message'[m].at # "none"
    BY <1>0, <1>1
  <2>5. Moves(c) /\ Carries(c)' /\ call'[c].pc = "announce_other"
    BY <1>0, <1>1, <2>2, <2>4, GotoCarries
  <2>6. Quietly(c)
    BY <1>0, <2>5 DEF Quietly, Untold, aboutMessages, search, history
  <2>7. Beside(c)
    BY <1>0, <2>3, <2>5 DEF Beside, SideTyped, GroupsStay, KeepsPairs, TypeOK, history
  <2>8. QED
    BY <2>6, <2>7
<1>4. CASE ~ok
  <2>1. thread' = thread /\ Return(c)
    BY <1>1, <1>4 DEF StoreThread
  <2>2. Moves(c) /\ call'[c] = NoCall
    BY <1>0, <2>1, ReturnMoves
  <2>3. Quietly(c)
    BY <1>0, <2>2, NoRows, NoCallCarries DEF Quietly, Untold, aboutMessages, search, history
  <2>4. Beside(c)
    BY <1>0, <2>1, <2>2, NoRows, SideUnchanged DEF history
  <2>5. QED
    BY <2>3, <2>4
<1>5. QED
  BY <1>3, <1>4

LEMMA ReactionSteps ==
  ASSUME Sound, NEW c \in Calls, StoreReaction(c) \/ AnnounceOther(c)
  PROVE  Quietly(c) /\ Beside(c)
<1>0. Carries(c) /\ TypeOK
  BY DEF Sound, CallsCarry
<1>1. ASSUME AnnounceOther(c) PROVE Quietly(c) /\ Beside(c)
  <2>1. call[c].pc = "announce_other" /\ Return(c) /\ UNCHANGED <<tables, search, workload, history>>
    BY <1>1 DEF AnnounceOther, At
  <2>2. Moves(c) /\ call'[c] = NoCall
    BY <1>0, <2>1, ReturnMoves
  <2>3. Quietly(c)
    BY <2>1, <2>2, NoRows, NoCallCarries DEF Quietly, Untold, aboutMessages, search, history, tables
  <2>4. Beside(c)
    BY <2>1, <2>2, NoRows, SideUnchanged DEF history, tables
  <2>5. QED
    BY <2>3, <2>4
<1>2. ASSUME StoreReaction(c) PROVE Quietly(c) /\ Beside(c)
  <2>0. call[c].pc = "react" /\ UNCHANGED <<accounts, message, thread, dm, search, workload, history>>
    BY <1>2 DEF StoreReaction, At
  <2>1. PICK m \in MessageIds : m = call[c].m /\ message[m].at # "none" /\ m # None
    BY <2>0, CarriedMessage DEF OnMessage
  <2>2. PICK u \in Users : u = call[c].user
    BY <1>0, <2>0 DEF Carries
  <2>3. reactions' = reactions \/ reactions' = reactions \cup {<<m, u>>}
    BY <1>2, <2>1, <2>2 DEF StoreReaction
  <2>4. SideTyped'
    BY <1>0, <2>0, <2>3 DEF SideTyped, TypeOK, history
  <2>5. message'[m].at # "none"
    BY <2>0, <2>1
  <2>6. Moves(c) /\ Carries(c)' /\ call'[c].pc \in {"idle", "announce_other"}
    <3>1. CASE Return(c)
      <4>1. Moves(c) /\ call'[c] = NoCall
        BY <1>0, <3>1, ReturnMoves
      <4>2. QED
        BY <4>1, NoCallCarries, NoRows
    <3>2. CASE Goto(c, "announce_other")
      BY <2>0, <2>1, <2>5, <3>2, GotoCarries
    <3>3. QED
      BY <1>2, <3>1, <3>2 DEF StoreReaction
  <2>7. Quietly(c)
    BY <2>0, <2>6 DEF Quietly, Untold, aboutMessages, search, history
  <2>8. Beside(c)
    BY <2>0, <2>4, <2>6 DEF Beside, GroupsStay, KeepsPairs, history
  <2>9. QED
    BY <2>7, <2>8
<1>3. QED
  BY <1>1, <1>2

LEMMA DMSteps ==
  ASSUME Sound, NEW c \in Calls, NEW d \in DMIds, InsertDM(c, d) \/ DeleteParticipant(c)
  PROVE  Quietly(c) /\ Beside(c)
<1>0. Carries(c) /\ TypeOK /\ call[c] \in Call
  BY DEF Sound, CallsCarry, TypeOK
<1>1. ASSUME DeleteParticipant(c) PROVE Quietly(c) /\ Beside(c)
  <2>1. /\ call[c].pc = "leave" /\ Return(c)
        /\ UNCHANGED <<accounts, message, thread, reactions, search, workload, history>>
        /\ dm' = [dm EXCEPT ![call[c].chan].users = @ \ {call[c].with}]
    BY <1>1 DEF DeleteParticipant, At
  <2>2. Moves(c) /\ call'[c] = NoCall
    BY <1>0, <2>1, ReturnMoves
  <2>3. Quietly(c)
    BY <2>1, <2>2, NoRows, NoCallCarries DEF Quietly, Untold, aboutMessages, search, history
  <2>4. PICK e \in DMIds : e = call[c].chan /\ dm[e].kind = "group"
    BY <1>0, <2>1 DEF Carries
  <2>5. dm[e] \in DM
    BY <1>0 DEF TypeOK
  <2>6. PICK row : row = [dm[e] EXCEPT !.users = @ \ {call[c].with}]
    OBVIOUS
  <2>7. row \in DM /\ row.kind = "group"
    BY <2>4, <2>5, <2>6 DEF DM
  <2>8. dm' = [dm EXCEPT ![e] = row]
    BY <1>0, <2>1, <2>4, <2>6 DEF TypeOK
  <2>9. SideTyped' /\ GroupsStay /\ KeepsPairs
    BY <1>0, <2>1, <2>4, <2>7, <2>8 DEF SideTyped, GroupsStay, KeepsPairs, TypeOK, history
  <2>10. QED
    BY <2>2, <2>3, <2>9, NoRows DEF Beside
<1>2. ASSUME InsertDM(c, d) PROVE Quietly(c) /\ Beside(c)
  <2>0. PICK pair : pair = {call[c].user, call[c].with}
    OBVIOUS
  <2>1. /\ call[c].pc = "insert_dm" /\ dm[d] = NoDM
        /\ UNCHANGED <<accounts, message, thread, reactions, search, workload, told, crossed,
                       silent, skewed>>
    BY <1>2 DEF InsertDM, At, Draw
  <2>2. pair \subseteq Users
    BY <1>0, <2>0, <2>1 DEF Carries
  <2>3. CASE Cardinality(pair) = 2 /\ pair \subseteq accounts
    <3>1. /\ dm' = [dm EXCEPT ![d] = [kind |-> "dm", owner |-> None, users |-> pair]]
          /\ dmRaced' = IF \E o \in Calls \ {c} : At(o, "insert_dm") /\ {call[o].user, call[o].with} = pair
                        THEN dmRaced \cup {pair} ELSE dmRaced
          /\ Goto(c, "announce_other")
      BY <1>2, <2>0, <2>3 DEF InsertDM
    <3>2. /\ Moves(c) /\ call'[c].pc = "announce_other" /\ call'[c].m = call[c].m
      BY <1>0, <3>1, GotoMoves DEF Phases
    <3>3. Carries(c)'
      BY <1>0, <2>1, <3>2 DEF Carries, OnMessage, Untold
    <3>4. Quietly(c)
      BY <2>1, <3>2, <3>3 DEF Quietly, Untold, aboutMessages, search
    <3>5. PICK row \in DM : row = [kind |-> "dm", owner |-> None, users |-> pair]
      BY <2>2 DEF DM
    <3>6. dm' = [dm EXCEPT ![d] = row] /\ row.kind = "dm"
      BY <3>1, <3>5
    <3>7. dm' \in [DMIds -> DM] /\ GroupsStay
      BY <1>0, <2>1, <3>6, NoRows DEF TypeOK, GroupsStay
    <3>8. dmRaced' \subseteq SUBSET Users
      BY <1>0, <2>2, <3>1 DEF TypeOK
    <3>9. SideTyped'
      BY <1>0, <2>1, <3>7, <3>8 DEF SideTyped, TypeOK
    <3>10. Inserts(c, d)
      BY <2>0, <2>1, <3>1, <3>2 DEF Inserts
    <3>11. QED
      BY <3>4, <3>7, <3>9, <3>10 DEF Beside
  <2>4. CASE ~(Cardinality(pair) = 2 /\ pair \subseteq accounts)
    <3>1. Return(c) /\ UNCHANGED <<dm, dmRaced>>
      BY <1>2, <2>0, <2>4 DEF InsertDM
    <3>2. Moves(c) /\ call'[c] = NoCall
      BY <1>0, <3>1, ReturnMoves
    <3>3. Quietly(c)
      BY <2>1, <3>2, NoRows, NoCallCarries DEF Quietly, Untold, aboutMessages, search
    <3>4. Beside(c)
      BY <2>1, <3>1, <3>2, NoRows, SideUnchanged
    <3>5. QED
      BY <3>3, <3>4
  <2>5. QED
    BY <2>3, <2>4
<1>3. QED
  BY <1>1, <1>2
\* A step with one message
OnOne(c, m) ==
  \/ Stores(c, m) \/ Writes(c, m) \/ Readies(c, m) \/ Drops(c, m)
  \/ Silences(c, m) \/ Announces(c, m) \/ AnnouncesDelete(c, m)

\* UpdateThread, RemoveReaction, CreateGroupDM
Apart == SideTyped' /\ GroupsStay /\ KeepsPairs /\ UNCHANGED <<call, aboutMessages>>

\* IndexRequest of goroutine g about m
Indexes(g, m) ==
  LET t == tasks[g] IN
  /\ t # NoTask /\ t.m = m
  /\ \E doc \in Texts \cup {None}, over \in BOOLEAN :
       /\ index' = [index EXCEPT ![m] = doc]
       /\ \E s \in Task :
            /\ tasks' = [tasks EXCEPT ![g] = s]
            /\ IF over THEN s = NoTask ELSE s.m = m /\ s.op = t.op /\ s.text = t.text
       /\ skewed' = IF (over /\ doc # t.text) \/ \E h \in Goroutines \ {g} : tasks[h].m = m
                    THEN skewed \cup {m} ELSE skewed
  /\ UNCHANGED <<tables, call, workload, told, crossed, silent, dmRaced>>

\* Of message m, the deletion of an account: it stays, or it goes or leaves
\* its thread and nobody is told.
Swept(m) ==
  \/ /\ message'[m] = message[m]
     /\ (m \in crossed' <=> m \in crossed) /\ (m \in silent' <=> m \in silent)
     /\ (m \in skewed' <=> m \in skewed)
  \/ /\ message[m].at # "none"
     /\ message'[m].chan = message[m].chan /\ message'[m].text = message[m].text
     /\ message'[m].pinned = message[m].pinned
     /\ \/ message'[m].at = "erased"
        \/ message'[m].at = message[m].at /\ m \in skewed'
     /\ m \in silent' /\ (m \in crossed' <=> m \in crossed \/ Holders(m) # {})

\* DeleteAccount
Cascades ==
  /\ SideTyped' /\ GroupsStay /\ KeepsPairs
  /\ message' \in [MessageIds -> Message]
  /\ crossed' \cup silent' \cup skewed' \subseteq MessageIds
  /\ \A m \in MessageIds : Swept(m)
  /\ UNCHANGED <<index, tasks, call, workload, told>>

Step ==
  \/ \E c \in Calls : Quietly(c) /\ Beside(c)
  \/ \E c \in Calls, m \in MessageIds : OnOne(c, m)
  \/ Apart
  \/ Cascades
  \/ \E g \in Goroutines, m \in MessageIds : Indexes(g, m)

LEMMA ApartSteps ==
  ASSUME Sound
  PROVE  /\ UNCHANGED vars => Apart
         /\ \A u \in Users, m \in MessageIds : RemoveReaction(u, m) => Apart
         /\ \A t \in ThreadIds, archived, locked \in BOOLEAN :
              UpdateThread(t, archived, locked) => Apart
         /\ \A u \in Users, others \in SUBSET Users, d \in DMIds :
              CreateGroupDM(u, others, d) => Apart
<1>0. TypeOK
  BY DEF Sound
<1>1. UNCHANGED vars => Apart
  BY <1>0 DEF vars, tables, search, history, aboutMessages, Apart, SideTyped, GroupsStay,
              KeepsPairs, TypeOK
<1>2. ASSUME NEW u \in Users, NEW m \in MessageIds, RemoveReaction(u, m) PROVE Apart
  BY <1>0, <1>2 DEF RemoveReaction, DeleteReaction, search, history, aboutMessages, Apart,
                    SideTyped, GroupsStay, KeepsPairs, TypeOK
<1>3. ASSUME NEW t \in ThreadIds, NEW archived \in BOOLEAN, NEW locked \in BOOLEAN,
             UpdateThread(t, archived, locked)
      PROVE  Apart
  <2>1. /\ thread' = [thread EXCEPT ![t].archived = archived, ![t].locked = locked]
        /\ UNCHANGED <<accounts, message, reactions, dm, search, call, workload, history>>
    BY <1>3 DEF UpdateThread, UpdateLocked
  <2>2. thread[t] \in Thread
    BY <1>0 DEF TypeOK
  <2>3. thread' \in [ThreadIds -> Thread]
    BY <1>0, <2>1, <2>2 DEF TypeOK, Thread
  <2>4. QED
    BY <1>0, <2>1, <2>3 DEF search, history, aboutMessages, Apart, SideTyped, GroupsStay,
                            KeepsPairs, TypeOK
<1>4. ASSUME NEW u \in Users, NEW others \in SUBSET Users, NEW d \in DMIds,
             CreateGroupDM(u, others, d)
      PROVE  Apart
  <2> DEFINE row == [kind |-> "group", owner |-> u, users |-> others \cup {u}]
  <2>1. row \in DM /\ row.kind = "group"
    BY DEF DM
  <2>2. /\ dm' = [dm EXCEPT ![d] = row] /\ dm[d] = NoDM
        /\ UNCHANGED <<accounts, message, thread, reactions, search, call, workload, history>>
    BY <1>4 DEF CreateGroupDM, Draw
  <2> HIDE DEF row
  <2>3. dm' \in [DMIds -> DM] /\ GroupsStay
        /\ \A e \in DMIds : dm'[e].kind = "dm" => dm[e].kind = "dm" /\ dm'[e].users \subseteq dm[e].users
    BY <1>0, <2>1, <2>2, NoRows DEF TypeOK, GroupsStay
  <2>4. QED
    BY <1>0, <2>2, <2>3 DEF search, history, aboutMessages, Apart, SideTyped, KeepsPairs, TypeOK
<1>5. QED
  BY <1>1, <1>2, <1>3, <1>4

LEMMA CascadeSteps ==
  ASSUME Sound, NEW u \in Users, DeleteAccount(u)
  PROVE  Cascades
<1>0. TypeOK /\ u # None
  BY MessagesAssumption DEF Sound
<1> DEFINE gone == {m \in MessageIds : message[m].author = u}
           lost == {t \in ThreadIds : thread[t].at = "live" /\ thread[t].parent \in gone}
           cut == {m \in MessageIds \ gone : message[m].thread \in lost}
           row(m) == CASE m \in gone -> [message[m] EXCEPT !.at = "erased"]
                       [] m \in cut -> [message[m] EXCEPT !.thread = None]
                       [] OTHER -> message[m]
<1>1. /\ accounts' = accounts \ {u}
      /\ message' = [m \in MessageIds |-> row(m)]
      /\ thread' = [t \in ThreadIds |-> IF t \in lost THEN [thread[t] EXCEPT !.at = "erased"]
                                        ELSE thread[t]]
      /\ reactions' = {r \in reactions : r[1] \notin gone /\ r[2] # u}
      /\ dm' = [d \in DMIds |-> [dm[d] EXCEPT !.owner = IF @ = u THEN None ELSE @,
                                              !.users = @ \ {u}]]
      /\ crossed' = crossed \cup {m \in gone \cup cut : Holders(m) # {}}
      /\ silent' = silent \cup gone \cup cut
      /\ skewed' = skewed \cup cut
      /\ UNCHANGED <<search, call, workload, told, dmRaced>>
  BY DEF DeleteAccount
<1>2. \A m \in MessageIds : message[m] \in Message
  BY <1>0 DEF TypeOK
<1>3. \A m \in gone : message[m].at # "none"
  BY <1>0, NoRows DEF Sound, RowsOwned
<1>4. \A m \in cut : message[m].at # "none"
  BY NoRows, MessagesAssumption DEF Sound, RowsOwned
<1>5. ASSUME NEW m \in MessageIds PROVE Swept(m) /\ message'[m] \in Message
  <2>1. message'[m] = row(m)
    BY <1>1
  <2>2. CASE m \in gone
    <3>1. message'[m] = [message[m] EXCEPT !.at = "erased"]
      BY <2>1, <2>2
    <3>2. /\ message'[m] \in Message /\ message'[m].at = "erased"
          /\ message'[m].chan = message[m].chan /\ message'[m].text = message[m].text
          /\ message'[m].pinned = message[m].pinned
      BY <1>2, <3>1 DEF Message
    <3>3. m \in silent' /\ (m \in crossed' <=> m \in crossed \/ Holders(m) # {})
      BY <1>1, <2>2
    <3>4. QED
      BY <1>3, <2>2, <3>2, <3>3 DEF Swept
  <2>3. CASE m \in cut
    <3>1. message'[m] = [message[m] EXCEPT !.thread = None]
      BY <2>1, <2>3
    <3>2. /\ message'[m] \in Message /\ message'[m].at = message[m].at
          /\ message'[m].chan = message[m].chan /\ message'[m].text = message[m].text
          /\ message'[m].pinned = message[m].pinned
      BY <1>2, <3>1 DEF Message
    <3>3. m \in silent' /\ m \in skewed' /\ (m \in crossed' <=> m \in crossed \/ Holders(m) # {})
      BY <1>1, <2>3
    <3>4. QED
      BY <1>4, <2>3, <3>2, <3>3 DEF Swept
  <2>4. CASE m \notin gone /\ m \notin cut
    <3>1. message'[m] = message[m]
      BY <2>1, <2>4
    <3>2. QED
      BY <1>1, <1>2, <2>4, <3>1 DEF Swept
  <2>5. QED
    BY <2>2, <2>3, <2>4
<1>6. message' \in [MessageIds -> Message]
  BY <1>1, <1>5
<1>7. crossed' \cup silent' \cup skewed' \subseteq MessageIds
  BY <1>0, <1>1 DEF TypeOK
<1>8. thread' \in [ThreadIds -> Thread]
  <2>1. \A t \in ThreadIds : thread[t] \in Thread /\ [thread[t] EXCEPT !.at = "erased"] \in Thread
    BY <1>0 DEF TypeOK, Thread
  <2>2. QED
    BY <1>1, <2>1
<1>9. ASSUME NEW d \in DMIds
      PROVE  dm'[d] \in DM /\ dm'[d].kind = dm[d].kind /\ dm'[d].users \subseteq dm[d].users
  <2>1. dm[d] \in DM
    BY <1>0 DEF TypeOK
  <2>2. PICK owner \in Users \cup {None} : owner = IF dm[d].owner = u THEN None ELSE dm[d].owner
    BY <2>1 DEF DM
  <2>3. dm'[d] = [dm[d] EXCEPT !.owner = owner, !.users = dm[d].users \ {u}]
    BY <1>1, <2>1, <2>2 DEF DM
  <2>4. QED
    BY <2>1, <2>3 DEF DM
<1>10. dm' \in [DMIds -> DM]
  BY <1>1, <1>9
<1>11. SideTyped' /\ GroupsStay /\ KeepsPairs
  BY <1>0, <1>1, <1>8, <1>9, <1>10 DEF SideTyped, GroupsStay, KeepsPairs, TypeOK
<1>12. QED
  BY <1>1, <1>5, <1>6, <1>7, <1>11 DEF Cascades, search

LEMMA IndexSteps ==
  ASSUME Sound, NEW g \in Goroutines, NEW doc \in Texts \cup {None}, NEW reaches \in BOOLEAN,
         NEW answered \in BOOLEAN, IndexRequest(g, doc, reaches, answered)
  PROVE  \E m \in MessageIds : Indexes(g, m)
<1>0. tasks[g] # NoTask /\ tasks[g] \in Task
  BY DEF IndexRequest, Sound, TypeOK
<1>1. PICK m \in MessageIds : m = tasks[g].m
  BY <1>0 DEF Sound, RowsOwned
<1>2. PICK over \in BOOLEAN : over = (answered \/ tasks[g].retry)
  OBVIOUS
<1>3. /\ index' = [index EXCEPT ![m] = doc]
      /\ skewed' = IF (over /\ doc # tasks[g].text) \/ \E h \in Goroutines \ {g} : tasks[h].m = m
                   THEN skewed \cup {m} ELSE skewed
      /\ UNCHANGED <<tables, call, workload, told, crossed, silent, dmRaced>>
  BY <1>1, <1>2 DEF IndexRequest
<1>4. tasks' = [tasks EXCEPT ![g] = IF over THEN NoTask ELSE [tasks[g] EXCEPT !.retry = TRUE]]
  BY <1>2 DEF IndexRequest
<1>5. PICK s : s = IF over THEN NoTask ELSE [tasks[g] EXCEPT !.retry = TRUE]
  OBVIOUS
<1>6. tasks' = [tasks EXCEPT ![g] = s]
  BY <1>4, <1>5
<1>7. CASE over
  <2>1. s = NoTask /\ s \in Task
    BY <1>5, <1>7, NoRows
  <2>2. QED
    BY <1>0, <1>1, <1>3, <1>6, <1>7, <2>1 DEF Indexes
<1>8. CASE ~over
  <2>1. s \in Task /\ s.m = tasks[g].m /\ s.op = tasks[g].op /\ s.text = tasks[g].text
    BY <1>0, <1>5, <1>8 DEF Task
  <2>2. QED
    BY <1>0, <1>1, <1>3, <1>6, <1>8, <2>1 DEF Indexes
<1>9. QED
  BY <1>7, <1>8

LEMMA ArrivalSteps ==
  ASSUME Sound, NEW c \in Calls, Arrives(c)
  PROVE  Quietly(c) /\ Beside(c)
<1>1. Quietly(c)
  BY DEF Arrives, Quietly, Untold, aboutMessages, tables, search, history
<1>2. Beside(c)
  BY SideUnchanged DEF Arrives, tables, history
<1>3. QED
  BY <1>1, <1>2

LEMMA AbandonSteps ==
  ASSUME Sound, NEW c \in Calls, Abandon(c)
  PROVE  (Quietly(c) /\ Beside(c)) \/ \E m \in MessageIds : Silences(c, m)
<1>1. UNCHANGED <<tables, search, workload, told, crossed, dmRaced>>
  BY DEF Abandon
<1>2. CASE call[c].pc \in Untold
  <2>1. PICK m \in MessageIds : m = call[c].m
    BY <1>2, CarriedMessage DEF OnMessage
  <2>2. Silence(c)
    BY <1>2 DEF Abandon, Untold
  <2>3. QED
    BY <1>1, <1>2, <2>1, <2>2, SilenceStep
<1>3. CASE call[c].pc \notin Untold
  <2>1. Return(c) /\ UNCHANGED <<silent, skewed>>
    BY <1>3 DEF Abandon, Untold
  <2>2. Moves(c) /\ call'[c] = NoCall
    BY <2>1, ReturnMoves DEF Sound
  <2>3. Quietly(c)
    BY <1>1, <1>3, <2>1, <2>2, NoRows, NoCallCarries
    DEF Quietly, Untold, aboutMessages, search, tables
  <2>4. Beside(c)
    BY <1>1, <2>2, NoRows, SideUnchanged DEF tables
  <2>5. QED
    BY <2>3, <2>4
<1>4. QED
  BY <1>2, <1>3

LEMMA ContinueSteps ==
  ASSUME Sound, NEW c \in Calls, Continue(c)
  PROVE  Step
<1>1. ASSUME NEW m \in MessageIds, NEW text \in workload.texts, StoreMessage(c, m, text)
      PROVE  Step
  BY <1>1, StoreSteps DEF Step, OnOne
<1>2. ASSUME NEW ok \in BOOLEAN,
             LinkToMessage(c, ok) \/ ListParticipants(c, ok) \/ Reload(c) \/ Announce(c)
               \/ AnnounceDelete(c)
      PROVE  Step
  <2>1. call[c].pc \in OnMessage
    BY <1>2 DEF LinkToMessage, ListParticipants, Reload, Announce, AnnounceDelete, At,
                OnMessage, Untold
  <2>2. PICK m \in MessageIds : m = call[c].m
    BY <2>1, CarriedMessage
  <2>3. OnOne(c, m)
    BY <1>2, <2>2, TellingSteps DEF OnOne
  <2>4. QED
    BY <2>3 DEF Step
<1>3. ASSUME (\E text \in workload.texts : UpdateMessage(c, text)) \/ Pin(c) \/ Unpin(c)
               \/ SoftDelete(c)
      PROVE  Step
  <2>1. call[c].pc \in OnMessage
    BY <1>3 DEF UpdateMessage, Pin, Unpin, SoftDelete, At, OnMessage
  <2>2. PICK m \in MessageIds : m = call[c].m
    BY <2>1, CarriedMessage
  <2>3. Writes(c, m) \/ (Quietly(c) /\ Beside(c))
    BY <1>3, <2>2, WritingSteps
  <2>4. QED
    BY <2>3 DEF Step, OnOne
<1>4. ASSUME NEW t \in ThreadIds, StoreThread(c, t) PROVE Step
  BY <1>4, ThreadSteps DEF Step
<1>5. ASSUME StoreReaction(c) \/ AnnounceOther(c) PROVE Step
  BY <1>5, ReactionSteps DEF Step
<1>6. ASSUME NEW d \in DMIds, InsertDM(c, d) PROVE Step
  BY <1>6, DMSteps DEF Step
<1>7. ASSUME DeleteParticipant(c) PROVE Step
  <2>1. PICK d \in DMIds : d = call[c].chan
    BY <1>7 DEF DeleteParticipant, At, Sound, CallsCarry, Carries
  <2>2. QED
    BY <1>7, DMSteps DEF Step
<1>8. ASSUME Reload(c) \/ Announce(c) \/ AnnounceDelete(c) PROVE Step
  BY <1>2, <1>8
<1>9. ASSUME Abandon(c) PROVE Step
  BY <1>9, AbandonSteps DEF Step, OnOne
<1>10. QED
  BY <1>1, <1>2, <1>3, <1>4, <1>5, <1>6, <1>7, <1>8, <1>9 DEF Continue

\* Every step of the specification is one of these.
LEMMA NextSteps ==
  ASSUME Sound, [Next]_vars
  PROVE  Step
<1>0. workload.users \subseteq Users /\ workload.messages \subseteq MessageIds
  BY MessagesAssumption DEF Sound, TypeOK
<1>1. ASSUME NEW c \in Calls, NEW u \in workload.users,
             \/ PostRequests(c, u) \/ MessageRequests(c, u) \/ CreateDMChannel(c, u)
             \/ \E d \in DMIds, v \in Users : RemoveParticipant(c, u, d, v)
      PROVE  Step
  <2>1. CASE PostRequests(c, u)
    BY <2>1, PostsArrive, ArrivalSteps DEF Step
  <2>2. CASE MessageRequests(c, u)
    BY <2>2, MessageRequestsArrive, ArrivalSteps DEF Step
  <2>3. ASSUME NEW d \in DMIds, NEW v \in Users, RemoveParticipant(c, u, d, v) PROVE Step
    BY <2>3, DMRequestsArrive, ArrivalSteps DEF Step
  <2>4. ASSUME NEW v \in Users, CreateDM(c, u, v) PROVE Step
    BY <2>4, DMRequestsArrive, ArrivalSteps DEF Step
  <2>5. ASSUME NEW others \in SUBSET Users, NEW d \in DMIds, CreateGroupDM(u, others, d) PROVE Step
    BY <1>0, <2>5, ApartSteps DEF Step
  <2>6. QED
    BY <1>1, <2>1, <2>2, <2>3, <2>4, <2>5 DEF CreateDMChannel
<1>2. ASSUME NEW c \in Calls, Continue(c) PROVE Step
  BY <1>2, ContinueSteps
<1>3. ASSUME NEW u \in Users, NEW m \in workload.messages, RemoveReaction(u, m) PROVE Step
  BY <1>0, <1>3, ApartSteps DEF Step
<1>4. ASSUME NEW t \in ThreadIds, NEW archived \in BOOLEAN, NEW locked \in BOOLEAN,
             UpdateThread(t, archived, locked)
      PROVE  Step
  BY <1>4, ApartSteps DEF Step
<1>5. ASSUME NEW g \in Goroutines, NEW doc \in Texts \cup {None}, NEW reaches \in BOOLEAN,
             NEW answered \in BOOLEAN, IndexRequest(g, doc, reaches, answered)
      PROVE  Step
  BY <1>5, IndexSteps DEF Step
<1>6. CASE UNCHANGED vars
  BY <1>6, ApartSteps DEF Step
<1>7. ASSUME NEW u \in Users, DeleteAccount(u) PROVE Step
  BY <1>7, CascadeSteps DEF Step
<1>8. QED
  BY <1>1, <1>2, <1>3, <1>4, <1>5, <1>6, <1>7 DEF Next
-----------------------------------------------------------------------------
(* Types, what calls carry, and rows. *)

\* The tables of the messages
MainTyped ==
  /\ message \in [MessageIds -> Message] /\ index \in [MessageIds -> Texts \cup {None}]
  /\ tasks \in [Goroutines -> Task] /\ told \in [MessageIds -> Message]
  /\ workload \in Workloads /\ crossed \cup silent \cup skewed \subseteq MessageIds

LEMMA StartsTask ==
  ASSUME Sound, NEW m \in MessageIds, NEW text \in Texts \cup {None}, message[m].at # "none",
         UNCHANGED message, Starts(m, text)
  PROVE  /\ tasks' \in [Goroutines -> Task]
         /\ \A g \in Goroutines : tasks'[g] # NoTask =>
              /\ tasks'[g].m \in MessageIds /\ tasks'[g].op # "none"
              /\ message'[tasks'[g].m].at # "none"
<1>1. PICK g \in Goroutines, t \in Task :
        /\ t.m = m /\ t.op # "none" /\ tasks' = [tasks EXCEPT ![g] = t]
  BY DEF Starts
<1>2. tasks \in [Goroutines -> Task]
  BY DEF Sound, TypeOK
<1>3. QED
  BY <1>1, <1>2 DEF Sound, RowsOwned

\* What a step with one message leaves true of the tables
LEMMA OneSound ==
  ASSUME Sound, NEW c \in Calls, NEW m \in MessageIds, OnOne(c, m)
  PROVE  MainTyped' /\ RowsOwned' /\ Monotone /\ Moves(c) /\ Carries(c)'
         /\ UNCHANGED <<accounts, thread, reactions, dm, dmRaced>>
<1>0. TypeOK /\ RowsOwned /\ Carries(c) /\ call[c] \in Call /\ m # None
  BY MessagesAssumption DEF Sound, CallsCarry, TypeOK
<1>r. \A n \in MessageIds : message[n].at = "none" =>
        message[n] = NoMessage /\ told[n] = NoMessage /\ index[n] = None
  BY <1>0 DEF RowsOwned
<1>1. CASE Stores(c, m)
  <2>1. PICK row \in Message :
          row.at = "live" /\ message' = [message EXCEPT ![m] = row]
    BY <1>1 DEF Stores
  <2>2. message[m].at = "none"
    BY <1>1, NoRows DEF Stores
  <2>3. UNCHANGED <<accounts, thread, reactions, dm, index, tasks, workload, told, crossed, silent,
                    skewed, dmRaced>>
    BY <1>1 DEF Stores, search, history
  <2>4. MainTyped'
    BY <1>0, <2>1, <2>3 DEF MainTyped, TypeOK
  <2>5. \A n \in MessageIds : message[n].at # "none" => message'[n] = message[n]
    BY <1>0, <2>1, <2>2 DEF TypeOK
  <2>6. \A n \in MessageIds : message'[n].at = "none" => message'[n] = message[n]
    BY <1>0, <2>1 DEF TypeOK
  <2>7. RowsOwned'
    BY <1>0, <2>3, <2>5, <2>6 DEF RowsOwned
  <2>8. Monotone
    BY <2>3, <2>5 DEF Monotone, Gone
  <2>9. QED
    BY <1>1, <2>3, <2>4, <2>7, <2>8 DEF Stores
<1>2. CASE Writes(c, m)
  <2>1. PICK row \in Message :
          /\ row.at # "none" /\ message' = [message EXCEPT ![m] = row]
          /\ row.chan = message[m].chan
    BY <1>2 DEF Writes
  <2>2. message[m].at = "live"
    BY <1>2 DEF Writes, Found
  <2>3. UNCHANGED <<accounts, thread, reactions, dm, index, tasks, workload, told, silent, skewed,
                    dmRaced>>
    BY <1>2 DEF Writes, search
  <2>4. crossed' \subseteq MessageIds
    BY <1>0, <1>2 DEF Writes, TypeOK
  <2>5. MainTyped'
    BY <1>0, <2>1, <2>3, <2>4 DEF MainTyped, TypeOK
  <2>6. /\ message'[m] = row
        /\ \A n \in MessageIds : n # m => message'[n] = message[n]
    BY <1>0, <2>1 DEF TypeOK
  <2>7. RowsOwned'
    BY <1>0, <2>1, <2>3, <2>6 DEF RowsOwned
  <2>8. Monotone
    BY <2>1, <2>2, <2>3, <2>6 DEF Monotone, Gone
  <2>9. QED
    BY <1>2, <2>3, <2>5, <2>7, <2>8 DEF Writes
<1>3. CASE Readies(c, m) \/ Drops(c, m) \/ Silences(c, m)
  <2>1. UNCHANGED <<accounts, message, thread, reactions, dm, index, tasks, workload, told,
                    crossed, dmRaced>>
    BY <1>3 DEF Readies, Drops, Silences, tables, search, history
  <2>2. /\ silent' = silent \/ silent' = silent \cup {m}
        /\ skewed' = skewed \/ skewed' = skewed \cup {m}
    BY <1>3 DEF Readies, Drops, Silences, history
  <2>3. MainTyped'
    BY <1>0, <2>1, <2>2 DEF MainTyped, TypeOK
  <2>4. RowsOwned' /\ Monotone
    BY <1>0, <2>1 DEF RowsOwned, Monotone, Gone
  <2>5. Moves(c) /\ Carries(c)'
    BY <1>3, NoCallCarries DEF Readies, Drops, Silences
  <2>6. QED
    BY <2>1, <2>3, <2>4, <2>5
<1>4. CASE Announces(c, m) \/ AnnouncesDelete(c, m)
  <2>1. UNCHANGED <<accounts, message, thread, reactions, dm, index, workload, crossed, skewed,
                    dmRaced>>
    BY <1>4 DEF Announces, AnnouncesDelete, tables
  <2>2. message[m].at # "none"
    BY <1>0, <1>4 DEF Announces, AnnouncesDelete, Carries
  <2>3. /\ \E row \in Message : told' = told \/ told' = [told EXCEPT ![m] = row]
        /\ silent' = silent \cup {m} \/ silent' = silent \ {m}
    <3>1. PICK row \in Message : Tell(c, row) /\ call[c].m = m
      BY <1>0, <1>4 DEF Announces, AnnouncesDelete, Call
    <3>2. QED
      BY <3>1 DEF Tell
  <2>4. PICK text \in Texts \cup {None} : tasks' = tasks \/ Starts(m, text)
    <3>1. call[c].copy.text \in Texts \cup {None}
      BY <1>0 DEF Call, Message
    <3>2. QED
      BY <1>4, <3>1 DEF Announces, AnnouncesDelete
  <2>5. /\ tasks' \in [Goroutines -> Task]
        /\ \A g \in Goroutines : tasks'[g] # NoTask =>
             /\ tasks'[g].m \in MessageIds /\ tasks'[g].op # "none"
             /\ message'[tasks'[g].m].at # "none"
    <3>1. CASE tasks' = tasks
      BY <1>0, <2>1, <3>1 DEF TypeOK, RowsOwned
    <3>2. CASE Starts(m, text)
      BY <2>1, <2>2, <3>2, StartsTask
    <3>3. QED
      BY <2>4, <3>1, <3>2
  <2>6. MainTyped'
    BY <1>0, <2>1, <2>3, <2>5 DEF MainTyped, TypeOK
  <2>7. RowsOwned'
    <3>1. \A n \in MessageIds : n # m => told'[n] = told[n]
      BY <1>0, <2>3 DEF TypeOK
    <3>2. QED
      BY <1>r, <2>1, <2>2, <2>5, <3>1 DEF RowsOwned
  <2>8. Monotone
    BY <2>1 DEF Monotone, Gone
  <2>9. Moves(c) /\ Carries(c)'
    BY <1>4, NoCallCarries DEF Announces, AnnouncesDelete
  <2>10. QED
    BY <2>1, <2>6, <2>7, <2>8, <2>9
<1>5. QED
  BY <1>1, <1>2, <1>3, <1>4 DEF OnOne

LEMMA StepSound ==
  ASSUME Sound, Step
  PROVE  Sound' /\ Monotone
<1>0. TypeOK /\ RowsOwned /\ CallsCarry
  BY DEF Sound
<1>1. ASSUME NEW c \in Calls, Quietly(c), Beside(c) PROVE Sound' /\ Monotone
  <2>1. UNCHANGED <<message, index, tasks, workload, told, crossed, silent, skewed>>
    BY <1>1 DEF Quietly, aboutMessages
  <2>2. Moves(c) /\ Carries(c)' /\ SideTyped' /\ GroupsStay
    BY <1>1 DEF Quietly, Beside
  <2>3. Monotone
    BY <2>1, <2>2 DEF Monotone, GroupsStay, Gone
  <2>4. CallsCarry'
    BY <1>0, <2>2, <2>3, OthersCarry
  <2>5. TypeOK'
    BY <1>0, <2>1, <2>2 DEF TypeOK, SideTyped, Moves
  <2>6. RowsOwned'
    BY <1>0, <2>1 DEF RowsOwned
  <2>7. QED
    BY <2>3, <2>4, <2>5, <2>6 DEF Sound
<1>2. ASSUME NEW c \in Calls, NEW m \in MessageIds, OnOne(c, m) PROVE Sound' /\ Monotone
  <2>1. /\ MainTyped' /\ RowsOwned' /\ Monotone /\ Moves(c) /\ Carries(c)'
        /\ UNCHANGED <<accounts, thread, reactions, dm, dmRaced>>
    BY <1>2, OneSound
  <2>2. CallsCarry'
    BY <1>0, <2>1, OthersCarry
  <2>3. TypeOK'
    BY <1>0, <2>1 DEF TypeOK, MainTyped, Moves
  <2>4. QED
    BY <2>1, <2>2, <2>3 DEF Sound
<1>3. ASSUME Apart PROVE Sound' /\ Monotone
  <2>1. UNCHANGED <<message, index, tasks, workload, told, crossed, silent, skewed, call>>
        /\ SideTyped' /\ GroupsStay
    BY <1>3 DEF Apart, aboutMessages
  <2>2. Monotone
    BY <2>1 DEF Monotone, GroupsStay, Gone
  <2>3. TypeOK'
    BY <1>0, <2>1 DEF TypeOK, SideTyped
  <2>4. RowsOwned'
    BY <1>0, <2>1 DEF RowsOwned
  <2>5. CallsCarry'
    <3>1. SUFFICES ASSUME NEW c \in Calls PROVE Carries(c)'
      BY DEF CallsCarry
    <3>2. Carries(c) /\ call'[c] = call[c] /\ message' = message
      BY <1>0, <2>1 DEF CallsCarry
    <3>3. QED
      BY <2>1, <3>2 DEF Carries, GroupsStay, Gone
  <2>6. QED
    BY <2>2, <2>3, <2>4, <2>5 DEF Sound
<1>4. ASSUME NEW g \in Goroutines, NEW m \in MessageIds, Indexes(g, m) PROVE Sound' /\ Monotone
  <2>1. UNCHANGED <<accounts, message, thread, reactions, dm, call, workload, told, crossed, silent,
                    dmRaced>>
    BY <1>4 DEF Indexes, tables
  <2>2. PICK doc \in Texts \cup {None}, s \in Task :
          /\ index' = [index EXCEPT ![m] = doc] /\ tasks' = [tasks EXCEPT ![g] = s]
          /\ s = NoTask \/ (s.m = m /\ s.op = tasks[g].op)
          /\ skewed' = skewed \/ skewed' = skewed \cup {m}
    BY <1>4 DEF Indexes
  <2>3. tasks[g] # NoTask /\ tasks[g].m = m /\ message[m].at # "none" /\ tasks[g].op # "none"
    BY <1>0, <1>4 DEF Indexes, RowsOwned
  <2>4. TypeOK'
    BY <1>0, <2>1, <2>2 DEF TypeOK
  <2>5. RowsOwned'
    BY <1>0, <2>1, <2>2, <2>3 DEF RowsOwned, TypeOK
  <2>6. Monotone
    BY <2>1 DEF Monotone, Gone
  <2>7. CallsCarry'
    <3>1. SUFFICES ASSUME NEW c \in Calls PROVE Carries(c)'
      BY DEF CallsCarry
    <3>2. Carries(c) /\ call'[c] = call[c] /\ message' = message /\ dm' = dm
      BY <1>0, <2>1 DEF CallsCarry
    <3>3. QED
      BY <3>2 DEF Carries, Gone
  <2>8. QED
    BY <2>4, <2>5, <2>6, <2>7 DEF Sound
<1>5. ASSUME Cascades PROVE Sound' /\ Monotone
  <2>1. /\ UNCHANGED <<index, tasks, call, workload, told>> /\ SideTyped' /\ GroupsStay
        /\ message' \in [MessageIds -> Message]
        /\ crossed' \cup silent' \cup skewed' \subseteq MessageIds
    BY <1>5 DEF Cascades
  <2>2. ASSUME NEW m \in MessageIds
        PROVE  \/ message'[m] = message[m]
               \/ /\ message[m].at # "none" /\ message'[m].chan = message[m].chan
                  /\ message'[m].text = message[m].text /\ message'[m].pinned = message[m].pinned
                  /\ message'[m].at \in {message[m].at, "erased"}
    BY <1>5 DEF Cascades, Swept
  <2>3. Monotone
    BY <2>1, <2>2 DEF Monotone, GroupsStay, Gone
  <2>4. TypeOK'
    BY <1>0, <2>1 DEF TypeOK, SideTyped
  <2>5. RowsOwned'
    <3>1. \A m \in MessageIds : message'[m].at = "none" => message'[m] = message[m]
      BY <2>2
    <3>2. \A m \in MessageIds : message[m].at # "none" => message'[m].at # "none"
      BY <2>3 DEF Monotone
    <3>3. QED
      BY <1>0, <2>1, <3>1, <3>2 DEF RowsOwned
  <2>6. CallsCarry'
    <3>1. SUFFICES ASSUME NEW c \in Calls PROVE Carries(c)'
      BY DEF CallsCarry
    <3>2. Carries(c) /\ call'[c] = call[c] /\ call[c] \in Call
      BY <1>0, <2>1 DEF CallsCarry, TypeOK
    <3>3. call[c].m # None => call[c].m \in MessageIds
      BY <3>2 DEF Call
    <3>4. call[c].pc \in OnMessage => call[c].m \in MessageIds /\ call[c].m # None
      BY <3>2, MessagesAssumption DEF Carries
    <3>5. call[c].pc \in {"thread", "announce_delete"} => call[c].pc \in OnMessage
      BY DEF OnMessage, Untold
    <3>6. QED
      BY <2>3, <3>2, <3>3, <3>4, <3>5 DEF Carries, Monotone
  <2>7. QED
    BY <2>3, <2>4, <2>5, <2>6 DEF Sound
<1>6. QED
  BY <1>1, <1>2, <1>3, <1>4, <1>5 DEF Step

LEMMA InitSound == Init => Sound
<1>1. SUFFICES ASSUME Init PROVE Sound
  OBVIOUS
<1>2. \A m \in MessageIds : message[m] = NoMessage /\ told[m] = NoMessage /\ index[m] = None
  BY <1>1 DEF Init
<1>3. \A c \in Calls : call[c] = NoCall
  BY <1>1 DEF Init
<1>4. \A g \in Goroutines : tasks[g] = NoTask
  BY <1>1 DEF Init
<1>5. TypeOK
  BY <1>1, NoRows DEF Init, TypeOK
<1>6. CallsCarry
  <2>1. SUFFICES ASSUME NEW c \in Calls PROVE Carries(c)
    BY DEF CallsCarry
  <2>2. call[c] = NoCall /\ call[c].pc = "idle" /\ call[c].m = None
    BY <1>3, NoRows
  <2>3. QED
    BY <2>2 DEF Carries, OnMessage, Untold
<1>7. RowsOwned
  BY <1>2, <1>4 DEF RowsOwned
<1>8. QED
  BY <1>5, <1>6, <1>7 DEF Sound

\* Every table holds what its columns allow and every request in flight carries
\* the rows its next statement relies on, whatever the requests and their
\* interleaving (all handlers of internal/api for messages, threads, reactions, DMs).
THEOREM MessagesSound == Spec => []Sound
<1>1. Sound /\ [Next]_vars => Sound'
  BY NextSteps, StepSound
<1>2. QED
  BY <1>1, InitSound, PTL DEF Spec

\* The tables, index requests and calls stay within their types.
THEOREM TypeCorrect == Spec => []TypeOK
<1>1. Sound => TypeOK
  BY DEF Sound
<1>2. QED
  BY <1>1, MessagesSound, PTL

\* No handler edits, pins or revives a deleted message, however long before
\* the deletion it found it (deleted_at IS NULL in Update, Pin, Unpin, SoftDelete).
THEOREM DeletionIsFinal == Spec => DeletedStaysDeleted
<1>1. Sound /\ [Next]_vars =>
        [\A m \in MessageIds : Deleted(m) =>
           /\ message'[m].at \in {"deleted", "erased"}
           /\ message'[m].text = message[m].text /\ message'[m].pinned = message[m].pinned]_vars
  BY NextSteps, StepSound DEF Monotone, Deleted, Gone
<1>2. QED
  BY <1>1, MessagesSound, PTL DEF Spec, DeletedStaysDeleted

-----------------------------------------------------------------------------
(* One channel for two users. *)

LEMMA PairOf ==
  ASSUME NEW a, NEW b, NEW u, NEW v, u # v, {u, v} \subseteq {a, b}
  PROVE  {a, b} = {u, v}
OBVIOUS

\* While no channel of a pair is made, only a new look could disturb PairInv.
LEMMA PairsKept ==
  ASSUME PairInv, TypeOK, KeepsPairs,
         \A o \in Calls : call'[o].pc = "insert_dm" =>
           \/ call'[o] = call[o]
           \/ Between(call'[o].user, call'[o].with) = {}
  PROVE  PairInv'
<1>1. SUFFICES ASSUME NEW u \in Users, NEW v \in Users, u # v, {u, v} \notin dmRaced'
               PROVE  /\ \A d, e \in Between(u, v)' : d = e
                      /\ \A c \in Calls : call'[c].pc = "insert_dm"
                           /\ {call'[c].user, call'[c].with} = {u, v} => Between(u, v)' = {}
  BY DEF PairInv, At
<1>2. Between(u, v)' \subseteq Between(u, v)
  BY DEF Between, KeepsPairs
<1>3. /\ \A d, e \in Between(u, v) : d = e
      /\ \A c \in Calls : call[c].pc = "insert_dm" /\ {call[c].user, call[c].with} = {u, v} =>
           Between(u, v) = {}
  BY <1>1 DEF PairInv, At, KeepsPairs
<1>4. ASSUME NEW c \in Calls, call'[c].pc = "insert_dm", {call'[c].user, call'[c].with} = {u, v}
      PROVE  Between(u, v) = {}
  <2>1. CASE call'[c] = call[c]
    BY <1>3, <1>4, <2>1
  <2>2. CASE Between(call'[c].user, call'[c].with) = {}
    BY <1>4, <2>2 DEF Between
  <2>3. QED
    BY <1>4, <2>1, <2>2
<1>5. QED
  BY <1>2, <1>3, <1>4

LEMMA PairsInserted ==
  ASSUME PairInv, TypeOK, NEW c \in Calls, Moves(c), NEW d \in DMIds, Inserts(c, d)
  PROVE  PairInv'
<1>0. PICK a, b, pair : a = call[c].user /\ b = call[c].with /\ pair = {a, b}
  OBVIOUS
<1>1. /\ call[c].pc = "insert_dm" /\ call'[c].pc = "announce_other" /\ dm[d] = NoDM
      /\ dm' = [dm EXCEPT ![d] = [kind |-> "dm", owner |-> None, users |-> pair]]
      /\ dmRaced' = IF \E o \in Calls \ {c} : At(o, "insert_dm") /\ {call[o].user, call[o].with} = pair
                    THEN dmRaced \cup {pair} ELSE dmRaced
  BY <1>0 DEF Inserts
<1>2. SUFFICES ASSUME NEW u \in Users, NEW v \in Users, u # v, {u, v} \notin dmRaced'
               PROVE  /\ \A e, f \in Between(u, v)' : e = f
                      /\ \A o \in Calls : call'[o].pc = "insert_dm"
                           /\ {call'[o].user, call'[o].with} = {u, v} => Between(u, v)' = {}
  BY DEF PairInv, At
<1>3. /\ \A e, f \in Between(u, v) : e = f
      /\ \A o \in Calls : call[o].pc = "insert_dm" /\ {call[o].user, call[o].with} = {u, v} =>
           Between(u, v) = {}
  BY <1>1, <1>2 DEF PairInv, At
<1>4. /\ dm'[d].kind = "dm" /\ dm'[d].users = pair
      /\ \A e \in DMIds : e # d => dm'[e] = dm[e]
  BY <1>1 DEF TypeOK
<1>5. CASE {u, v} = pair
  <2>1. Between(u, v) = {}
    BY <1>0, <1>1, <1>3, <1>5
  <2>2. \A e, f \in Between(u, v)' : e = f
    BY <1>4, <2>1 DEF Between
  <2>3. \A o \in Calls : ~(call'[o].pc = "insert_dm" /\ {call'[o].user, call'[o].with} = {u, v})
    <3>1. SUFFICES ASSUME NEW o \in Calls, call'[o].pc = "insert_dm",
                          {call'[o].user, call'[o].with} = {u, v}
                   PROVE  FALSE
      OBVIOUS
    <3>2. o # c
      BY <1>1, <3>1
    <3>3. call'[o] = call[o]
      BY <3>2 DEF Moves
    <3>4. dmRaced' = dmRaced \cup {pair}
      BY <1>1, <1>5, <3>1, <3>2, <3>3 DEF At
    <3>5. QED
      BY <1>2, <1>5, <3>4
  <2>4. QED
    BY <2>2, <2>3
<1>6. CASE {u, v} # pair
  <2>1. ~({u, v} \subseteq pair)
    BY <1>0, <1>2, <1>6, PairOf
  <2>2. Between(u, v)' = Between(u, v)
    BY <1>1, <1>4, <2>1, NoRows DEF Between
  <2>3. ASSUME NEW o \in Calls, call'[o].pc = "insert_dm" PROVE call'[o] = call[o]
    BY <1>1, <2>3 DEF Moves
  <2>4. QED
    BY <1>3, <2>2, <2>3
<1>7. QED
  BY <1>5, <1>6

LEMMA StepPairs ==
  ASSUME Sound, PairInv, Step
  PROVE  PairInv'
<1>0. TypeOK
  BY DEF Sound
<1>1. ASSUME NEW c \in Calls, Quietly(c), Beside(c) PROVE PairInv'
  <2>1. Moves(c)
    BY <1>1 DEF Quietly
  <2>2. CASE \E d \in DMIds : Inserts(c, d)
    BY <1>0, <2>1, <2>2, PairsInserted
  <2>3. CASE KeepsPairs /\ (call'[c].pc = "insert_dm" => Between(call'[c].user, call'[c].with) = {})
    BY <1>0, <2>1, <2>3, PairsKept DEF Moves
  <2>4. QED
    BY <1>1, <2>2, <2>3 DEF Beside
<1>2. ASSUME NEW c \in Calls, NEW m \in MessageIds, OnOne(c, m) PROVE PairInv'
  <2>1. Moves(c) /\ UNCHANGED <<dm, dmRaced>>
    BY <1>2, OneSound
  <2>2. call'[c].pc # "insert_dm"
    BY <1>2, NoRows DEF OnOne, Stores, Writes, Readies, Drops, Silences, Announces, AnnouncesDelete
  <2>3. KeepsPairs
    BY <2>1 DEF KeepsPairs
  <2>4. QED
    BY <1>0, <2>1, <2>2, <2>3, PairsKept DEF Moves
<1>3. ASSUME Apart PROVE PairInv'
  BY <1>0, <1>3, PairsKept DEF Apart
<1>4. ASSUME NEW g \in Goroutines, NEW m \in MessageIds, Indexes(g, m) PROVE PairInv'
  <2>1. KeepsPairs /\ UNCHANGED call
    BY <1>4 DEF Indexes, KeepsPairs, tables
  <2>2. QED
    BY <1>0, <2>1, PairsKept
<1>5. ASSUME Cascades PROVE PairInv'
  BY <1>0, <1>5, PairsKept DEF Cascades
<1>6. QED
  BY <1>1, <1>2, <1>3, <1>4, <1>5 DEF Step

\* Two users get two one-to-one channels only if two CreateDM transactions had
\* both found none before either committed (READ COMMITTED, no unique index).
THEOREM SecondDMsAreRaces == Spec => []SecondDMRaced
<1>1. Init => PairInv
  <2>1. SUFFICES ASSUME Init PROVE PairInv
    OBVIOUS
  <2>2. \A d \in DMIds : dm[d].kind = "none"
    BY <2>1, NoRows DEF Init
  <2>3. \A u, v \in Users : Between(u, v) = {}
    BY <2>2 DEF Between
  <2>4. QED
    BY <2>3 DEF PairInv
<1>2. Sound /\ PairInv /\ [Next]_vars => PairInv'
  BY NextSteps, StepPairs
<1>3. ASSUME PairInv PROVE SecondDMRaced
  <2>1. SUFFICES ASSUME NEW u \in Users, NEW v \in Users, u # v, {u, v} \notin dmRaced
                 PROVE  ~(Cardinality(Between(u, v)) > 1)
    BY DEF SecondDMRaced
  <2>2. PICK R : R = Between(u, v)
    OBVIOUS
  <2>3. \A d, e \in R : d = e
    BY <1>3, <2>1, <2>2 DEF PairInv
  <2>4. CASE R = {}
    BY <2>2, <2>4, FS_EmptySet
  <2>5. CASE R # {}
    <3>1. PICK d : d \in R
      BY <2>5
    <3>2. R = {d}
      BY <2>3, <3>1
    <3>3. Cardinality(R) = 1
      BY <3>2, FS_Singleton
    <3>4. QED
      BY <2>2, <3>3
  <2>6. QED
    BY <2>4, <2>5
<1>4. QED
  BY <1>1, <1>2, <1>3, MessagesSound, PTL DEF Spec

-----------------------------------------------------------------------------
(* What is told and indexed of a message. *)

\* A step that leaves n, its calls that have something to tell and its tasks alone.
Untouched(n) ==
  /\ message'[n] = message[n] /\ told'[n] = told[n] /\ index'[n] = index[n]
  /\ n \in crossed' <=> n \in crossed
  /\ n \in silent' <=> n \in silent
  /\ n \in skewed' <=> n \in skewed
  /\ workload' = workload
  /\ \A d \in Calls :
       \/ call'[d] = call[d]
       \/ /\ ~(call[d].m = n /\ call[d].pc \in Untold)
          /\ ~(call'[d].m = n /\ call'[d].pc \in Untold)
  /\ \A g \in Goroutines : tasks'[g] = tasks[g] \/ (tasks[g].m # n /\ tasks'[g].m # n)

LEMMA UntouchedStory ==
  ASSUME NEW n \in MessageIds, ToldOf(n), IndexOf(n), Untouched(n)
  PROVE  ToldOf(n)' /\ IndexOf(n)'
<1>2. ToldOf(n)'
  BY DEF ToldOf, Untouched, Untold, Found, Gone, Some
<1>3. IndexOf(n)'
  <2>1. SUFFICES ASSUME workload.search, n \notin crossed, n \notin skewed, message[n].at # "erased"
                 PROVE  \/ \E c \in Calls : WillIndex(c, n)'
                        \/ \E g \in Goroutines : tasks'[g].m = n /\ tasks'[g].text = Wanted(n)'
                        \/ (\A g \in Goroutines : tasks'[g].m # n) /\ Settled(n)'
    BY DEF IndexOf, Untouched
  <2>2. ASSUME NEW c \in Calls, WillIndex(c, n) PROVE WillIndex(c, n)'
    BY <2>2 DEF WillIndex, Untouched, Untold, Found, Gone
  <2>3. Wanted(n)' = Wanted(n) /\ (Settled(n) => Settled(n)')
    BY DEF Wanted, Settled, Untouched, Found, Deleted, InChannel
  <2>4. ASSUME NEW g \in Goroutines, tasks[g].m = n PROVE tasks'[g] = tasks[g]
    BY <2>4 DEF Untouched
  <2>5. ASSUME \A g \in Goroutines : tasks[g].m # n PROVE \A g \in Goroutines : tasks'[g].m # n
    BY <2>5 DEF Untouched
  <2>6. QED
    BY <2>1, <2>2, <2>3, <2>4, <2>5 DEF IndexOf
<1>4. QED
  BY <1>2, <1>3

LEMMA StartsUntouched ==
  ASSUME Sound, NEW m \in MessageIds, NEW n \in MessageIds, n # m, NEW text, Starts(m, text)
  PROVE  \A g \in Goroutines : tasks'[g] = tasks[g] \/ (tasks[g].m # n /\ tasks'[g].m # n)
<1>1. PICK g \in Goroutines, t \in Task :
        tasks[g] = NoTask /\ t.m = m /\ tasks' = [tasks EXCEPT ![g] = t]
  BY DEF Starts
<1>2. tasks'[g] = t /\ \A h \in Goroutines : h # g => tasks'[h] = tasks[h]
  BY <1>1 DEF Sound, TypeOK
<1>3. n # None
  BY MessagesAssumption
<1>4. QED
  BY <1>1, <1>2, <1>3, NoRows

\* A step with m leaves every other message alone.
LEMMA OthersUntouched ==
  ASSUME Sound, NEW c \in Calls, NEW m \in MessageIds, NEW n \in MessageIds, n # m, OnOne(c, m)
  PROVE  Untouched(n)
<1>0. TypeOK /\ Moves(c) /\ n # None
  BY OneSound, MessagesAssumption DEF Sound
<1>1. call[c].m # n /\ call'[c].m # n
  <2>1. CASE Stores(c, m)
    BY <1>0, <2>1 DEF Stores, Sound, CallsCarry, Carries
  <2>2. CASE ~Stores(c, m)
    BY <1>0, <2>2, NoRows DEF OnOne, Writes, Readies, Drops, Silences, Announces, AnnouncesDelete
  <2>3. QED
    BY <2>1, <2>2
<1>2. \A d \in Calls : call'[d] = call[d] \/ (call[d].m # n /\ call'[d].m # n)
  BY <1>0, <1>1 DEF Moves
<1>3. /\ message'[n] = message[n] /\ index' = index /\ workload' = workload
      /\ n \in skewed' <=> n \in skewed
      /\ n \in crossed' <=> n \in crossed
      /\ n \in silent' <=> n \in silent
  <2>1. CASE Stores(c, m)
    BY <1>0, <2>1 DEF Stores, TypeOK, search, history
  <2>2. CASE Writes(c, m)
    BY <1>0, <2>2 DEF Writes, TypeOK, search
  <2>3. CASE ~Stores(c, m) /\ ~Writes(c, m)
    <3>1. CASE Announces(c, m) \/ AnnouncesDelete(c, m)
      BY <3>1 DEF Announces, AnnouncesDelete, Tell, tables
    <3>2. CASE Readies(c, m) \/ Drops(c, m) \/ Silences(c, m)
      BY <3>2 DEF Readies, Drops, Silences, tables, search, history
    <3>3. QED
      BY <2>3, <3>1, <3>2 DEF OnOne
  <2>4. QED
    BY <2>1, <2>2, <2>3
<1>4. CASE Announces(c, m) \/ AnnouncesDelete(c, m)
  <2>1. told'[n] = told[n]
    BY <1>0, <1>4 DEF Announces, AnnouncesDelete, Tell, TypeOK
  <2>2. \A g \in Goroutines : tasks'[g] = tasks[g] \/ (tasks[g].m # n /\ tasks'[g].m # n)
    <3>1. tasks' = tasks \/ Starts(m, None) \/ Starts(m, call[c].copy.text)
      BY <1>4 DEF Announces, AnnouncesDelete
    <3>2. QED
      BY <3>1, StartsUntouched
  <2>3. QED
    BY <1>2, <1>3, <2>1, <2>2 DEF Untouched
<1>5. CASE ~(Announces(c, m) \/ AnnouncesDelete(c, m))
  <2>1. told' = told /\ tasks' = tasks
    BY <1>5 DEF OnOne, Stores, Writes, Readies, Drops, Silences, search, history
  <2>2. QED
    BY <1>2, <1>3, <2>1 DEF Untouched
<1>6. QED
  BY <1>4, <1>5

LEMMA QuietUntouched ==
  ASSUME NEW n \in MessageIds, NEW c \in Calls, Quietly(c)
  PROVE  Untouched(n)
BY DEF Quietly, Untouched, Moves, aboutMessages

LEMMA ApartUntouched ==
  ASSUME NEW n \in MessageIds, Apart
  PROVE  Untouched(n)
BY DEF Apart, Untouched, aboutMessages

\* A post's first row: nothing is told or indexed of it, and nobody else has it.
LEMMA StoresStory ==
  ASSUME Sound, NEW c \in Calls, NEW m \in MessageIds, Stores(c, m)
  PROVE  ToldOf(m)' /\ IndexOf(m)'
<1>0. TypeOK /\ Carries(c) /\ m # None /\ Moves(c) /\ Carries(c)'
  BY MessagesAssumption DEF Sound, CallsCarry, Stores
<1>1. PICK row \in Message :
        /\ row.at = "live" /\ row.thread = call[c].thread /\ row.chan = call[c].chan
        /\ message' = [message EXCEPT ![m] = row] /\ call'[c].copy = row
  BY DEF Stores
<1>2. message'[m] = row
  BY <1>0, <1>1 DEF TypeOK
<1>3. /\ UNCHANGED <<index, tasks, workload, told, crossed, silent, skewed>>
      /\ call[c].pc = "store" /\ message[m].at = "none"
      /\ call'[c].m = m /\ call'[c].kind = call[c].kind
      /\ call'[c].pc = IF call[c].kind = "send" THEN "audience" ELSE "link"
  BY NoRows DEF Stores, search, history
<1>4. told[m] = NoMessage /\ index[m] = None
  BY <1>3 DEF Sound, RowsOwned
<1>5. \A g \in Goroutines : tasks[g].m # m
  BY <1>0, <1>3, NoRows DEF Sound, RowsOwned
<1>6. \A d \in Calls : d # c => call'[d].m # m
  BY <1>0, <1>3 DEF Sound, CallsCarry, Carries, Moves
<1>8. Found(m)' /\ ~Gone(m)'
  BY <1>1, <1>2 DEF Found, Gone
<1>9. ToldOf(m)'
  BY <1>1, <1>2, <1>3, <1>4, <1>6, <1>8, NoRows DEF ToldOf, Some
<1>10. IndexOf(m)'
  <2>1. CASE call[c].kind = "post"
    <3>1. WillIndex(c, m)'
      BY <1>3, <1>8, <2>1 DEF WillIndex
    <3>2. QED
      BY <3>1 DEF IndexOf
  <2>2. CASE call[c].kind = "threadpost"
    <3>1. row.thread # None
      BY <1>0, <1>1, <1>3, <2>2, MessagesAssumption DEF Carries
    <3>2. Settled(m)'
      BY <1>2, <1>3, <1>4, <3>1 DEF Settled
    <3>3. QED
      BY <1>3, <1>5, <3>2 DEF IndexOf
  <2>3. CASE call[c].kind = "send"
    <3>1. row.chan \notin Channels
      BY <1>0, <1>1, <1>3, <2>3, MessagesAssumption DEF Carries
    <3>2. Settled(m)'
      BY <1>2, <1>3, <1>4, <3>1 DEF Settled, InChannel
    <3>3. QED
      BY <1>3, <1>5, <3>2 DEF IndexOf
  <2>4. QED
    BY <1>0, <1>3, <2>1, <2>2, <2>3 DEF Carries
<1>11. QED
  BY <1>9, <1>10

\* A write: the older copies are crossed, and the writer will tell and index
\* the new row.
LEMMA WritesStory ==
  ASSUME Sound, NEW c \in Calls, NEW m \in MessageIds, Writes(c, m),
         ToldOf(m), IndexOf(m)
  PROVE  ToldOf(m)' /\ IndexOf(m)'
<1>0. TypeOK /\ Moves(c) /\ Found(m)
  BY DEF Sound, Writes
<1>1. PICK row \in Message :
        /\ message' = [message EXCEPT ![m] = row]
        /\ row.chan = message[m].chan /\ row.thread = message[m].thread
        /\ \/ row.at = "deleted" /\ call'[c].pc = "announce_delete"
           \/ /\ row.at = "live" /\ call'[c].pc = "reload"
              /\ call[c].kind = "edit" \/ row.text = message[m].text
  BY DEF Writes
<1>2. message'[m] = row
  BY <1>0, <1>1 DEF TypeOK
<1>3. /\ UNCHANGED <<index, tasks, workload, told, silent, skewed>>
      /\ call[c].m = m /\ call'[c].m = m /\ call'[c].kind = call[c].kind
      /\ call[c].pc \notin Untold
      /\ crossed' = IF Holders(m) \ {c} = {} THEN crossed ELSE crossed \cup {m}
  BY DEF Writes, search
<1>4. CASE m \in crossed'
  BY <1>4 DEF ToldOf, IndexOf
<1>5. CASE m \notin crossed'
  <2>1. Holders(m) \ {c} = {} /\ m \notin crossed
    BY <1>3, <1>5
  <2>2. \A d \in Calls : call'[d].m = m => call'[d].pc \notin {"link", "audience", "announce"}
    <3>1. SUFFICES ASSUME NEW d \in Calls, call'[d].m = m,
                          call'[d].pc \in {"link", "audience", "announce"}
                   PROVE  FALSE
      OBVIOUS
    <3>2. d # c
      BY <1>1, <3>1
    <3>3. d \in Holders(m) \ {c}
      BY <1>0, <3>1, <3>2 DEF Holders, Moves
    <3>4. QED
      BY <2>1, <3>3
  <2>3. told[m].at # "deleted"
    BY <1>0, <2>1 DEF ToldOf, Found, Gone
  <2>4. CASE row.at = "deleted" /\ call'[c].pc = "announce_delete"
    <3>1. ~Found(m)' /\ Gone(m)'
      BY <1>2, <2>4 DEF Found, Gone
    <3>2. ToldOf(m)'
      BY <1>3, <2>2, <2>4, <3>1 DEF ToldOf, Some
    <3>3. WillIndex(c, m)'
      BY <1>3, <2>4, <3>1 DEF WillIndex
    <3>4. QED
      BY <3>2, <3>3 DEF IndexOf
  <2>5. CASE /\ row.at = "live" /\ call'[c].pc = "reload"
             /\ call[c].kind = "edit" \/ row.text = message[m].text
    <3>1. Found(m)' /\ ~Gone(m)' /\ ~Gone(m) /\ message[m].at # "erased"
      BY <1>0, <1>2, <2>5 DEF Found, Gone
    <3>2. ToldOf(m)'
      BY <1>3, <2>2, <2>3, <2>5, <3>1 DEF ToldOf, Some
    <3>3. CASE call[c].kind = "edit"
      <4>1. WillIndex(c, m)'
        BY <1>3, <2>5, <3>1, <3>3 DEF WillIndex
      <4>2. QED
        BY <3>2, <4>1 DEF IndexOf
    <3>4. CASE row.text = message[m].text
      <4>1. Wanted(m)' = Wanted(m)
        BY <1>0, <1>2, <3>1, <3>4 DEF Wanted
      <4>2. Settled(m)' = Settled(m)
        <5>1. /\ index'[m] = index[m] /\ message'[m].text = message[m].text
              /\ message'[m].chan = message[m].chan /\ message'[m].thread = message[m].thread
          BY <1>1, <1>2, <1>3, <3>4
        <5>2. Found(m) /\ Found(m)' /\ ~Deleted(m) /\ ~Deleted(m)'
          BY <1>0, <3>1 DEF Found, Deleted
        <5>3. QED
          BY <5>1, <5>2 DEF Settled, InChannel
      <4>3. ASSUME NEW d \in Calls, WillIndex(d, m) PROVE WillIndex(d, m)'
        <5>1. d # c
          BY <1>3, <4>3 DEF WillIndex, Untold
        <5>2. call'[d] = call[d]
          BY <1>0, <5>1 DEF Moves
        <5>3. QED
          BY <1>0, <3>1, <4>3, <5>2 DEF WillIndex
      <4>4. IndexOf(m)'
        BY <1>3, <2>1, <3>1, <4>1, <4>2, <4>3 DEF IndexOf
      <4>5. QED
        BY <3>2, <4>4
    <3>5. QED
      BY <2>5, <3>3, <3>4
  <2>6. QED
    BY <1>1, <2>4, <2>5
<1>6. QED
  BY <1>4, <1>5

\* On the way to the announcement the copy is what is stored.
LEMMA ReadiesStory ==
  ASSUME Sound, NEW c \in Calls, NEW m \in MessageIds, Readies(c, m),
         ToldOf(m), IndexOf(m)
  PROVE  ToldOf(m)' /\ IndexOf(m)'
<1>1. /\ UNCHANGED <<message, index, tasks, workload, told, crossed, silent, skewed>>
      /\ call[c].m = m /\ call'[c].m = m /\ call'[c].kind = call[c].kind
      /\ call'[c].pc = "announce" /\ call[c].pc \in {"link", "audience", "reload"}
      /\ \A d \in Calls : d # c => call'[d] = call[d]
  BY DEF Readies, Moves, tables, search, history
<1>3. m \notin crossed => call'[c].copy = message[m]
  BY <1>1 DEF Readies, ToldOf
<1>4. ToldOf(m)'
  <2>1. SUFFICES ASSUME m \notin crossed PROVE ToldOf(m)'
    BY <1>1 DEF ToldOf
  <2>2. \A d \in Calls : call'[d].m = m /\ call'[d].pc \in {"link", "audience", "announce"} =>
          call'[d].copy = message[m]
    BY <1>1, <1>3, <2>1 DEF ToldOf
  <2>3. Some(m, {"link", "audience", "reload", "announce"})'
    BY <1>1 DEF Some
  <2>4. Some(m, {"announce_delete"}) => Some(m, {"announce_delete"})'
    BY <1>1 DEF Some
  <2>5. QED
    BY <1>1, <2>1, <2>2, <2>3, <2>4 DEF ToldOf, Gone
<1>5. ASSUME NEW d \in Calls, WillIndex(d, m) PROVE WillIndex(d, m)'
  BY <1>1, <1>5 DEF WillIndex, Found, Gone
<1>6. Wanted(m)' = Wanted(m) /\ Settled(m)' = Settled(m)
  BY <1>1 DEF Wanted, Settled, Found, Deleted, InChannel
<1>7. IndexOf(m)'
  BY <1>1, <1>5, <1>6 DEF IndexOf
<1>8. QED
  BY <1>4, <1>7

\* A reload that finds the message gone leaves the telling to the deletion.
LEMMA DropsStory ==
  ASSUME Sound, NEW c \in Calls, NEW m \in MessageIds, Drops(c, m),
         ToldOf(m), IndexOf(m)
  PROVE  ToldOf(m)' /\ IndexOf(m)'
<1>1. /\ UNCHANGED <<message, index, tasks, workload, told, crossed, silent, skewed>>
      /\ call[c].m = m /\ call'[c].m # m /\ call'[c].pc = "idle" /\ call[c].pc = "reload"
      /\ ~Found(m) /\ \A d \in Calls : d # c => call'[d] = call[d]
  BY NoRows, MessagesAssumption DEF Drops, Moves, tables, search, history
<1>3. Some(m, {"announce_delete"}) => Some(m, {"announce_delete"})'
  BY <1>1 DEF Some
<1>4. ~Found(m)' /\ Gone(m)' = Gone(m)
  BY <1>1 DEF Found, Gone
<1>5. \A d \in Calls : call'[d].m = m /\ call'[d].pc \in {"link", "audience", "announce"} =>
        call'[d] = call[d]
  BY <1>1
<1>6. ToldOf(m)'
  BY <1>1, <1>3, <1>4, <1>5 DEF ToldOf
<1>7. ASSUME NEW d \in Calls, WillIndex(d, m) PROVE WillIndex(d, m)'
  BY <1>1, <1>4, <1>7 DEF WillIndex
<1>8. Wanted(m)' = Wanted(m) /\ Settled(m)' = Settled(m)
  BY <1>1 DEF Wanted, Settled, Found, Deleted, InChannel
<1>9. IndexOf(m)'
  BY <1>1, <1>7, <1>8 DEF IndexOf
<1>10. QED
  BY <1>6, <1>9

\* A handler that ends after its write leaves it on record.
LEMMA SilencesStory ==
  ASSUME Sound, NEW c \in Calls, NEW m \in MessageIds, Silences(c, m),
         ToldOf(m), IndexOf(m)
  PROVE  ToldOf(m)' /\ IndexOf(m)'
<1>1. /\ UNCHANGED <<message, index, tasks, workload, told, crossed>>
      /\ call[c].m = m /\ call'[c].m # m /\ m \in silent'
      /\ \A d \in Calls : d # c => call'[d] = call[d]
      /\ skewed' = IF call[c].kind \in {"post", "edit", "delete"} THEN skewed \cup {m} ELSE skewed
  BY NoRows, MessagesAssumption DEF Silences, Moves, tables, search
<1>2. \A d \in Calls : call'[d].m = m => call'[d] = call[d]
  BY <1>1
<1>3. ToldOf(m)'
  BY <1>1, <1>2 DEF ToldOf, Found, Gone
<1>4. CASE m \in skewed'
  BY <1>3, <1>4 DEF IndexOf
<1>5. CASE m \notin skewed'
  <2>1. skewed' = skewed /\ call[c].kind \notin {"post", "edit", "delete"}
    BY <1>1, <1>5
  <2>2. ASSUME NEW d \in Calls, WillIndex(d, m) PROVE WillIndex(d, m)'
    <3>1. d # c
      BY <1>1, <2>1, <2>2 DEF WillIndex, Sound, CallsCarry, Carries
    <3>2. QED
      BY <1>1, <2>2, <3>1 DEF WillIndex, Found, Gone
  <2>3. Wanted(m)' = Wanted(m) /\ Settled(m)' = Settled(m)
    BY <1>1 DEF Wanted, Settled, Found, Deleted, InChannel
  <2>4. IndexOf(m)'
    BY <1>1, <2>1, <2>2, <2>3 DEF IndexOf
  <2>5. QED
    BY <1>3, <2>4
<1>6. QED
  BY <1>4, <1>5

LEMMA StartedTask ==
  ASSUME Sound, NEW m \in MessageIds, NEW text, Starts(m, text)
  PROVE  \E g \in Goroutines : tasks'[g].m = m /\ tasks'[g].text = text
<1>1. PICK g \in Goroutines, t \in Task :
        t.m = m /\ t.text = text /\ tasks' = [tasks EXCEPT ![g] = t]
  BY DEF Starts
<1>2. tasks'[g] = t
  BY <1>1 DEF Sound, TypeOK
<1>3. QED
  BY <1>1, <1>2

\* The event and the task carry what is stored, unless a write crossed them.
LEMMA AnnouncesStory ==
  ASSUME Sound, NEW c \in Calls, NEW m \in MessageIds, Announces(c, m),
         ToldOf(m), IndexOf(m)
  PROVE  ToldOf(m)' /\ IndexOf(m)'
<1>1. /\ UNCHANGED <<message, index, workload, crossed, skewed>>
      /\ call[c].m = m /\ call'[c].m # m /\ call[c].pc = "announce"
      /\ Tell(c, call[c].copy)
      /\ \A d \in Calls : d # c => call'[d] = call[d]
  BY NoRows, MessagesAssumption DEF Announces, Moves, tables
<1>2. CASE m \in crossed
  BY <1>1, <1>2 DEF ToldOf, IndexOf
<1>3. CASE m \notin crossed
  <2>1. call[c].copy = message[m] /\ call[c].copy.at = "live"
    BY <1>1, <1>3 DEF ToldOf, Sound, CallsCarry, Carries
  <2>2. Found(m) /\ ~Gone(m) /\ Found(m)' /\ ~Gone(m)' /\ ~Deleted(m)
    BY <1>1, <2>1 DEF Found, Deleted, Gone
  <2>3. \/ told'[m] = message[m]
        \/ told'[m] = told[m] /\ m \in silent'
    BY <1>1, <2>1 DEF Tell, Sound, TypeOK
  <2>4. told'[m].at # "deleted"
    BY <1>3, <2>1, <2>2, <2>3 DEF ToldOf
  <2>5. ToldOf(m)'
    BY <1>1, <1>3, <2>2, <2>3, <2>4 DEF ToldOf
  <2>6. Wanted(m)' = message[m].text /\ Wanted(m) = message[m].text /\ Settled(m)' = Settled(m)
    BY <1>1, <2>2 DEF Wanted, Settled, InChannel, Found, Deleted
  <2>7. CASE call[c].kind \in {"post", "edit"} /\ workload.search
    <3>1. Starts(m, call[c].copy.text)
      BY <2>7 DEF Announces
    <3>2. \E g \in Goroutines : tasks'[g].m = m /\ tasks'[g].text = Wanted(m)'
      BY <2>1, <2>6, <3>1, StartedTask
    <3>3. QED
      BY <2>5, <3>2 DEF IndexOf
  <2>8. CASE ~(call[c].kind \in {"post", "edit"} /\ workload.search)
    <3>1. tasks' = tasks
      BY <2>8 DEF Announces
    <3>2. CASE ~workload.search
      BY <1>1, <2>5, <3>2 DEF IndexOf
    <3>3. CASE call[c].kind \notin {"post", "edit"}
      <4>1. ASSUME NEW d \in Calls, WillIndex(d, m) PROVE WillIndex(d, m)'
        <5>1. d # c
          BY <1>1, <2>2, <3>3, <4>1 DEF WillIndex
        <5>2. QED
          BY <1>1, <2>2, <4>1, <5>1 DEF WillIndex
      <4>2. IndexOf(m)'
        BY <1>1, <2>6, <3>1, <4>1 DEF IndexOf
      <4>3. QED
        BY <2>5, <4>2
    <3>4. QED
      BY <2>8, <3>2, <3>3
  <2>9. QED
    BY <2>7, <2>8
<1>4. QED
  BY <1>2, <1>3

LEMMA AnnouncesDeleteStory ==
  ASSUME Sound, NEW c \in Calls, NEW m \in MessageIds, AnnouncesDelete(c, m),
         ToldOf(m), IndexOf(m)
  PROVE  ToldOf(m)' /\ IndexOf(m)'
<1>1. /\ UNCHANGED <<message, index, workload, crossed, skewed>>
      /\ call[c].m = m /\ call'[c].m # m /\ call[c].pc = "announce_delete"
      /\ \A d \in Calls : d # c => call'[d] = call[d]
  BY NoRows, MessagesAssumption DEF AnnouncesDelete, Moves, tables
<1>2. told'[m].at = "deleted" \/ (told'[m] = told[m] /\ m \in silent')
  <2>1. PICK row \in Message : row.at = "deleted" /\ Tell(c, row)
    BY DEF AnnouncesDelete
  <2>2. QED
    BY <1>1, <2>1 DEF Tell, Sound, TypeOK
<1>3. Gone(m)' /\ ~Found(m)'
  BY <1>1 DEF Sound, CallsCarry, Carries, Gone, Found
<1>4. \A d \in Calls : call'[d].m = m => call'[d] = call[d]
  BY <1>1
<1>5. ToldOf(m)'
  BY <1>1, <1>2, <1>3, <1>4 DEF ToldOf
<1>6. IndexOf(m)'
  <2>1. CASE ~workload.search
    BY <1>1, <2>1 DEF IndexOf
  <2>2. CASE workload.search
    <3>1. Starts(m, None) /\ Wanted(m)' = None
      BY <1>3, <2>2 DEF AnnouncesDelete, Wanted
    <3>2. \E g \in Goroutines : tasks'[g].m = m /\ tasks'[g].text = Wanted(m)'
      BY <3>1, StartedTask
    <3>3. QED
      BY <3>2 DEF IndexOf
  <2>3. QED
    BY <2>1, <2>2
<1>7. QED
  BY <1>5, <1>6

\* A request to the search server: alone and complete, it settles the document.
LEMMA IndexesStory ==
  ASSUME Sound, NEW g \in Goroutines, NEW m \in MessageIds, Indexes(g, m),
         ToldOf(m), IndexOf(m)
  PROVE  ToldOf(m)' /\ IndexOf(m)'
<1>1. /\ UNCHANGED <<message, call, workload, told, crossed, silent>>
      /\ tasks[g].m = m /\ tasks[g] # NoTask
  BY DEF Indexes, tables
<1>2. message[m].at # "none" /\ message[m] \in Message /\ m # None
  BY <1>1, MessagesAssumption DEF Sound, RowsOwned, TypeOK
<1>4. ToldOf(m)'
  BY <1>1 DEF ToldOf, Found, Gone, Some
<1>5. PICK doc \in Texts \cup {None}, over \in BOOLEAN, s \in Task :
        /\ index' = [index EXCEPT ![m] = doc]
        /\ tasks' = [tasks EXCEPT ![g] = s]
        /\ IF over THEN s = NoTask ELSE s.m = m /\ s.op = tasks[g].op /\ s.text = tasks[g].text
        /\ skewed' = IF (over /\ doc # tasks[g].text) \/ \E h \in Goroutines \ {g} : tasks[h].m = m
                     THEN skewed \cup {m} ELSE skewed
  BY DEF Indexes
<1>6. /\ index'[m] = doc /\ tasks'[g] = s
      /\ \A h \in Goroutines : h # g => tasks'[h] = tasks[h]
  BY <1>5 DEF Sound, TypeOK
<1>7. IndexOf(m)'
  <2>1. SUFFICES ASSUME workload.search, m \notin crossed, m \notin skewed', message[m].at # "erased"
                 PROVE  \/ \E c \in Calls : WillIndex(c, m)'
                        \/ \E h \in Goroutines : tasks'[h].m = m /\ tasks'[h].text = Wanted(m)'
                        \/ (\A h \in Goroutines : tasks'[h].m # m) /\ Settled(m)'
    BY <1>1 DEF IndexOf
  <2>2. /\ m \notin skewed /\ (over => doc = tasks[g].text)
        /\ \A h \in Goroutines : h # g => tasks[h].m # m
    BY <1>5, <2>1
  <2>3. ASSUME NEW c \in Calls, WillIndex(c, m) PROVE WillIndex(c, m)'
    BY <1>1, <2>3 DEF WillIndex, Found, Gone
  <2>4. CASE \E c \in Calls : WillIndex(c, m)
    BY <2>3, <2>4
  <2>5. CASE ~\E c \in Calls : WillIndex(c, m)
    <3>1. tasks[g].text = Wanted(m)
      BY <1>1, <2>1, <2>2, <2>5 DEF IndexOf
    <3>2. Wanted(m)' = Wanted(m)
      BY <1>1 DEF Wanted, Found
    <3>3. CASE ~over
      BY <1>5, <1>6, <3>1, <3>2, <3>3
    <3>4. CASE over
      <4>1. \A h \in Goroutines : tasks'[h].m # m
        BY <1>2, <1>5, <1>6, <2>2, <3>4, NoRows
      <4>2. index'[m] = Wanted(m)
        BY <1>6, <2>2, <3>1, <3>4
      <4>3. Found(m) \/ Deleted(m)
        BY <1>2, <2>1 DEF Found, Deleted, Message
      <4>4. Settled(m)'
        BY <1>1, <4>2, <4>3 DEF Settled, Wanted, Found, Deleted
      <4>5. QED
        BY <4>1, <4>4
    <3>5. QED
      BY <3>3, <3>4
  <2>6. QED
    BY <2>4, <2>5
<1>8. QED
  BY <1>4, <1>7

\* The deletion of an account leaves a message alone or on record.
LEMMA SweptStory ==
  ASSUME Sound, NEW n \in MessageIds, Cascades, ToldOf(n), IndexOf(n)
  PROVE  ToldOf(n)' /\ IndexOf(n)'
<1>0. UNCHANGED <<index, tasks, call, workload, told>> /\ Swept(n)
  BY DEF Cascades
<1>1. CASE /\ message'[n] = message[n]
           /\ (n \in crossed' <=> n \in crossed) /\ (n \in silent' <=> n \in silent)
           /\ (n \in skewed' <=> n \in skewed)
  BY <1>0, <1>1, UntouchedStory DEF Untouched
<1>2. CASE ~(/\ message'[n] = message[n]
             /\ (n \in crossed' <=> n \in crossed) /\ (n \in silent' <=> n \in silent)
             /\ (n \in skewed' <=> n \in skewed))
  <2>1. /\ n \in silent' /\ (n \in crossed' <=> n \in crossed \/ Holders(n) # {})
        /\ message'[n].at \in {message[n].at, "erased"}
        /\ message'[n].at = "erased" \/ n \in skewed'
    BY <1>0, <1>2 DEF Swept
  <2>2. IndexOf(n)'
    BY <2>1 DEF IndexOf
  <2>3. CASE n \in crossed'
    BY <2>2, <2>3 DEF ToldOf
  <2>4. CASE n \notin crossed'
    <3>1. n \notin crossed /\ Holders(n) = {}
      BY <2>1, <2>4
    <3>2. \A c \in Calls : ~(call'[c].m = n /\ call'[c].pc \in {"link", "audience", "announce"})
      BY <1>0, <3>1 DEF Holders
    <3>3. told[n].at = "deleted" => Gone(n)'
      BY <2>1, <3>1 DEF ToldOf, Gone
    <3>4. QED
      BY <1>0, <2>1, <2>2, <3>2, <3>3 DEF ToldOf
  <2>5. QED
    BY <2>3, <2>4
<1>3. QED
  BY <1>1, <1>2

LEMMA StepStory ==
  ASSUME Sound, StoryInv, Step
  PROVE  StoryInv'
<1>1. SUFFICES ASSUME NEW n \in MessageIds PROVE ToldOf(n)' /\ IndexOf(n)'
  BY DEF StoryInv
<1>2. ToldOf(n) /\ IndexOf(n)
  BY DEF StoryInv
<1>3. ASSUME Untouched(n) PROVE ToldOf(n)' /\ IndexOf(n)'
  BY <1>2, <1>3, UntouchedStory
<1>4. ASSUME NEW c \in Calls, Quietly(c) PROVE Untouched(n)
  BY <1>4, QuietUntouched
<1>5. ASSUME Apart PROVE Untouched(n)
  BY <1>5, ApartUntouched
<1>6. ASSUME NEW c \in Calls, NEW m \in MessageIds, OnOne(c, m)
      PROVE  ToldOf(n)' /\ IndexOf(n)'
  <2>1. CASE n # m
    BY <1>3, <1>6, <2>1, OthersUntouched
  <2>2. CASE n = m
    BY <1>2, <1>6, <2>2, StoresStory, WritesStory, ReadiesStory, DropsStory, SilencesStory,
       AnnouncesStory, AnnouncesDeleteStory DEF OnOne
  <2>3. QED
    BY <2>1, <2>2
<1>7. ASSUME NEW g \in Goroutines, NEW m \in MessageIds, Indexes(g, m)
      PROVE  ToldOf(n)' /\ IndexOf(n)'
  <2>1. CASE n # m
    <3>1. UNCHANGED <<message, call, workload, told, crossed, silent>>
      BY <1>7 DEF Indexes, tables
    <3>2. PICK doc \in Texts \cup {None}, s \in Task :
            /\ index' = [index EXCEPT ![m] = doc]
            /\ tasks' = [tasks EXCEPT ![g] = s]
            /\ s = NoTask \/ s.m = m
            /\ skewed' = skewed \/ skewed' = skewed \cup {m}
      BY <1>7 DEF Indexes
    <3>3. /\ index'[n] = index[n] /\ tasks'[g] = s /\ tasks[g].m = m
          /\ \A h \in Goroutines : h # g => tasks'[h] = tasks[h]
      BY <1>7, <2>1, <3>2 DEF Indexes, Sound, TypeOK
    <3>4. n # None
      BY MessagesAssumption
    <3>5. Untouched(n)
      BY <2>1, <3>1, <3>2, <3>3, <3>4, NoRows DEF Untouched
    <3>6. QED
      BY <1>3, <3>5
  <2>2. CASE n = m
    BY <1>2, <1>7, <2>2, IndexesStory
  <2>3. QED
    BY <2>1, <2>2
<1>8. ASSUME Cascades PROVE ToldOf(n)' /\ IndexOf(n)'
  BY <1>2, <1>8, SweptStory
<1>9. QED
  BY <1>3, <1>4, <1>5, <1>6, <1>7, <1>8 DEF Step

\* Of every message: the copies handlers hold are current, what is stored but
\* not told has a handler that will tell it, and its document has a task or is
\* settled, except where an overtaken copy, a handler that ended early, a deleted
\* account or a failed index request is on record.
THEOREM StoryHolds == Spec => []StoryInv
<1>1. Init => StoryInv
  <2>1. SUFFICES ASSUME Init, NEW m \in MessageIds PROVE ToldOf(m) /\ IndexOf(m)
    BY DEF StoryInv
  <2>2. message[m] = NoMessage /\ index[m] = None /\ m # None
    BY <2>1, MessagesAssumption DEF Init
  <2>3. \A c \in Calls : call[c].m = None
    BY <2>1, NoRows DEF Init
  <2>4. \A g \in Goroutines : tasks[g].m = None
    BY <2>1, NoRows DEF Init
  <2>5. told[m].at = "none"
    BY <2>1, NoRows DEF Init
  <2>6. ToldOf(m)
    BY <2>2, <2>3, <2>5, NoRows DEF ToldOf, Found, Gone
  <2>7. Settled(m)
    BY <2>2, NoRows, MessagesAssumption DEF Settled, InChannel
  <2>8. IndexOf(m)
    BY <2>2, <2>4, <2>7 DEF IndexOf
  <2>9. QED
    BY <2>6, <2>8
<1>2. Sound /\ StoryInv /\ [Next]_vars => StoryInv'
  BY NextSteps, StepStory
<1>3. QED
  BY <1>1, <1>2, MessagesSound, PTL DEF Spec

\* Once no request on a message is under way, the people of its channel were
\* last told what is stored, unless a write overtook the announcement of an older
\* copy or its last change was announced to none of them (a handler that ended
\* after its write, an edit or deletion of a direct message, a deleted account).
THEOREM ClientsAreTold == Spec => []ClientsSeeStored
<1>1. ASSUME Sound, StoryInv PROVE ClientsSeeStored
  <2>1. SUFFICES ASSUME NEW m \in MessageIds, \A c \in Calls : call[c].m # m, m \notin crossed,
                        m \notin silent
                 PROVE  told[m] = message[m] \/ (Gone(m) /\ told[m].at = "deleted")
    BY DEF ClientsSeeStored, Gone
  <2>2. ToldOf(m) /\ message[m] \in Message
    BY <1>1 DEF StoryInv, Sound, TypeOK
  <2>3. ~Some(m, {"link", "audience", "reload", "announce"}) /\ ~Some(m, {"announce_delete"})
    BY <2>1 DEF Some
  <2>4. CASE Found(m)
    BY <2>1, <2>2, <2>3, <2>4 DEF ToldOf
  <2>5. CASE Gone(m)
    BY <2>1, <2>2, <2>3, <2>5 DEF ToldOf
  <2>6. CASE message[m].at = "none"
    BY <1>1, <2>6 DEF Sound, RowsOwned
  <2>7. QED
    BY <2>2, <2>4, <2>5, <2>6 DEF Found, Gone, Message
<1>2. QED
  BY <1>1, MessagesSound, StoryHolds, PTL

\* People who were told of a deletion hear of the message again only if a handler
\* held an unannounced copy of it when its row changed: every other edit or pin
\* reads the row again before its event and finds it gone.
THEOREM DeletionIsToldLast == Spec => DeletionToldLast
<1>1. ASSUME Sound, StoryInv, [Next]_vars, NEW m \in MessageIds, told[m].at = "deleted",
             told'[m].at # "deleted"
      PROVE  m \in crossed
  <2>0. SUFFICES ASSUME m \notin crossed PROVE FALSE
    OBVIOUS
  <2>1. ToldOf(m) /\ Gone(m)
    BY <1>1, <2>0 DEF StoryInv, ToldOf
  <2>2. ASSUME NEW n \in MessageIds, NEW row \in Message, told' = [told EXCEPT ![n] = row]
        PROVE  n = m /\ row.at # "deleted"
    BY <1>1, <2>2 DEF Sound, TypeOK
  <2>3. told' # told
    BY <1>1
  <2>4. ASSUME NEW c \in Calls, NEW n \in MessageIds, OnOne(c, n) PROVE FALSE
    <3>1. CASE Announces(c, n)
      <4>1. call[c].m = n /\ call[c].pc = "announce" /\ call[c].copy \in Message
        BY <1>1, <3>1 DEF Announces, Sound, TypeOK, Call
      <4>2. told' = [told EXCEPT ![n] = call[c].copy]
        BY <2>3, <3>1, <4>1 DEF Announces, Tell
      <4>3. n = m
        BY <2>2, <4>1, <4>2
      <4>4. call[c].copy = message[m] /\ call[c].copy.at = "live"
        BY <1>1, <2>0, <2>1, <4>1, <4>3 DEF ToldOf, Sound, CallsCarry, Carries
      <4>5. QED
        BY <2>1, <4>4 DEF Gone
    <3>2. CASE AnnouncesDelete(c, n)
      <4>1. PICK row \in Message : row.at = "deleted" /\ Tell(c, row) /\ call[c].m = n
        BY <3>2 DEF AnnouncesDelete
      <4>2. told' = [told EXCEPT ![n] = row]
        BY <2>3, <4>1 DEF Tell
      <4>3. QED
        BY <2>2, <4>1, <4>2
    <3>3. CASE ~Announces(c, n) /\ ~AnnouncesDelete(c, n)
      BY <2>3, <2>4, <3>3 DEF OnOne, Stores, Writes, Readies, Drops, Silences, history
    <3>4. QED
      BY <3>1, <3>2, <3>3
  <2>5. Step
    BY <1>1, NextSteps
  <2>6. QED
    BY <2>3, <2>4, <2>5 DEF Step, Quietly, Apart, Cascades, Indexes, aboutMessages
<1>2. Sound /\ StoryInv /\ [Next]_vars =>
        [\A m \in MessageIds :
           told[m].at = "deleted" /\ told'[m].at # "deleted" => m \in crossed]_vars
  BY <1>1
<1>3. QED
  BY <1>2, MessagesSound, StoryHolds, PTL DEF Spec, DeletionToldLast

\* Once no request and no index goroutine of a message is under way, its document
\* has the stored text or is gone with the message, unless a request failed, was
\* refused, crossed another or was never started; the documents of a deleted
\* account's messages are not spoken for.
THEOREM SearchIsCurrent == Spec => []SearchFollowsMessages
<1>1. ASSUME StoryInv PROVE SearchFollowsMessages
  <2>1. SUFFICES ASSUME NEW m \in MessageIds, workload.search, \A c \in Calls : call[c].m # m,
                        \A g \in Goroutines : tasks[g].m # m, m \notin crossed \cup skewed,
                        message[m].at # "erased"
                 PROVE  Settled(m)
    BY DEF SearchFollowsMessages, Settled
  <2>2. IndexOf(m)
    BY <1>1 DEF StoryInv
  <2>3. \A c \in Calls : ~WillIndex(c, m)
    BY <2>1 DEF WillIndex
  <2>4. QED
    BY <2>1, <2>2, <2>3 DEF IndexOf
<1>2. QED
  BY <1>1, StoryHolds, PTL

=============================================================================
