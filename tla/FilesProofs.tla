----------------------------- MODULE FilesProofs -----------------------------
(***************************************************************************)
(* Proofs about Files, for every set of users, attachments, images, emoji, *)
(* messages and calls, every limit and every mix of requests, with the     *)
(* process dying anywhere.  Keys come in families (attachments, images,    *)
(* emoji) and a key is drawn once: first one request holds it, then a row  *)
(* names it, then one request or the purge deletes it.                     *)
(***************************************************************************)
EXTENDS Files, FiniteSetTheorems, TLAPS

Images == {Image(i) : i \in ImageIds}

ImageKinds == {"upload_image", "delete_image"}

\* The phases in which no row names the key a call has drawn.
Unnamed == {"put", "row", "cleanup"}

\* What a call carries between its steps.
Carries(c) ==
  LET r == call[c] IN
  /\ r.kind = "none" <=> r.pc = "idle"
  /\ r.kind = "none" => r.new = None /\ r.old = None
  /\ r.kind = "upload" =>
       /\ r.pc \in Unnamed \cup {"enqueue"} /\ r.user \in Users /\ r.arg \in AttachmentIds
       /\ r.new = Original(r.arg) /\ r.old = None
  /\ r.kind = "post" =>
       /\ r.pc = "link" /\ r.user \in Users /\ r.arg \in PostIds /\ post[r.arg].author = r.user
       /\ r.new = None /\ r.old = None
  /\ r.kind = "upload_image" =>
       /\ r.pc \in Unnamed \cup {"delete_old"} /\ r.arg \in Slots
       /\ r.pc \in Unnamed => r.new \in Images /\ r.old \in Images \cup {None}
       /\ r.pc = "delete_old" => r.new = None /\ r.old \in Images
  /\ r.kind = "delete_image" =>
       /\ r.pc \in {"row", "delete_old"} /\ r.arg \in Slots
       /\ r.new = None /\ r.old \in Images
  /\ r.kind = "create_emoji" =>
       /\ r.pc \in Unnamed \cup {"list", "tell"} /\ r.old = None /\ r.user \in Users
       /\ r.arg \in EmojiIds \X Names
       /\ r.pc \in Unnamed => r.new = Emoji(r.arg[1])
       /\ r.pc \notin Unnamed => r.new = None
  /\ r.kind = "update_emoji" => r.pc \in {"list", "tell"} /\ r.new = None /\ r.old = None
  /\ r.kind = "delete_emoji" =>
       /\ r.pc \in {"row", "delete_old", "list", "tell"} /\ r.arg \in EmojiIds
       /\ r.new = None /\ r.old = Emoji(r.arg)
  /\ r.pc = "tell" => r.copy \in [EmojiIds -> EmojiRow]

Sound == TypeOK /\ \A c \in Calls : Carries(c)

\* One request has an attachment's id until its row is made, a job is made
\* after the row, and the purge has the keys of rows that are gone.
AttachmentKeys ==
  /\ \A c \in Calls : call[c].kind = "upload" =>
       /\ Original(call[c].arg) \in drawn /\ job[call[c].arg].at = "none"
       /\ call[c].pc \in Unnamed => attachment[call[c].arg].at = "none"
       /\ call[c].pc = "enqueue" => attachment[call[c].arg].at # "none"
  /\ \A c, d \in Calls :
       call[c].kind = "upload" /\ call[d].kind = "upload" /\ call[c].arg = call[d].arg => c = d
  /\ \A a \in AttachmentIds :
       /\ attachment[a].at = "none" => attachment[a] = NoAttachment /\ job[a].at = "none"
       /\ attachment[a].at # "none" => Original(a) \in drawn
       /\ Original(a) \in purge \/ Thumbnail(a) \in purge => attachment[a].at = "gone"

\* An image key is in one column at most, only before any request that would
\* delete it is past its row, and never again.
ImageKeys ==
  /\ \A i \in ImageIds : Image(i) \notin purge
  /\ \A s \in Slots : slot[s] # None => slot[s] \in Images /\ slot[s] \in drawn
  /\ \A s, t \in Slots : slot[s] # None /\ slot[s] = slot[t] => s = t
  /\ \A c \in Calls : call[c].kind = "upload_image" /\ call[c].pc \in Unnamed =>
       /\ call[c].new \in drawn /\ \A s \in Slots : slot[s] # call[c].new
       /\ \A d \in Calls : call[d].kind \in ImageKinds =>
            /\ call[d].old # call[c].new
            /\ d # c => call[d].new # call[c].new
  /\ \A c \in Calls : call[c].kind \in ImageKinds /\ call[c].old # None =>
       /\ call[c].old \in drawn
       /\ \A s \in Slots : s # call[c].arg => slot[s] # call[c].old
       /\ call[c].pc = "delete_old" => slot[call[c].arg] # call[c].old

\* An emoji's row is made at most once, by the request that drew its key.
EmojiKeys ==
  /\ \A e \in EmojiIds : Emoji(e) \notin purge
  /\ \A e \in EmojiIds : emoji[e] # NoEmoji => Emoji(e) \in drawn
  /\ \A c \in Calls : call[c].kind = "create_emoji" /\ call[c].pc \in Unnamed =>
       /\ Emoji(call[c].arg[1]) \in drawn /\ emoji[call[c].arg[1]] = NoEmoji
       /\ \A d \in Calls : d # c /\ call[d].kind = "create_emoji" /\ call[d].pc \in Unnamed =>
            call[d].arg[1] # call[c].arg[1]
       /\ \A d \in Calls : call[d].kind = "delete_emoji" => call[d].arg # call[c].arg[1]
  /\ \A c \in Calls : call[c].kind = "delete_emoji" =>
       /\ Emoji(call[c].arg) \in drawn
       /\ call[c].pc = "delete_old" => emoji[call[c].arg] = NoEmoji

\* The worker has delivered jobs that are pending, each once.
WorkerInv ==
  /\ worker.pc \in {"reclaim", "read"} => worker.batch = {} /\ worker.a = None
  /\ worker.pc \notin {"reclaim", "read", "next"} =>
       worker.a \in AttachmentIds /\ worker.a \notin worker.batch /\ job[worker.a].at = "pending"
  /\ \A a \in worker.batch : job[a].at = "pending"
  /\ \A a \in AttachmentIds :
       /\ job[a].at = "pending" => job[a].deliveries > 0
       /\ job[a].at \in {"none", "queued"} => job[a].deliveries = 0 /\ ~attachment[a].thumb

\* The files of attachments: a thumbnail is recorded on the first delivery
\* only after its file was written whole.
AttachmentFiles ==
  /\ \A a \in AttachmentIds :
       /\ attachment[a].at = "live" => files[Original(a)] = "whole"
       /\ attachment[a].at = "live" /\ attachment[a].thumb /\ job[a].deliveries <= 1 =>
            /\ files[Thumbnail(a)] = "whole"
            /\ a \notin worker.batch
            /\ worker.a = a => worker.pc \in {"next", "ack"}
  /\ \A c \in Calls : call[c].kind = "upload" /\ call[c].pc = "row" =>
       files[call[c].new] = "whole"
  /\ worker.pc = "set" =>
       files[Thumbnail(worker.a)] = "whole" \/ attachment[worker.a].at # "live"

ImageFiles ==
  /\ \A s \in Slots : slot[s] # None => files[slot[s]] = "whole"
  /\ \A c \in Calls : call[c].kind = "upload_image" /\ call[c].pc = "row" =>
       files[call[c].new] = "whole"

EmojiFiles ==
  /\ \A e \in EmojiIds : emoji[e] # NoEmoji => files[Emoji(e)] = "whole"
  /\ \A c \in Calls : call[c].kind = "create_emoji" /\ call[c].pc = "row" =>
       files[call[c].new] = "whole"

\* A call that will name or delete k, or give it up after a failure.
Holds(k, kinds) ==
  \E c \in Calls : /\ call[c].kind \in kinds
                   /\ \/ call[c].pc \in Unnamed /\ call[c].new = k
                      \/ call[c].pc = "delete_old" /\ call[c].old = k

AttachmentStrays ==
  \A a \in AttachmentIds :
    /\ files[Original(a)] # "none" =>
         \/ attachment[a].at = "live" \/ Original(a) \in excused \cup purge
         \/ Holds(Original(a), {"upload"})
    /\ files[Thumbnail(a)] # "none" =>
         \/ attachment[a].at = "live" /\ attachment[a].thumb
         \/ Thumbnail(a) \in excused \cup purge \/ job[a].at = "pending"

ImageStrays ==
  \A i \in ImageIds : files[Image(i)] # "none" =>
    \/ \E s \in Slots : slot[s] = Image(i)
    \/ Image(i) \in excused \/ Holds(Image(i), ImageKinds)

EmojiStrays ==
  \A e \in EmojiIds : files[Emoji(e)] # "none" =>
    emoji[e] # NoEmoji \/ Emoji(e) \in excused \/ Holds(Emoji(e), EmojiKinds)

\* The attachments of a sent message are its author's.
PostInv ==
  \A p \in PostIds : post[p].sent =>
    \A a \in post[p].names :
      attachment[a].at = "live" /\ attachment[a].post = p /\ attachment[a].uploader = post[p].author

\* Unless it is on record that they missed one, the clients have the list, or
\* a request will read it again, or the one that read it last has it as it is.
ListInv ==
  \/ untold
  \/ \E c \in Calls : call[c].kind \in EmojiKinds /\ call[c].pc \in {"delete_old", "list"}
  \/ newest \in Calls /\ At(newest, "tell") /\ call[newest].copy = emoji
  \/ newest = None /\ told = emoji

\* The invariants of one family of keys
AttInv == AttachmentKeys /\ WorkerInv /\ AttachmentFiles /\ AttachmentStrays
ImgInv == ImageKeys /\ ImageFiles /\ ImageStrays
EmoInv == EmojiKeys /\ EmojiFiles /\ EmojiStrays

-----------------------------------------------------------------------------
(* Keys and calls. *)

LEMMA KeyFacts ==
  /\ \A a \in AttachmentIds : Original(a) \in Keys /\ Thumbnail(a) \in Keys
  /\ \A i \in ImageIds : Image(i) \in Keys
  /\ \A e \in EmojiIds : Emoji(e) \in Keys
  /\ \A a, b \in AttachmentIds : Original(a) = Original(b) => a = b
  /\ \A a, b \in AttachmentIds : Thumbnail(a) = Thumbnail(b) => a = b
  /\ \A i, j \in ImageIds : Image(i) = Image(j) => i = j
  /\ \A d, e \in EmojiIds : Emoji(d) = Emoji(e) => d = e
  /\ \A a, b \in AttachmentIds : Original(a) # Thumbnail(b)
  /\ \A a \in AttachmentIds, i \in ImageIds : Original(a) # Image(i) /\ Thumbnail(a) # Image(i)
  /\ \A a \in AttachmentIds, e \in EmojiIds : Original(a) # Emoji(e) /\ Thumbnail(a) # Emoji(e)
  /\ \A i \in ImageIds, e \in EmojiIds : Image(i) # Emoji(e)
  /\ Images \subseteq Keys
  /\ None \notin Keys /\ None \notin Images
<1>1. None \notin Keys
  BY FilesAssumption
<1>2. Images \subseteq Keys
  BY DEF Images, Keys
<1>3. QED
  BY <1>1, <1>2 DEF Original, Thumbnail, Image, Emoji, Keys

\* Every key is of one family.
LEMMA KeyCases ==
  ASSUME NEW k \in Keys
  PROVE  \/ \E a \in AttachmentIds : k = Original(a) \/ k = Thumbnail(a)
         \/ \E i \in ImageIds : k = Image(i)
         \/ \E e \in EmojiIds : k = Emoji(e)
BY DEF Keys

\* Only call c moves, to something a call may be.
Moves(c) == call' \in [Calls -> Call] /\ \A d \in Calls : d # c => call'[d] = call[d]

LEMMA NoRows ==
  /\ NoAttachment \in Attachment /\ NoAttachment.at = "none" /\ NoAttachment.uploader = None
  /\ NoAttachment.post = None /\ NoAttachment.thumb = FALSE
  /\ NoPost \in Post /\ NoPost.author = None /\ NoPost.sent = FALSE
  /\ NoEmoji \in EmojiRow /\ NoEmoji.name = None /\ NoEmoji.uploader = None
  /\ NoCall \in Call /\ NoCall.kind = "none" /\ NoCall.pc = "idle"
  /\ NoCall.new = None /\ NoCall.old = None
  /\ Idle \in WorkerState /\ Idle.pc = "reclaim" /\ Idle.batch = {} /\ Idle.a = None
<1>1. /\ NoAttachment \in Attachment /\ NoAttachment.at = "none" /\ NoAttachment.uploader = None
      /\ NoAttachment.post = None /\ NoAttachment.thumb = FALSE
  BY DEF NoAttachment, Attachment
<1>2. NoPost \in Post /\ NoPost.author = None /\ NoPost.sent = FALSE
  BY DEF NoPost, Post
<1>3. NoEmoji \in EmojiRow /\ NoEmoji.name = None /\ NoEmoji.uploader = None
  BY DEF NoEmoji, EmojiRow
<1>4. /\ NoCall \in Call /\ NoCall.kind = "none" /\ NoCall.pc = "idle"
      /\ NoCall.new = None /\ NoCall.old = None
  BY DEF NoCall, Call, Kinds, Phases
<1>5. Idle \in WorkerState /\ Idle.pc = "reclaim" /\ Idle.batch = {} /\ Idle.a = None
  BY DEF Idle, WorkerState
<1>6. QED
  BY <1>1, <1>2, <1>3, <1>4, <1>5

LEMMA BeginMoves ==
  ASSUME Sound, NEW c \in Calls, NEW kind \in Kinds, NEW r \in Call, Begin(c, kind, r)
  PROVE  /\ Moves(c) /\ call[c].kind = "none" /\ call[c].pc = "idle" /\ call'[c].kind = kind
         /\ call'[c].pc = r.pc /\ call'[c].user = r.user /\ call'[c].new = r.new
         /\ call'[c].old = r.old /\ call'[c].arg = r.arg /\ call'[c].copy = r.copy
<1>1. call[c].pc = "idle" /\ call' = [call EXCEPT ![c] = [r EXCEPT !.kind = kind]]
  BY DEF Begin, At
<1>2. call \in [Calls -> Call] /\ Carries(c)
  BY DEF Sound, TypeOK
<1>3. [r EXCEPT !.kind = kind] \in Call
  BY DEF Call
<1>4. Moves(c) /\ call'[c] = [r EXCEPT !.kind = kind]
  BY <1>1, <1>2, <1>3 DEF Moves
<1>5. call[c].kind = "none"
  BY <1>1, <1>2 DEF Carries
<1>6. QED
  BY <1>1, <1>4, <1>5 DEF Call

LEMMA GotoMoves ==
  ASSUME Sound, NEW c \in Calls, NEW pc \in Phases, Goto(c, pc)
  PROVE  /\ Moves(c) /\ call'[c].kind = call[c].kind
         /\ call'[c].pc = pc /\ call'[c].user = call[c].user /\ call'[c].new = call[c].new
         /\ call'[c].old = call[c].old /\ call'[c].arg = call[c].arg
         /\ call'[c].copy = call[c].copy
<1>1. call[c] \in Call /\ call \in [Calls -> Call]
  BY DEF Sound, TypeOK
<1>2. Moves(c)
  BY <1>1 DEF Goto, Call, Moves
<1>3. call'[c] = [call[c] EXCEPT !.pc = pc]
  BY <1>1 DEF Goto
<1>4. QED
  BY <1>1, <1>2, <1>3 DEF Call

\* The two places where a call lets go of the key it had drawn
LEMMA RowMoves ==
  ASSUME Sound, NEW c \in Calls, NEW pc \in Phases,
         call' = [call EXCEPT ![c].pc = pc, ![c].new = None]
  PROVE  /\ Moves(c) /\ call'[c].kind = call[c].kind
         /\ call'[c].pc = pc /\ call'[c].user = call[c].user /\ call'[c].new = None
         /\ call'[c].old = call[c].old /\ call'[c].arg = call[c].arg
         /\ call'[c].copy = call[c].copy
<1>1. call[c] \in Call /\ call \in [Calls -> Call]
  BY DEF Sound, TypeOK
<1>2. Moves(c)
  BY <1>1 DEF Call, Moves
<1>3. call'[c] = [call[c] EXCEPT !.pc = pc, !.new = None]
  BY <1>1
<1>4. QED
  BY <1>1, <1>2, <1>3 DEF Call

LEMMA ReturnMoves ==
  ASSUME Sound, NEW c \in Calls, Return(c)
  PROVE  Moves(c) /\ call'[c] = NoCall /\ Carries(c)'
<1>1. Moves(c) /\ call'[c] = NoCall
  BY NoRows DEF Return, Sound, TypeOK, Moves
<1>2. Carries(c)'
  BY <1>1, NoRows DEF Carries
<1>3. QED
  BY <1>1, <1>2

\* A message keeps its author.
AuthorsStay == \A p \in PostIds : post[p].author # None => post'[p].author = post[p].author

LEMMA OthersCarry ==
  ASSUME Sound, TypeOK', AuthorsStay, NEW c \in Calls, Moves(c), Carries(c)'
  PROVE  Sound'
<1>1. SUFFICES ASSUME NEW d \in Calls, d # c PROVE Carries(d)'
  BY DEF Sound
<1>2. call'[d] = call[d] /\ Carries(d)
  BY <1>1 DEF Moves, Sound
<1>3. call[d].kind = "post" => post[call[d].arg].author # None /\ call[d].arg \in PostIds
  BY <1>2, FilesAssumption DEF Carries
<1>4. QED
  BY <1>2, <1>3 DEF Carries, AuthorsStay

-----------------------------------------------------------------------------
(* Types, and what the calls carry, through every action; each lemma also  *)
(* says how the call moved.                                                *)

LEMMA CallsStayCarry ==
  ASSUME Sound, TypeOK', AuthorsStay, call' = call
  PROVE  Sound'
<1>1. SUFFICES ASSUME NEW d \in Calls PROVE Carries(d)'
  BY DEF Sound
<1>2. Carries(d)
  BY <1>1 DEF Sound
<1>3. call[d].kind = "post" => post[call[d].arg].author # None /\ call[d].arg \in PostIds
  BY <1>2, FilesAssumption DEF Carries
<1>4. QED
  BY <1>2, <1>3 DEF Carries, AuthorsStay

\* The storage and the keys stay what they are.
LEMMA DeleteTyped ==
  ASSUME TypeOK, NEW k \in Keys, NEW ok \in BOOLEAN, Delete(k, ok)
  PROVE  /\ files' \in [Keys -> {"none", "whole", "torn"}] /\ excused' \subseteq Keys
         /\ excused \subseteq excused' /\ (ok \/ k \in excused')
         /\ \A j \in Keys : j # k => files'[j] = files[j]
         /\ ok => files'[k] = "none"
         /\ files'[k] \in {files[k], "none"}
BY DEF Delete, TypeOK

LEMMA UploadMoves ==
  ASSUME Sound, NEW c \in Calls, NEW u \in Users, NEW a \in AttachmentIds, Upload(c, u, a)
  PROVE  /\ Sound' /\ Moves(c) /\ call[c].kind = "none" /\ call'[c].kind = "upload"
         /\ call'[c].pc = "put" /\ call'[c].new = Original(a) /\ call'[c].arg = a
         /\ Original(a) \notin drawn
<1> DEFINE r == [NoCall EXCEPT !.pc = "put", !.user = u, !.new = Original(a), !.arg = a]
<1>1. /\ r \in Call /\ r.pc = "put" /\ r.user = u /\ r.new = Original(a) /\ r.old = None
      /\ r.arg = a
  BY KeyFacts DEF NoCall, Call, Kinds, Phases, Args
<1>2. Begin(c, "upload", r) /\ Original(a) \notin drawn /\ drawn' = drawn \cup {Original(a)}
  BY DEF Upload, Draw
<1> HIDE DEF r
<1>3. /\ Moves(c) /\ call[c].kind = "none" /\ call'[c].kind = "upload" /\ call'[c].pc = "put"
      /\ call'[c].user = u /\ call'[c].new = Original(a) /\ call'[c].old = None
      /\ call'[c].arg = a
  BY <1>1, <1>2, BeginMoves DEF Kinds
<1>4. Carries(c)'
  BY <1>3 DEF Carries, Unnamed
<1>5. TypeOK' /\ AuthorsStay
  BY <1>2, <1>3, KeyFacts DEF Upload, Sound, TypeOK, Moves, rows, stream, list, AuthorsStay
<1>6. QED
  BY <1>2, <1>3, <1>4, <1>5, OthersCarry

LEMMA SendWithMoves ==
  ASSUME Sound, NEW c \in Calls, NEW u \in Users, NEW p \in PostIds,
         NEW names \in SUBSET workload.attachments, SendWith(c, u, p, names)
  PROVE  /\ Sound' /\ Moves(c) /\ call[c].kind = "none" /\ call'[c].kind = "post"
         /\ call'[c].pc = "link" /\ post[p] = NoPost
         /\ \A q \in PostIds : q # p => post'[q] = post[q]
         /\ ~post'[p].sent
<1> DEFINE r == [NoCall EXCEPT !.pc = "link", !.user = u, !.arg = p]
           s == [author |-> u, names |-> names, sent |-> FALSE]
<1>1. r \in Call /\ r.pc = "link" /\ r.user = u /\ r.new = None /\ r.old = None /\ r.arg = p
  BY DEF NoCall, Call, Kinds, Phases, Args
<1>2. names \subseteq AttachmentIds
  BY FilesAssumption DEF Sound, TypeOK
<1>3. s \in Post /\ s.author = u /\ ~s.sent
  BY <1>2 DEF Post
<1>4. Begin(c, "post", r) /\ post[p] = NoPost /\ post' = [post EXCEPT ![p] = s]
  BY DEF SendWith, Draw
<1> HIDE DEF r, s
<1>5. /\ Moves(c) /\ call[c].kind = "none" /\ call'[c].kind = "post" /\ call'[c].pc = "link"
      /\ call'[c].user = u /\ call'[c].new = None /\ call'[c].old = None
      /\ call'[c].arg = p
  BY <1>1, <1>4, BeginMoves DEF Kinds
<1>6. /\ post' \in [PostIds -> Post] /\ post'[p] = s
      /\ \A q \in PostIds : q # p => post'[q] = post[q]
  BY <1>3, <1>4 DEF Sound, TypeOK
<1>7. AuthorsStay
  BY <1>4, <1>6, NoRows DEF AuthorsStay
<1>8. Carries(c)'
  BY <1>3, <1>5, <1>6 DEF Carries
<1>9. TypeOK'
  BY <1>5, <1>6 DEF SendWith, Sound, TypeOK, Moves, stream, list
<1>10. QED
  BY <1>3, <1>4, <1>5, <1>6, <1>7, <1>8, <1>9, OthersCarry

LEMMA PutNewMoves ==
  ASSUME Sound, NEW c \in Calls, NEW result \in {"whole", "torn", "none"}, PutNew(c, result)
  PROVE  /\ Sound' /\ Moves(c) /\ call[c].kind \in {"upload", "upload_image", "create_emoji"}
         /\ call[c].pc = "put" /\ call[c].new \in Keys
         /\ files'[call[c].new] = result
         /\ \A k \in Keys : k # call[c].new => files'[k] = files[k]
         /\ result = "whole" =>
              /\ call'[c].pc = "row" /\ call'[c].kind = call[c].kind /\ call'[c].new = call[c].new
              /\ call'[c].old = call[c].old /\ call'[c].arg = call[c].arg
         /\ result # "whole" => call'[c] = NoCall
         /\ excused \subseteq excused' /\ (result = "torn" => call[c].new \in excused')
<1>1. /\ call[c].pc = "put" /\ Put(call[c].new, result)
      /\ \/ result = "whole" /\ Goto(c, "row") /\ excused' = excused
         \/ /\ result # "whole" /\ Return(c)
            /\ excused' = IF result = "torn" THEN excused \cup {call[c].new} ELSE excused
  BY DEF PutNew, At
<1>2. Carries(c) /\ call[c] \in Call
  BY DEF Sound, TypeOK
<1>3. call[c].kind \in {"upload", "upload_image", "create_emoji"} /\ call[c].new \in Keys
  BY <1>1, <1>2, KeyFacts DEF Carries, Call, Kinds, Unnamed
<1>4. /\ files' \in [Keys -> {"none", "whole", "torn"}]
      /\ files'[call[c].new] = result
      /\ \A k \in Keys : k # call[c].new => files'[k] = files[k]
      /\ excused \subseteq excused' /\ excused' \subseteq Keys
      /\ result = "torn" => call[c].new \in excused'
  BY <1>1, <1>3 DEF Put, Sound, TypeOK
<1>5. /\ Moves(c) /\ Carries(c)'
      /\ result = "whole" =>
           /\ call'[c].pc = "row" /\ call'[c].kind = call[c].kind /\ call'[c].new = call[c].new
           /\ call'[c].old = call[c].old /\ call'[c].arg = call[c].arg
      /\ result # "whole" => call'[c] = NoCall
  <2>1. CASE result = "whole"
    <3>1. Goto(c, "row") /\ "row" \in Phases
      BY <1>1, <2>1 DEF Phases
    <3>2. /\ Moves(c) /\ call'[c].kind = call[c].kind /\ call'[c].pc = "row"
          /\ call'[c].user = call[c].user /\ call'[c].new = call[c].new
          /\ call'[c].old = call[c].old /\ call'[c].arg = call[c].arg
      BY <3>1, GotoMoves
    <3>3. Carries(c)'
      BY <1>1, <1>2, <1>3, <3>2 DEF Carries, Unnamed
    <3>4. QED
      BY <2>1, <3>2, <3>3
  <2>2. CASE result # "whole"
    BY <1>1, <2>2, ReturnMoves
  <2>3. QED
    BY <2>1, <2>2
<1>6. TypeOK' /\ AuthorsStay
  BY <1>4, <1>5 DEF PutNew, Sound, TypeOK, Moves, rows, stream, list, AuthorsStay
<1>7. QED
  BY <1>1, <1>3, <1>4, <1>5, <1>6, OthersCarry

LEMMA CleanupMoves ==
  ASSUME Sound, NEW c \in Calls, NEW ok \in BOOLEAN, Cleanup(c, ok)
  PROVE  /\ Sound' /\ Moves(c) /\ call[c].kind \in {"upload", "upload_image", "create_emoji"}
         /\ call[c].pc = "cleanup" /\ call[c].new \in Keys /\ call'[c] = NoCall
         /\ Delete(call[c].new, ok)
<1>1. call[c].pc = "cleanup" /\ Delete(call[c].new, ok) /\ Return(c)
  BY DEF Cleanup, At
<1>2. Carries(c) /\ call[c] \in Call /\ TypeOK
  BY DEF Sound, TypeOK
<1>3. call[c].kind \in {"upload", "upload_image", "create_emoji"} /\ call[c].new \in Keys
  BY <1>1, <1>2, KeyFacts DEF Carries, Call, Kinds, Unnamed
<1>4. files' \in [Keys -> {"none", "whole", "torn"}] /\ excused' \subseteq Keys
  BY <1>1, <1>2, <1>3, DeleteTyped
<1>5. Moves(c) /\ Carries(c)' /\ call'[c] = NoCall
  BY <1>1, ReturnMoves
<1>6. TypeOK' /\ AuthorsStay
  BY <1>4, <1>5 DEF Cleanup, Sound, TypeOK, Moves, rows, stream, list, AuthorsStay
<1>7. QED
  BY <1>1, <1>3, <1>5, <1>6, OthersCarry

LEMMA DeleteOldMoves ==
  ASSUME Sound, NEW c \in Calls, NEW ok \in BOOLEAN, DeleteOld(c, ok)
  PROVE  /\ Sound' /\ Moves(c) /\ call[c].kind \in {"upload_image", "delete_image", "delete_emoji"}
         /\ call[c].pc = "delete_old" /\ call[c].old \in Keys /\ Delete(call[c].old, ok)
         /\ call[c].kind = "delete_emoji" =>
              /\ call'[c].kind = "delete_emoji" /\ call'[c].pc = "list"
              /\ call'[c].arg = call[c].arg /\ call'[c].old = call[c].old
         /\ call[c].kind # "delete_emoji" => call'[c] = NoCall
<1>1. /\ call[c].pc = "delete_old" /\ Delete(call[c].old, ok)
      /\ IF call[c].kind = "delete_emoji" THEN Goto(c, "list") ELSE Return(c)
  BY DEF DeleteOld, At
<1>2. Carries(c) /\ call[c] \in Call /\ TypeOK
  BY DEF Sound, TypeOK
<1>3. call[c].kind \in {"upload_image", "delete_image", "delete_emoji"} /\ call[c].old \in Keys
  BY <1>1, <1>2, KeyFacts DEF Carries, Call, Kinds, Unnamed
<1>4. files' \in [Keys -> {"none", "whole", "torn"}] /\ excused' \subseteq Keys
  BY <1>1, <1>2, <1>3, DeleteTyped
<1>5. /\ Moves(c) /\ Carries(c)'
      /\ call[c].kind = "delete_emoji" =>
           /\ call'[c].kind = "delete_emoji" /\ call'[c].pc = "list"
           /\ call'[c].arg = call[c].arg /\ call'[c].old = call[c].old
      /\ call[c].kind # "delete_emoji" => call'[c] = NoCall
  <2>1. CASE call[c].kind = "delete_emoji"
    <3>1. Goto(c, "list") /\ "list" \in Phases
      BY <1>1, <2>1 DEF Phases
    <3>2. /\ Moves(c) /\ call'[c].kind = call[c].kind /\ call'[c].pc = "list"
          /\ call'[c].new = call[c].new
          /\ call'[c].old = call[c].old /\ call'[c].arg = call[c].arg
      BY <3>1, GotoMoves
    <3>3. Carries(c)'
      BY <1>1, <1>2, <2>1, <3>2 DEF Carries
    <3>4. QED
      BY <2>1, <3>2, <3>3
  <2>2. CASE call[c].kind # "delete_emoji"
    BY <1>1, <2>2, ReturnMoves
  <2>3. QED
    BY <2>1, <2>2
<1>6. TypeOK' /\ AuthorsStay
  BY <1>4, <1>5 DEF DeleteOld, Sound, TypeOK, Moves, rows, stream, list, AuthorsStay
<1>7. QED
  BY <1>1, <1>3, <1>5, <1>6, OthersCarry

LEMMA CreateAttachmentMoves ==
  ASSUME Sound, NEW c \in Calls, CreateAttachment(c)
  PROVE  /\ Sound' /\ Moves(c) /\ call[c].kind = "upload" /\ call[c].pc = "row"
         /\ call[c].arg \in AttachmentIds
         /\ call'[c].kind = "upload" /\ call'[c].arg = call[c].arg /\ call'[c].new = call[c].new
         /\ \/ call'[c].pc = "cleanup" /\ attachment' = attachment
            \/ /\ call'[c].pc = "enqueue"
               /\ attachment'[call[c].arg].at = "live" /\ attachment'[call[c].arg].post = None
               /\ attachment'[call[c].arg].thumb = FALSE
         /\ \A a \in AttachmentIds : a # call[c].arg => attachment'[a] = attachment[a]
<1>1. call[c].pc = "row" /\ call[c].kind = "upload" /\ call[c] \in Call /\ Carries(c)
  BY DEF CreateAttachment, At, Sound, TypeOK
<1> DEFINE n == [NoAttachment EXCEPT !.at = "live", !.uploader = call[c].user]
<1>2. /\ call[c].arg \in AttachmentIds /\ call[c].user \in Users
      /\ call[c].new = Original(call[c].arg) /\ call[c].old = None
  BY <1>1 DEF Carries
<1>3. n \in Attachment /\ n.at = "live" /\ n.post = None /\ n.thumb = FALSE
  BY <1>2, FilesAssumption DEF NoAttachment, Attachment
<1>4. \/ attachment' = [attachment EXCEPT ![call[c].arg] = n] /\ Goto(c, "enqueue")
      \/ attachment' = attachment /\ Goto(c, "cleanup")
  BY DEF CreateAttachment
<1> HIDE DEF n
<1>5. PICK pc \in {"enqueue", "cleanup"} :
        /\ Goto(c, pc)
        /\ \/ attachment' = [attachment EXCEPT ![call[c].arg] = n] /\ pc = "enqueue"
           \/ attachment' = attachment /\ pc = "cleanup"
  BY <1>4
<1>6. pc \in Phases
  BY <1>5 DEF Phases
<1>7. /\ Moves(c) /\ call'[c].kind = call[c].kind /\ call'[c].pc = pc
      /\ call'[c].user = call[c].user /\ call'[c].new = call[c].new
      /\ call'[c].old = call[c].old /\ call'[c].arg = call[c].arg
  BY <1>5, <1>6, GotoMoves
<1>8. /\ attachment' \in [AttachmentIds -> Attachment]
      /\ pc = "enqueue" => attachment'[call[c].arg] = n
      /\ pc = "cleanup" => attachment' = attachment
      /\ \A a \in AttachmentIds : a # call[c].arg => attachment'[a] = attachment[a]
  BY <1>2, <1>3, <1>5 DEF Sound, TypeOK
<1>9. Carries(c)'
  BY <1>1, <1>2, <1>5, <1>7 DEF Carries, Unnamed
<1>10. TypeOK' /\ AuthorsStay
  BY <1>7, <1>8 DEF CreateAttachment, Sound, TypeOK, Moves, stream, list, AuthorsStay
<1>11. Sound'
  BY <1>7, <1>9, <1>10, OthersCarry
<1>12. QED
  BY <1>1, <1>2, <1>3, <1>5, <1>7, <1>8, <1>11

LEMMA EnqueueMoves ==
  ASSUME Sound, NEW c \in Calls, NEW added \in BOOLEAN, EnqueueThumbnail(c, added)
  PROVE  /\ Sound' /\ Moves(c) /\ call[c].kind = "upload" /\ call[c].pc = "enqueue"
         /\ call[c].arg \in AttachmentIds /\ call'[c] = NoCall
         /\ \A a \in AttachmentIds : a # call[c].arg => job'[a] = job[a]
         /\ job'[call[c].arg].deliveries = job[call[c].arg].deliveries
         /\ job'[call[c].arg].at \in {job[call[c].arg].at, "queued"}
<1>1. call[c].pc = "enqueue" /\ call[c] \in Call /\ Carries(c) /\ Return(c)
  BY DEF EnqueueThumbnail, At, Sound, TypeOK
<1>2. call[c].kind = "upload" /\ call[c].arg \in AttachmentIds
  BY <1>1 DEF Carries, Call, Kinds, Unnamed
<1>3. PICK a \in AttachmentIds : a = call[c].arg
  BY <1>2
<1>4. job[a] \in Job /\ job' = IF added THEN [job EXCEPT ![a].at = "queued"] ELSE job
  BY <1>3 DEF EnqueueThumbnail, Sound, TypeOK
<1>5. /\ job' \in [AttachmentIds -> Job] /\ \A b \in AttachmentIds : b # a => job'[b] = job[b]
      /\ job'[a].deliveries = job[a].deliveries /\ job'[a].at \in {job[a].at, "queued"}
  BY <1>4 DEF Sound, TypeOK, Job
<1>6. Moves(c) /\ Carries(c)' /\ call'[c] = NoCall
  BY <1>1, ReturnMoves
<1>7. TypeOK' /\ AuthorsStay
  BY <1>5, <1>6 DEF EnqueueThumbnail, Sound, TypeOK, Moves, rows, list, AuthorsStay
<1>8. Sound'
  BY <1>6, <1>7, OthersCarry
<1>9. QED
  BY <1>1, <1>2, <1>3, <1>5, <1>6, <1>8

\* Attachment a as it was, but for the message it is linked to.
Relinked(a, p) ==
  /\ attachment'[a].at = attachment[a].at /\ attachment'[a].thumb = attachment[a].thumb
  /\ attachment'[a].uploader = attachment[a].uploader /\ attachment'[a].post = p

LEMMA LinkMoves ==
  ASSUME Sound, NEW c \in Calls, LinkToMessage(c)
  PROVE  /\ Sound' /\ Moves(c) /\ call[c].kind = "post" /\ call'[c] = NoCall
         /\ \E p \in PostIds, linked \in SUBSET AttachmentIds :
              /\ linked \subseteq post[p].names
              /\ \A a \in AttachmentIds \ linked : attachment'[a] = attachment[a]
              /\ \A a \in linked : /\ Relinked(a, p) /\ attachment[a].at = "live"
                                   /\ attachment[a].post = None
                                   /\ attachment[a].uploader = post[p].author
              /\ \A q \in PostIds : /\ q # p => post'[q] = post[q]
                                    /\ post'[q].author = post[q].author
                                    /\ post'[q].names = post[q].names
              /\ post'[p].sent => linked = post[p].names
<1>1. call[c].pc = "link" /\ call[c] \in Call /\ Carries(c) /\ Return(c)
  BY DEF LinkToMessage, At, Sound, TypeOK
<1>2. /\ call[c].kind = "post" /\ call[c].arg \in PostIds
      /\ call[c].user = post[call[c].arg].author
  BY <1>1 DEF Carries, Call, Kinds, Unnamed
<1>3. PICK p \in PostIds : p = call[c].arg
  BY <1>2
<1> DEFINE linked == {a \in post[p].names :
                        /\ attachment[a].at = "live" /\ attachment[a].post = None
                        /\ attachment[a].uploader = call[c].user}
<1>4. post[p] \in Post /\ post[p].names \subseteq AttachmentIds /\ linked \subseteq AttachmentIds
  BY DEF Sound, TypeOK, Post
<1>5. attachment' = [a \in AttachmentIds |->
                       IF a \in linked THEN [attachment[a] EXCEPT !.post = p] ELSE attachment[a]]
  BY <1>3 DEF LinkToMessage
<1>6. PICK sent \in BOOLEAN : /\ sent => linked = post[p].names
                              /\ post' = [post EXCEPT ![p].sent = sent]
  <2>1. post' = [post EXCEPT ![p].sent = (post[p].names # {} /\ linked = post[p].names)]
    BY <1>3 DEF LinkToMessage
  <2> HIDE DEF linked
  <2>2. QED
    BY <2>1
<1>7. \A a \in linked : /\ attachment[a].at = "live" /\ attachment[a].post = None
                        /\ attachment[a].uploader = post[p].author
  BY <1>2, <1>3
<1>8. linked \subseteq post[p].names
  OBVIOUS
<1> HIDE DEF linked
<1>9. /\ attachment' \in [AttachmentIds -> Attachment]
      /\ \A a \in AttachmentIds \ linked : attachment'[a] = attachment[a]
      /\ \A a \in linked : Relinked(a, p)
  <2>1. \A a \in AttachmentIds : attachment[a] \in Attachment
    BY DEF Sound, TypeOK
  <2>2. \A a \in AttachmentIds \ linked : attachment'[a] = attachment[a]
    BY <1>5
  <2>3. ASSUME NEW a \in linked PROVE Relinked(a, p) /\ attachment'[a] \in Attachment
    <3>1. attachment'[a] = [attachment[a] EXCEPT !.post = p] /\ attachment[a] \in Attachment
      BY <1>4, <1>5, <2>1
    <3>2. QED
      BY <3>1 DEF Attachment, Relinked
  <2>4. attachment' = [a \in AttachmentIds |-> attachment'[a]]
    BY <1>5
  <2>5. QED
    BY <2>1, <2>2, <2>3, <2>4
<1>10. /\ post' \in [PostIds -> Post] /\ post'[p].sent = sent
       /\ \A q \in PostIds : /\ q # p => post'[q] = post[q]
                             /\ post'[q].author = post[q].author
                             /\ post'[q].names = post[q].names
  BY <1>4, <1>6 DEF Sound, TypeOK, Post
<1>11. Moves(c) /\ Carries(c)' /\ call'[c] = NoCall
  BY <1>1, ReturnMoves
<1>12. TypeOK' /\ AuthorsStay
  BY <1>9, <1>10, <1>11 DEF LinkToMessage, Sound, TypeOK, Moves, stream, list, AuthorsStay
<1>13. Sound'
  BY <1>11, <1>12, OthersCarry
<1>14. /\ linked \subseteq post[p].names
       /\ \A a \in AttachmentIds \ linked : attachment'[a] = attachment[a]
       /\ \A a \in linked : /\ Relinked(a, p) /\ attachment[a].at = "live"
                            /\ attachment[a].post = None
                            /\ attachment[a].uploader = post[p].author
       /\ \A q \in PostIds : /\ q # p => post'[q] = post[q]
                             /\ post'[q].author = post[q].author
                             /\ post'[q].names = post[q].names
       /\ post'[p].sent => linked = post[p].names
  BY <1>6, <1>7, <1>8, <1>9, <1>10
<1>15. linked \in SUBSET AttachmentIds
  BY <1>4
<1>16. QED
  BY <1>2, <1>11, <1>13, <1>14, <1>15

LEMMA AgeMoves ==
  ASSUME Sound, NEW a \in AttachmentIds, Age(a)
  PROVE  /\ Sound' /\ call' = call /\ attachment[a].at = "live" /\ Relinked(a, attachment[a].post)
         /\ \A b \in AttachmentIds : b # a => attachment'[b] = attachment[b]
<1>1. attachment[a] \in Attachment /\ attachment' = [attachment EXCEPT ![a].old = TRUE]
  BY DEF Sound, TypeOK, Age
<1>2. /\ attachment' \in [AttachmentIds -> Attachment] /\ Relinked(a, attachment[a].post)
      /\ \A b \in AttachmentIds : b # a => attachment'[b] = attachment[b]
  BY <1>1 DEF Sound, TypeOK, Attachment, Relinked
<1>3. TypeOK' /\ AuthorsStay /\ call' = call
  BY <1>2 DEF Age, Sound, TypeOK, stream, list, AuthorsStay
<1>4. QED
  BY <1>2, <1>3, CallsStayCarry DEF Age

\* The row of a is gone; the purge may have been given its keys.
Gone(a) == /\ attachment'[a].at = "gone" /\ attachment'[a].uploader = None
           /\ attachment'[a].thumb = FALSE

LEMMA PurgeMoves ==
  ASSUME Sound, PurgeOrphans
  PROVE  /\ Sound' /\ call' = call
         /\ \E orphans \in SUBSET AttachmentIds :
              /\ \A a \in orphans : /\ Gone(a) /\ attachment[a].at = "live"
                                    /\ attachment[a].post = None
              /\ \A a \in AttachmentIds \ orphans : attachment'[a] = attachment[a]
              /\ purge = {}
              /\ purge' = {Original(a) : a \in orphans}
                            \cup {Thumbnail(a) : a \in {b \in orphans : attachment[b].thumb}}
<1> DEFINE orphans == {a \in AttachmentIds : /\ attachment[a].at = "live" /\ attachment[a].old
                                             /\ attachment[a].post = None}
           g == [NoAttachment EXCEPT !.at = "gone"]
<1>1. g \in Attachment /\ g.at = "gone" /\ g.uploader = None /\ g.thumb = FALSE
  BY DEF NoAttachment, Attachment
<1>2. attachment' = [a \in AttachmentIds |-> IF a \in orphans THEN g ELSE attachment[a]]
  BY DEF PurgeOrphans
<1>3. /\ purge = {}
      /\ purge' = {Original(a) : a \in orphans}
                    \cup {Thumbnail(a) : a \in {b \in orphans : attachment[b].thumb}}
  BY DEF PurgeOrphans
<1>4. orphans \subseteq AttachmentIds /\ \A a \in orphans : attachment[a].at = "live" /\ attachment[a].post = None
  OBVIOUS
<1> HIDE DEF orphans, g
<1>5. /\ attachment' \in [AttachmentIds -> Attachment] /\ \A a \in orphans : Gone(a)
      /\ \A a \in AttachmentIds \ orphans : attachment'[a] = attachment[a]
  BY <1>1, <1>2, <1>4 DEF Sound, TypeOK, Gone
<1>6. purge' \subseteq Keys
  BY <1>3, <1>4, KeyFacts
<1>7. TypeOK' /\ AuthorsStay /\ call' = call
  BY <1>5, <1>6 DEF PurgeOrphans, Sound, TypeOK, stream, list, AuthorsStay
<1>8. QED
  BY <1>3, <1>4, <1>5, <1>7, CallsStayCarry

LEMMA DeleteOrphanMoves ==
  ASSUME Sound, NEW k \in Keys, NEW ok \in BOOLEAN, DeleteOrphan(k, ok)
  PROVE  Sound' /\ call' = call
<1>1. files' \in [Keys -> {"none", "whole", "torn"}] /\ excused' \subseteq Keys
  BY DeleteTyped DEF DeleteOrphan, Sound
<1>2. TypeOK' /\ AuthorsStay /\ call' = call
  BY <1>1 DEF DeleteOrphan, Sound, TypeOK, rows, stream, list, AuthorsStay
<1>3. QED
  BY <1>2, CallsStayCarry

LEMMA UploadImageMoves ==
  ASSUME Sound, ImageKeys, NEW c \in Calls, NEW s \in Slots, NEW i \in ImageIds, UploadImage(c, s, i)
  PROVE  /\ Sound' /\ Moves(c) /\ call[c].kind = "none" /\ call'[c].kind = "upload_image"
         /\ call'[c].pc = "put" /\ call'[c].new = Image(i) /\ call'[c].old = slot[s]
         /\ call'[c].arg = s /\ Image(i) \notin drawn
<1> DEFINE r == [NoCall EXCEPT !.pc = "put", !.new = Image(i), !.old = slot[s], !.arg = s]
<1>1. slot[s] \in Keys \cup {None} /\ slot[s] \in Images \cup {None}
  BY DEF Sound, TypeOK, ImageKeys
<1>2. /\ r \in Call /\ r.pc = "put" /\ r.new = Image(i) /\ r.old = slot[s] /\ r.arg = s
  BY <1>1, KeyFacts DEF NoCall, Call, Kinds, Phases, Args
<1>3. Begin(c, "upload_image", r) /\ Image(i) \notin drawn /\ drawn' = drawn \cup {Image(i)}
  BY DEF UploadImage, Draw
<1> HIDE DEF r
<1>4. /\ Moves(c) /\ call[c].kind = "none" /\ call'[c].kind = "upload_image" /\ call'[c].pc = "put"
      /\ call'[c].new = Image(i) /\ call'[c].old = slot[s] /\ call'[c].arg = s
  BY <1>2, <1>3, BeginMoves DEF Kinds
<1>5. Carries(c)'
  BY <1>1, <1>4 DEF Carries, Unnamed, Images
<1>6. TypeOK' /\ AuthorsStay
  BY <1>3, <1>4, KeyFacts DEF UploadImage, Sound, TypeOK, Moves, rows, stream, list, AuthorsStay
<1>7. QED
  BY <1>3, <1>4, <1>5, <1>6, OthersCarry

LEMMA DeleteImageMoves ==
  ASSUME Sound, ImageKeys, NEW c \in Calls, NEW s \in Slots, DeleteImage(c, s)
  PROVE  /\ Sound' /\ Moves(c) /\ call[c].kind = "none" /\ call'[c].kind = "delete_image"
         /\ call'[c].pc = "row" /\ call'[c].new = None /\ call'[c].old = slot[s]
         /\ call'[c].arg = s
<1> DEFINE r == [NoCall EXCEPT !.pc = "row", !.old = slot[s], !.arg = s]
<1>1. slot[s] \in Keys /\ slot[s] \in Images
  BY DEF Sound, TypeOK, ImageKeys, DeleteImage
<1>2. /\ r \in Call /\ r.pc = "row" /\ r.new = None /\ r.old = slot[s] /\ r.arg = s
  BY <1>1, KeyFacts DEF NoCall, Call, Kinds, Phases, Args
<1>3. Begin(c, "delete_image", r)
  BY DEF DeleteImage
<1> HIDE DEF r
<1>4. /\ Moves(c) /\ call[c].kind = "none" /\ call'[c].kind = "delete_image" /\ call'[c].pc = "row"
      /\ call'[c].new = None /\ call'[c].old = slot[s] /\ call'[c].arg = s
  BY <1>2, <1>3, BeginMoves DEF Kinds
<1>5. Carries(c)'
  BY <1>1, <1>4 DEF Carries
<1>6. TypeOK' /\ AuthorsStay
  BY <1>4 DEF DeleteImage, Sound, TypeOK, Moves, rows, stream, list, AuthorsStay
<1>7. QED
  BY <1>3, <1>4, <1>5, <1>6, OthersCarry

\* WriteUserKey and WriteServerKey: the key is replaced, or the user is gone.
WriteKey(c) == WriteUserKey(c) \/ WriteServerKey(c)

LEMMA WriteKeyMoves ==
  ASSUME Sound, NEW c \in Calls, WriteKey(c)
  PROVE  /\ Sound' /\ Moves(c) /\ call[c].kind \in ImageKinds /\ call[c].pc = "row"
         /\ call[c].arg \in Slots
         /\ \/ /\ slot' = slot /\ excused' = excused
               /\ call[c].kind = "upload_image" =>
                    /\ call'[c].kind = "upload_image" /\ call'[c].pc = "cleanup"
                    /\ call'[c].new = call[c].new /\ call'[c].old = call[c].old
                    /\ call'[c].arg = call[c].arg
               /\ call[c].kind = "delete_image" => call'[c] = NoCall
            \/ /\ slot'[call[c].arg] = call[c].new
               /\ \A t \in Slots : t # call[c].arg => slot'[t] = slot[t]
               /\ excused' = excused \cup ({slot[call[c].arg]} \ {call[c].old, None})
               /\ call[c].old = None => call'[c] = NoCall
               /\ call[c].old # None =>
                    /\ call'[c].kind = call[c].kind /\ call'[c].pc = "delete_old"
                    /\ call'[c].new = None /\ call'[c].old = call[c].old
                    /\ call'[c].arg = call[c].arg
<1>1. call[c].pc = "row" /\ call[c].kind \in ImageKinds /\ call[c] \in Call /\ Carries(c)
  BY DEF WriteKey, WriteUserKey, WriteServerKey, At, Sound, TypeOK, ImageKinds
<1>2. /\ call[c].arg \in Slots /\ call[c].new \in Keys \cup {None} /\ call[c].old \in Keys \cup {None}
      /\ call[c].old # None => call[c].old \in Images
      /\ call[c].kind = "delete_image" => call[c].new = None /\ call[c].old # None
  BY <1>1, KeyFacts DEF Carries, Call, Unnamed, ImageKinds
<1>3. \/ ReplaceKey(c)
      \/ /\ slot' = slot /\ excused' = excused
         /\ IF call[c].kind = "upload_image" THEN Goto(c, "cleanup") ELSE Return(c)
  BY DEF WriteKey, WriteUserKey, WriteServerKey
<1>4. /\ account' = account /\ attachment' = attachment /\ post' = post /\ emoji' = emoji
      /\ files' = files /\ job' = job /\ worker' = worker /\ cut' = cut /\ purge' = purge
      /\ drawn' = drawn /\ workload' = workload /\ faults' = faults /\ told' = told
      /\ newest' = newest /\ untold' = untold
  BY DEF WriteKey, WriteUserKey, WriteServerKey, stream, list
<1>5. AuthorsStay
  BY <1>4 DEF AuthorsStay
<1>6. CASE ReplaceKey(c)
  <2>1. /\ slot' \in [Slots -> Keys \cup {None}] /\ slot'[call[c].arg] = call[c].new
        /\ \A t \in Slots : t # call[c].arg => slot'[t] = slot[t]
    BY <1>2, <1>6 DEF ReplaceKey, Sound, TypeOK
  <2>2. /\ excused' = excused \cup ({slot[call[c].arg]} \ {call[c].old, None})
        /\ excused' \subseteq Keys
    BY <1>2, <1>6 DEF ReplaceKey, Sound, TypeOK
  <2>3. /\ Moves(c) /\ Carries(c)'
        /\ call[c].old = None => call'[c] = NoCall
        /\ call[c].old # None =>
             /\ call'[c].kind = call[c].kind /\ call'[c].pc = "delete_old"
             /\ call'[c].new = None /\ call'[c].old = call[c].old
             /\ call'[c].arg = call[c].arg
    <3>1. CASE call[c].old = None
      <4>1. Return(c)
        BY <1>6, <3>1 DEF ReplaceKey
      <4>2. QED
        BY <3>1, <4>1, ReturnMoves
    <3>2. CASE call[c].old # None
      <4>1. call' = [call EXCEPT ![c].pc = "delete_old", ![c].new = None] /\ "delete_old" \in Phases
        BY <1>6, <3>2 DEF ReplaceKey, Phases
      <4>2. /\ Moves(c) /\ call'[c].kind = call[c].kind /\ call'[c].pc = "delete_old"
            /\ call'[c].new = None /\ call'[c].old = call[c].old /\ call'[c].arg = call[c].arg
        BY <4>1, RowMoves
      <4>3. Carries(c)'
        BY <1>1, <1>2, <3>2, <4>2 DEF Carries, Unnamed, ImageKinds
      <4>4. QED
        BY <3>2, <4>2, <4>3
    <3>3. QED
      BY <3>1, <3>2
  <2>4. TypeOK'
    BY <1>4, <2>1, <2>2, <2>3 DEF Sound, TypeOK, Moves
  <2>5. Sound'
    BY <1>5, <2>3, <2>4, OthersCarry
  <2>6. QED
    BY <1>1, <1>2, <2>1, <2>2, <2>3, <2>5
<1>7. CASE /\ slot' = slot /\ excused' = excused
           /\ IF call[c].kind = "upload_image" THEN Goto(c, "cleanup") ELSE Return(c)
  <2>1. /\ Moves(c) /\ Carries(c)'
        /\ call[c].kind = "upload_image" =>
             /\ call'[c].kind = "upload_image" /\ call'[c].pc = "cleanup"
             /\ call'[c].new = call[c].new /\ call'[c].old = call[c].old
             /\ call'[c].arg = call[c].arg
        /\ call[c].kind = "delete_image" => call'[c] = NoCall
    <3>1. CASE call[c].kind = "upload_image"
      <4>1. Goto(c, "cleanup") /\ "cleanup" \in Phases
        BY <1>7, <3>1 DEF Phases
      <4>2. /\ Moves(c) /\ call'[c].kind = call[c].kind /\ call'[c].pc = "cleanup"
            /\ call'[c].new = call[c].new /\ call'[c].old = call[c].old
            /\ call'[c].arg = call[c].arg
        BY <4>1, GotoMoves
      <4>3. Carries(c)'
        BY <1>1, <3>1, <4>2 DEF Carries, Unnamed
      <4>4. QED
        BY <3>1, <4>2, <4>3
    <3>2. CASE call[c].kind # "upload_image"
      BY <1>7, <3>2, ReturnMoves
    <3>3. QED
      BY <3>1, <3>2
  <2>2. TypeOK'
    BY <1>4, <1>7, <2>1 DEF Sound, TypeOK, Moves
  <2>3. Sound'
    BY <1>5, <2>1, <2>2, OthersCarry
  <2>4. QED
    BY <1>1, <1>2, <1>7, <2>1, <2>3
<1>8. QED
  BY <1>3, <1>6, <1>7

LEMMA CreateEmojiMoves ==
  ASSUME Sound, NEW c \in Calls, NEW u \in Users, NEW name \in Names, NEW e \in EmojiIds,
         CreateEmoji(c, u, name, e)
  PROVE  /\ Sound' /\ Moves(c) /\ call[c].kind = "none" /\ call'[c].kind = "create_emoji"
         /\ call'[c].pc = "put" /\ call'[c].new = Emoji(e) /\ call'[c].arg[1] = e
         /\ Emoji(e) \notin drawn
<1> DEFINE r == [NoCall EXCEPT !.pc = "put", !.user = u, !.new = Emoji(e), !.arg = <<e, name>>]
<1>1. /\ r \in Call /\ r.pc = "put" /\ r.user = u /\ r.new = Emoji(e) /\ r.old = None
      /\ r.arg = <<e, name>>
  BY KeyFacts DEF NoCall, Call, Kinds, Phases, Args
<1>2. Begin(c, "create_emoji", r) /\ Emoji(e) \notin drawn /\ drawn' = drawn \cup {Emoji(e)}
  BY DEF CreateEmoji, Draw
<1> HIDE DEF r
<1>3. /\ Moves(c) /\ call[c].kind = "none" /\ call'[c].kind = "create_emoji" /\ call'[c].pc = "put"
      /\ call'[c].user = u /\ call'[c].new = Emoji(e) /\ call'[c].old = None
      /\ call'[c].arg = <<e, name>>
  BY <1>1, <1>2, BeginMoves DEF Kinds
<1>4. Carries(c)'
  BY <1>3 DEF Carries, Unnamed
<1>5. TypeOK' /\ AuthorsStay
  BY <1>2, <1>3, KeyFacts DEF CreateEmoji, Sound, TypeOK, Moves, rows, stream, list, AuthorsStay
<1>6. QED
  BY <1>2, <1>3, <1>4, <1>5, OthersCarry

LEMMA StoreEmojiMoves ==
  ASSUME Sound, NEW c \in Calls, StoreEmoji(c)
  PROVE  /\ Sound' /\ Moves(c) /\ call[c].kind = "create_emoji" /\ call[c].pc = "row"
         /\ call[c].arg[1] \in EmojiIds
         /\ call'[c].kind = "create_emoji" /\ call'[c].arg = call[c].arg
         /\ \/ emoji' = emoji /\ call'[c].pc = "cleanup" /\ call'[c].new = call[c].new
            \/ /\ emoji'[call[c].arg[1]] # NoEmoji /\ call'[c].pc = "list"
               /\ \A f \in EmojiIds : f # call[c].arg[1] => emoji'[f] = emoji[f]
<1>1. call[c].pc = "row" /\ call[c].kind = "create_emoji" /\ call[c] \in Call /\ Carries(c)
  BY DEF StoreEmoji, At, Sound, TypeOK
<1>2. PICK e \in EmojiIds, name \in Names : call[c].arg = <<e, name>>
  BY <1>1 DEF Carries
<1>3. /\ call[c].arg[1] = e /\ call[c].arg[2] = name /\ call[c].user \in Users
      /\ call[c].new = Emoji(e) /\ call[c].old = None
  BY <1>1, <1>2 DEF Carries, Unnamed
<1> DEFINE n == [name |-> name, uploader |-> call[c].user]
<1>4. n \in EmojiRow /\ n # NoEmoji
  BY <1>3, FilesAssumption DEF EmojiRow, NoEmoji
<1>5. \/ /\ emoji' = [emoji EXCEPT ![e] = n]
         /\ call' = [call EXCEPT ![c].pc = "list", ![c].new = None]
      \/ emoji' = emoji /\ Goto(c, "cleanup")
  BY <1>3 DEF StoreEmoji
<1> HIDE DEF n
<1>6. CASE /\ emoji' = [emoji EXCEPT ![e] = n]
           /\ call' = [call EXCEPT ![c].pc = "list", ![c].new = None]
  <2>1. "list" \in Phases
    BY DEF Phases
  <2>2. /\ Moves(c) /\ call'[c].kind = call[c].kind /\ call'[c].pc = "list"
        /\ call'[c].user = call[c].user
        /\ call'[c].new = None /\ call'[c].old = call[c].old /\ call'[c].arg = call[c].arg
    BY <1>6, <2>1, RowMoves
  <2>3. Carries(c)'
    BY <1>1, <1>2, <1>3, <2>2 DEF Carries, Unnamed
  <2>4. /\ emoji' \in [EmojiIds -> EmojiRow] /\ emoji'[e] = n
        /\ \A f \in EmojiIds : f # e => emoji'[f] = emoji[f]
    BY <1>4, <1>6 DEF Sound, TypeOK
  <2>5. TypeOK' /\ AuthorsStay
    BY <2>2, <2>4 DEF StoreEmoji, Sound, TypeOK, Moves, stream, list, AuthorsStay
  <2>6. QED
    BY <1>1, <1>3, <1>4, <2>2, <2>3, <2>4, <2>5, OthersCarry
<1>7. CASE emoji' = emoji /\ Goto(c, "cleanup")
  <2>1. "cleanup" \in Phases
    BY DEF Phases
  <2>2. /\ Moves(c) /\ call'[c].kind = call[c].kind /\ call'[c].pc = "cleanup"
        /\ call'[c].user = call[c].user /\ call'[c].new = call[c].new
        /\ call'[c].old = call[c].old /\ call'[c].arg = call[c].arg
    BY <1>7, <2>1, GotoMoves
  <2>3. Carries(c)'
    BY <1>1, <1>2, <1>3, <2>2 DEF Carries, Unnamed
  <2>4. TypeOK' /\ AuthorsStay
    BY <1>7, <2>2 DEF StoreEmoji, Sound, TypeOK, Moves, stream, list, AuthorsStay
  <2>5. QED
    BY <1>1, <1>3, <1>7, <2>2, <2>3, <2>4, OthersCarry
<1>8. QED
  BY <1>5, <1>6, <1>7

LEMMA UpdateNameMoves ==
  ASSUME Sound, NEW c \in Calls, NEW e \in EmojiIds, NEW name \in Names, UpdateName(c, e, name)
  PROVE  /\ Sound' /\ Moves(c) /\ call[c].kind = "none" /\ call'[c].kind = "update_emoji"
         /\ call'[c].pc = "list" /\ emoji[e] # NoEmoji /\ emoji'[e] # NoEmoji
         /\ \A f \in EmojiIds : f # e => emoji'[f] = emoji[f]
<1> DEFINE r == [NoCall EXCEPT !.pc = "list"]
<1>1. r \in Call /\ r.pc = "list" /\ r.new = None /\ r.old = None
  BY DEF NoCall, Call, Kinds, Phases
<1>2. /\ Begin(c, "update_emoji", r) /\ emoji[e] # NoEmoji
      /\ emoji' = [emoji EXCEPT ![e].name = name]
  BY DEF UpdateName
<1> HIDE DEF r
<1>3. /\ Moves(c) /\ call[c].kind = "none" /\ call'[c].kind = "update_emoji" /\ call'[c].pc = "list"
      /\ call'[c].new = None /\ call'[c].old = None
  BY <1>1, <1>2, BeginMoves DEF Kinds
<1>4. emoji[e] \in EmojiRow
  BY DEF Sound, TypeOK
<1>5. /\ emoji' \in [EmojiIds -> EmojiRow] /\ emoji'[e].name = name
      /\ \A f \in EmojiIds : f # e => emoji'[f] = emoji[f]
  BY <1>2, <1>4 DEF Sound, TypeOK, EmojiRow
<1>6. emoji'[e] # NoEmoji
  BY <1>5, FilesAssumption, NoRows
<1>7. Carries(c)'
  BY <1>3 DEF Carries
<1>8. TypeOK' /\ AuthorsStay
  BY <1>3, <1>5 DEF UpdateName, Sound, TypeOK, Moves, stream, list, AuthorsStay
<1>9. QED
  BY <1>2, <1>3, <1>5, <1>6, <1>7, <1>8, OthersCarry

LEMMA DeleteEmojiMoves ==
  ASSUME Sound, NEW c \in Calls, NEW e \in EmojiIds, DeleteEmoji(c, e)
  PROVE  /\ Sound' /\ Moves(c) /\ call[c].kind = "none" /\ call'[c].kind = "delete_emoji"
         /\ call'[c].pc = "row" /\ call'[c].arg = e /\ emoji[e] # NoEmoji
<1> DEFINE r == [NoCall EXCEPT !.pc = "row", !.old = Emoji(e), !.arg = e]
<1>1. r \in Call /\ r.pc = "row" /\ r.new = None /\ r.old = Emoji(e) /\ r.arg = e
  BY KeyFacts DEF NoCall, Call, Kinds, Phases, Args
<1>2. Begin(c, "delete_emoji", r) /\ emoji[e] # NoEmoji
  BY DEF DeleteEmoji
<1> HIDE DEF r
<1>3. /\ Moves(c) /\ call[c].kind = "none" /\ call'[c].kind = "delete_emoji" /\ call'[c].pc = "row"
      /\ call'[c].new = None /\ call'[c].old = Emoji(e) /\ call'[c].arg = e
  BY <1>1, <1>2, BeginMoves DEF Kinds
<1>4. Carries(c)'
  BY <1>3 DEF Carries
<1>5. TypeOK' /\ AuthorsStay
  BY <1>3 DEF DeleteEmoji, Sound, TypeOK, Moves, rows, stream, list, AuthorsStay
<1>6. QED
  BY <1>2, <1>3, <1>4, <1>5, OthersCarry

LEMMA RemoveEmojiMoves ==
  ASSUME Sound, NEW c \in Calls, RemoveEmoji(c)
  PROVE  /\ Sound' /\ Moves(c) /\ call[c].kind = "delete_emoji" /\ call[c].pc = "row"
         /\ call[c].arg \in EmojiIds /\ emoji'[call[c].arg] = NoEmoji
         /\ \A f \in EmojiIds : f # call[c].arg => emoji'[f] = emoji[f]
         /\ emoji[call[c].arg] = NoEmoji => call'[c] = NoCall
         /\ emoji[call[c].arg] # NoEmoji =>
              /\ call'[c].kind = "delete_emoji" /\ call'[c].pc = "delete_old"
              /\ call'[c].arg = call[c].arg /\ call'[c].old = call[c].old
<1>1. call[c].pc = "row" /\ call[c].kind = "delete_emoji" /\ call[c] \in Call /\ Carries(c)
  BY DEF RemoveEmoji, At, Sound, TypeOK
<1>2. call[c].arg \in EmojiIds
  BY <1>1 DEF Carries
<1>3. PICK e \in EmojiIds : e = call[c].arg
  BY <1>2
<1>4. /\ emoji' = [emoji EXCEPT ![e] = NoEmoji]
      /\ IF emoji[e] = NoEmoji THEN Return(c) ELSE Goto(c, "delete_old")
  BY <1>3 DEF RemoveEmoji
<1>5. /\ emoji' \in [EmojiIds -> EmojiRow] /\ emoji'[e] = NoEmoji
      /\ \A f \in EmojiIds : f # e => emoji'[f] = emoji[f]
  BY <1>4, NoRows DEF Sound, TypeOK
<1>6. /\ Moves(c) /\ Carries(c)'
      /\ emoji[e] = NoEmoji => call'[c] = NoCall
      /\ emoji[e] # NoEmoji =>
           /\ call'[c].kind = "delete_emoji" /\ call'[c].pc = "delete_old"
           /\ call'[c].arg = call[c].arg /\ call'[c].old = call[c].old
  <2>1. CASE emoji[e] = NoEmoji
    BY <1>4, <2>1, ReturnMoves
  <2>2. CASE emoji[e] # NoEmoji
    <3>1. Goto(c, "delete_old") /\ "delete_old" \in Phases
      BY <1>4, <2>2 DEF Phases
    <3>2. /\ Moves(c) /\ call'[c].kind = call[c].kind /\ call'[c].pc = "delete_old"
          /\ call'[c].new = call[c].new /\ call'[c].old = call[c].old
          /\ call'[c].arg = call[c].arg
      BY <3>1, GotoMoves
    <3>3. Carries(c)'
      BY <1>1, <3>2 DEF Carries
    <3>4. QED
      BY <1>1, <2>2, <3>2, <3>3
  <2>3. QED
    BY <2>1, <2>2
<1>7. TypeOK' /\ AuthorsStay
  BY <1>5, <1>6 DEF RemoveEmoji, Sound, TypeOK, Moves, stream, list, AuthorsStay
<1>8. Sound'
  BY <1>6, <1>7, OthersCarry
<1>9. QED
  BY <1>1, <1>3, <1>5, <1>6, <1>8

LEMMA PublishMoves ==
  ASSUME Sound, NEW c \in Calls, NEW ok \in BOOLEAN, PublishEmojiUpdate(c, ok)
  PROVE  /\ Sound' /\ Moves(c) /\ call[c].kind \in EmojiKinds /\ call[c].pc = "list"
         /\ ok => /\ call'[c].kind = call[c].kind /\ call'[c].pc = "tell" /\ call'[c].copy = emoji
                  /\ call'[c].arg = call[c].arg /\ newest' = c
         /\ ~ok => call'[c] = NoCall /\ untold'
<1>1. /\ call[c].pc = "list" /\ call[c] \in Call /\ call \in [Calls -> Call] /\ Carries(c)
      /\ emoji \in [EmojiIds -> EmojiRow]
  BY DEF PublishEmojiUpdate, At, Sound, TypeOK
<1>2. call[c].kind \in EmojiKinds
  BY <1>1 DEF Carries, Call, Kinds, Unnamed, EmojiKinds
<1> DEFINE r == [call[c] EXCEPT !.pc = "tell", !.copy = emoji]
<1>3. /\ r \in Call /\ r.pc = "tell" /\ r.copy = emoji /\ r.kind = call[c].kind
      /\ r.user = call[c].user /\ r.new = call[c].new /\ r.old = call[c].old /\ r.arg = call[c].arg
  BY <1>1 DEF Call, Phases
<1>4. /\ ok => call' = [call EXCEPT ![c] = r] /\ newest' = c
      /\ ~ok => Return(c) /\ newest' = newest
      /\ untold' = ~ok
  BY <1>1 DEF PublishEmojiUpdate, Call
<1> HIDE DEF r
<1>5. Moves(c) /\ (ok => call'[c] = r) /\ (~ok => call'[c] = NoCall /\ Carries(c)')
  BY <1>1, <1>3, <1>4, ReturnMoves DEF Moves
<1>6. Carries(c)'
  BY <1>1, <1>2, <1>3, <1>5 DEF Carries, Unnamed, EmojiKinds
<1>7. untold' \in BOOLEAN /\ newest' \in Calls \cup {None}
  BY <1>4 DEF Sound, TypeOK
<1>8. TypeOK' /\ AuthorsStay
  BY <1>5, <1>7 DEF PublishEmojiUpdate, Sound, TypeOK, Moves, rows, stream, AuthorsStay
<1>9. Sound'
  BY <1>5, <1>6, <1>8, OthersCarry
<1>10. QED
  BY <1>1, <1>2, <1>3, <1>4, <1>5, <1>9

LEMMA TellMoves ==
  ASSUME Sound, NEW c \in Calls, EnqueueEmojiList(c)
  PROVE  /\ Sound' /\ Moves(c) /\ call[c].kind \in EmojiKinds /\ call[c].pc = "tell"
         /\ call'[c] = NoCall
<1>1. /\ call[c].pc = "tell" /\ call[c] \in Call /\ Carries(c) /\ Return(c)
      /\ told' = call[c].copy
  BY DEF EnqueueEmojiList, At, Sound, TypeOK
<1>2. call[c].kind \in EmojiKinds /\ call[c].copy \in [EmojiIds -> EmojiRow]
  BY <1>1 DEF Carries, Call, Kinds, Unnamed, EmojiKinds
<1>3. Moves(c) /\ Carries(c)' /\ call'[c] = NoCall
  BY <1>1, ReturnMoves
<1>4. untold' \in BOOLEAN /\ newest' \in Calls \cup {None}
  BY DEF EnqueueEmojiList, Sound, TypeOK
<1>5. TypeOK' /\ AuthorsStay
  BY <1>1, <1>2, <1>3, <1>4
    DEF EnqueueEmojiList, Sound, TypeOK, Moves, rows, stream, AuthorsStay
<1>6. QED
  BY <1>1, <1>2, <1>3, <1>5, OthersCarry

\* The worker takes a batch of jobs.
LEMMA DeliverMoves ==
  ASSUME Sound, NEW batch \in SUBSET AttachmentIds, Deliver(batch)
  PROVE  /\ job' \in [AttachmentIds -> Job] /\ cut' \subseteq AttachmentIds
         /\ \A a \in AttachmentIds \ batch : job'[a] = job[a]
         /\ \A a \in batch : /\ job'[a].at = "pending"
                             /\ job'[a].deliveries = job[a].deliveries + 1
<1>1. \A a \in AttachmentIds : job[a] \in Job
  BY DEF Sound, TypeOK
<1>2. job' = [a \in AttachmentIds |->
               IF a \in batch THEN [at |-> "pending", deliveries |-> job[a].deliveries + 1] ELSE job[a]]
  BY DEF Deliver
<1>3. \A a \in AttachmentIds \ batch : job'[a] = job[a]
  BY <1>2
<1>4. ASSUME NEW a \in batch
      PROVE  /\ job'[a].at = "pending" /\ job'[a].deliveries = job[a].deliveries + 1
             /\ job'[a] \in Job
  <2>1. job'[a] = [at |-> "pending", deliveries |-> job[a].deliveries + 1]
    BY <1>2
  <2>2. job[a].deliveries \in Nat
    BY <1>1 DEF Job
  <2>3. QED
    BY <2>1, <2>2 DEF Job
<1>5. job' \in [AttachmentIds -> Job]
  BY <1>1, <1>2, <1>3, <1>4
<1>6. QED
  BY <1>3, <1>4, <1>5 DEF Deliver, Sound, TypeOK

\* A step of the worker that takes a batch
Takes(batch) == (ReclaimStale(batch) \/ \E a \in AttachmentIds : batch = {a} /\ ReadJob(a))

LEMMA TakesMoves ==
  ASSUME Sound, NEW batch \in SUBSET AttachmentIds, Takes(batch)
  PROVE  /\ Sound' /\ call' = call /\ worker.pc \in {"reclaim", "read"}
         /\ worker'.pc = "next" /\ worker'.batch = batch /\ worker'.a = None
         /\ Deliver(batch)
         /\ \A a \in batch : job[a].at \in {"pending", "queued"}
<1>1. /\ worker' \in WorkerState /\ worker'.pc = "next" /\ worker'.batch = batch
      /\ worker'.a = None /\ Deliver(batch) /\ worker.pc \in {"reclaim", "read"}
      /\ \A a \in batch : job[a].at \in {"pending", "queued"}
      /\ UNCHANGED <<rows, files, purge, call, drawn, workload, faults, excused, list>>
  <2>1. CASE ReclaimStale(batch)
    <3>1. worker' = [Idle EXCEPT !.pc = "next", !.batch = batch] /\ worker.pc = "reclaim"
      BY <2>1 DEF ReclaimStale
    <3>2. /\ worker' \in WorkerState /\ worker'.pc = "next" /\ worker'.batch = batch
          /\ worker'.a = None
      BY <3>1 DEF WorkerState, Idle
    <3>3. QED
      BY <2>1, <3>1, <3>2 DEF ReclaimStale, Pending
  <2>2. ASSUME NEW a \in AttachmentIds, batch = {a}, ReadJob(a)
        PROVE  <1>1
    <3>1. /\ worker' = [Idle EXCEPT !.pc = "next", !.batch = {a}, !.reading = TRUE]
          /\ worker.pc = "read"
      BY <2>2 DEF ReadJob
    <3>2. /\ worker' \in WorkerState /\ worker'.pc = "next" /\ worker'.batch = batch
          /\ worker'.a = None
      BY <2>2, <3>1 DEF WorkerState, Idle
    <3>3. Deliver({a}) /\ job[a].at = "queued"
      BY <2>2 DEF ReadJob
    <3>4. Deliver(batch)
      BY <2>2, <3>3 DEF Deliver
    <3>5. UNCHANGED <<rows, files, purge, call, drawn, workload, faults, excused, list>>
      BY <2>2 DEF ReadJob
    <3>6. QED
      BY <2>2, <3>1, <3>2, <3>3, <3>4, <3>5
  <2>3. QED
    BY <2>1, <2>2 DEF Takes
<1>2. TypeOK' /\ AuthorsStay /\ call' = call
  BY <1>1, DeliverMoves DEF Sound, TypeOK, rows, list, AuthorsStay
<1>3. QED
  BY <1>1, <1>2, CallsStayCarry

\* A step of the worker that touches nothing but its own state
Thinks == \/ ReadFails \/ NextJob
          \/ \E result \in {"put", "failed", "ack"} : ReadOriginal(result)
          \/ \E b \in BOOLEAN : JobFailed(b)

LEMMA ThinksMoves ==
  ASSUME Sound, WorkerInv, Thinks
  PROVE  /\ Sound' /\ call' = call
         /\ \/ /\ worker.pc \in {"read", "next"} /\ worker.batch = {}
               /\ worker'.batch = {} /\ worker'.a = None /\ worker'.pc \in {"reclaim", "read"}
            \/ /\ worker.pc = "next" /\ worker'.pc = "get" /\ worker'.a \in worker.batch
               /\ worker'.batch = worker.batch \ {worker'.a}
            \/ /\ worker.pc = "get" /\ worker'.pc \in {"put", "failed", "ack"}
               /\ worker'.a = worker.a /\ worker'.batch = worker.batch
            \/ /\ worker.pc = "failed" /\ worker'.a = worker.a /\ worker'.batch = worker.batch
               /\ worker'.pc = "ack"
            \/ /\ worker.pc = "failed" /\ worker'.a = worker.a /\ worker'.batch = worker.batch
               /\ worker'.pc = "next" /\ ~(job[worker.a].deliveries >= MaxRetries)
<1>1. worker \in WorkerState
  BY DEF Sound, TypeOK
<1>2. /\ worker' \in WorkerState
      /\ \/ /\ worker.pc \in {"read", "next"} /\ worker.batch = {}
            /\ worker'.batch = {} /\ worker'.a = None /\ worker'.pc \in {"reclaim", "read"}
         \/ /\ worker.pc = "next" /\ worker'.pc = "get" /\ worker'.a \in worker.batch
            /\ worker'.batch = worker.batch \ {worker'.a}
         \/ /\ worker.pc = "get" /\ worker'.pc \in {"put", "failed", "ack"}
            /\ worker'.a = worker.a /\ worker'.batch = worker.batch
         \/ /\ worker.pc = "failed" /\ worker'.a = worker.a /\ worker'.batch = worker.batch
            /\ worker'.pc = "ack"
         \/ /\ worker.pc = "failed" /\ worker'.a = worker.a /\ worker'.batch = worker.batch
            /\ worker'.pc = "next" /\ ~(job[worker.a].deliveries >= MaxRetries)
  <2>1. CASE ReadFails
    BY <2>1, NoRows DEF ReadFails, WorkerInv
  <2>2. CASE NextJob
    <3>1. CASE worker.batch = {}
      <4>1. PICK pc : /\ pc = IF worker.reading THEN "reclaim" ELSE "read"
                      /\ worker' = [Idle EXCEPT !.pc = pc]
        BY <2>2, <3>1 DEF NextJob
      <4>2. pc \in {"reclaim", "read"}
        BY <4>1
      <4>3. /\ worker' \in WorkerState /\ worker'.pc = pc /\ worker'.batch = {}
            /\ worker'.a = None
        BY <4>1, <4>2 DEF Idle, WorkerState
      <4>4. QED
        BY <2>2, <3>1, <4>2, <4>3 DEF NextJob
    <3>2. CASE worker.batch # {}
      <4>1. PICK a \in worker.batch :
              worker' = [worker EXCEPT !.pc = "get", !.a = a, !.batch = worker.batch \ {a}]
        BY <2>2, <3>2, Zenon DEF NextJob
      <4>2. PICK rest : rest = worker.batch \ {a}
        OBVIOUS
      <4>3. worker' = [worker EXCEPT !.pc = "get", !.a = a, !.batch = rest]
        BY <4>1, <4>2, Zenon
      <4>4. a \in AttachmentIds /\ rest \subseteq AttachmentIds
        BY <1>1, <4>2 DEF WorkerState
      <4>5. worker' \in WorkerState /\ worker'.pc = "get" /\ worker'.a = a /\ worker'.batch = rest
        BY <1>1, <4>3, <4>4 DEF WorkerState
      <4>6. worker.pc = "next"
        BY <2>2, Zenon DEF NextJob
      <4>7. QED
        BY <4>2, <4>5, <4>6
    <3>3. QED
      BY <3>1, <3>2
  <2>3. ASSUME NEW result \in {"put", "failed", "ack"}, ReadOriginal(result)
        PROVE  /\ worker' \in WorkerState
               /\ worker.pc = "get" /\ worker'.pc \in {"put", "failed", "ack"}
               /\ worker'.a = worker.a /\ worker'.batch = worker.batch
    BY <1>1, <2>3 DEF ReadOriginal, WorkerState
  <2>4. ASSUME NEW b \in BOOLEAN, JobFailed(b)
        PROVE  /\ worker' \in WorkerState /\ worker.pc = "failed"
               /\ worker'.a = worker.a /\ worker'.batch = worker.batch
               /\ \/ worker'.pc = "ack"
                  \/ worker'.pc = "next" /\ ~(job[worker.a].deliveries >= MaxRetries)
    <3>1. PICK pc \in {"ack", "next"} :
            /\ worker' = [worker EXCEPT !.pc = pc]
            /\ pc = "next" => ~(job[worker.a].deliveries >= MaxRetries)
      BY <2>4 DEF JobFailed, Exhausted
    <3>2. QED
      BY <1>1, <2>4, <3>1 DEF JobFailed, WorkerState
  <2>5. QED
    BY <2>1, <2>2, <2>3, <2>4 DEF Thinks
<1>3. UNCHANGED <<rows, files, job, cut, purge, call, drawn, workload, faults, excused, list>>
  BY Zenon DEF Thinks, ReadFails, NextJob, ReadOriginal, JobFailed
<1>4. worker' \in WorkerState
  BY <1>2
<1>5. TypeOK' /\ AuthorsStay /\ call' = call
  BY <1>3, <1>4 DEF Sound, TypeOK, rows, list, AuthorsStay
<1>6. Sound'
  BY <1>5, CallsStayCarry
<1>7. QED
  BY <1>2, <1>5, <1>6

LEMMA PutThumbnailMoves ==
  ASSUME Sound, WorkerInv, NEW result \in {"whole", "torn", "none"}, PutThumbnail(result)
  PROVE  /\ Sound' /\ call' = call /\ worker.pc = "put"
         /\ worker'.a = worker.a /\ worker'.batch = worker.batch /\ worker'.pc \in {"set", "failed"}
         /\ worker'.pc = "set" => files'[Thumbnail(worker.a)] = "whole"
         /\ \A k \in Keys : k # Thumbnail(worker.a) => files'[k] = files[k]
<1>1. worker \in WorkerState /\ worker.pc = "put" /\ worker.a \in AttachmentIds
  BY DEF Sound, TypeOK, PutThumbnail, WorkerInv
<1>2. PICK a \in AttachmentIds : a = worker.a
  BY <1>1
<1>3. PICK pc \in {"set", "failed"} : /\ worker' = [worker EXCEPT !.pc = pc]
                                      /\ pc = "set" => result = "whole"
  BY Zenon DEF PutThumbnail
<1>4. files' = [files EXCEPT ![Thumbnail(a)] = result]
  BY <1>2 DEF PutThumbnail, Put
<1>5. /\ files' \in [Keys -> {"none", "whole", "torn"}] /\ files'[Thumbnail(a)] = result
      /\ \A k \in Keys : k # Thumbnail(a) => files'[k] = files[k]
  BY <1>4, KeyFacts DEF Sound, TypeOK
<1>6. /\ worker' \in WorkerState /\ worker'.a = worker.a /\ worker'.batch = worker.batch
      /\ worker'.pc = pc
  BY <1>1, <1>3 DEF WorkerState
<1>7. UNCHANGED <<rows, job, cut, purge, call, drawn, workload, faults, excused, list>>
  BY Zenon DEF PutThumbnail
<1>8. TypeOK' /\ AuthorsStay /\ call' = call
  BY <1>5, <1>6, <1>7 DEF Sound, TypeOK, rows, list, AuthorsStay
<1>9. QED
  BY <1>1, <1>2, <1>3, <1>5, <1>6, <1>8, CallsStayCarry

LEMMA SetThumbnailMoves ==
  ASSUME Sound, WorkerInv, SetThumbnailKey
  PROVE  /\ Sound' /\ call' = call /\ worker.pc = "set"
         /\ worker'.a = worker.a /\ worker'.batch = worker.batch
         /\ \A b \in AttachmentIds : b # worker.a => attachment'[b] = attachment[b]
         /\ \/ worker'.pc = "failed" /\ attachment' = attachment /\ attachment[worker.a].at # "live"
            \/ /\ worker'.pc = "ack" /\ attachment[worker.a].at = "live"
               /\ attachment'[worker.a].at = "live" /\ attachment'[worker.a].thumb
               /\ attachment'[worker.a].post = attachment[worker.a].post
               /\ attachment'[worker.a].uploader = attachment[worker.a].uploader
<1>1. worker \in WorkerState /\ worker.pc = "set" /\ worker.a \in AttachmentIds
  BY DEF Sound, TypeOK, SetThumbnailKey, WorkerInv
<1>2. PICK a \in AttachmentIds : a = worker.a
  BY <1>1
<1>3. PICK pc \in {"ack", "failed"} :
        /\ worker' = [worker EXCEPT !.pc = pc]
        /\ IF pc = "ack" THEN attachment[a].at = "live" /\ attachment' = [attachment EXCEPT ![a].thumb = TRUE]
           ELSE attachment[a].at # "live" /\ attachment' = attachment
  <2>1. CASE attachment[a].at = "live"
    <3>1. /\ attachment' = [attachment EXCEPT ![a].thumb = TRUE]
          /\ worker' = [worker EXCEPT !.pc = "ack"]
      BY <1>2, <2>1 DEF SetThumbnailKey
    <3>2. QED
      BY <2>1, <3>1
  <2>2. CASE attachment[a].at # "live"
    <3>1. attachment' = attachment /\ worker' = [worker EXCEPT !.pc = "failed"]
      BY <1>2, <2>2 DEF SetThumbnailKey
    <3>2. QED
      BY <2>2, <3>1
  <2>3. QED
    BY <2>1, <2>2
<1>4. /\ worker' \in WorkerState /\ worker'.a = worker.a /\ worker'.batch = worker.batch
      /\ worker'.pc = pc
  BY <1>1, <1>3 DEF WorkerState
<1>5. attachment[a] \in Attachment
  BY DEF Sound, TypeOK
<1>6. /\ attachment' \in [AttachmentIds -> Attachment]
      /\ \A b \in AttachmentIds : b # a => attachment'[b] = attachment[b]
      /\ pc = "ack" => /\ attachment'[a].at = "live" /\ attachment'[a].thumb
                       /\ attachment'[a].post = attachment[a].post
                       /\ attachment'[a].uploader = attachment[a].uploader
  <2>1. CASE pc = "failed"
    BY <1>3, <2>1 DEF Sound, TypeOK
  <2>2. CASE pc = "ack"
    <3> DEFINE n == [attachment[a] EXCEPT !.thumb = TRUE]
    <3>1. /\ n \in Attachment /\ n.at = attachment[a].at /\ n.thumb = TRUE
          /\ n.post = attachment[a].post /\ n.uploader = attachment[a].uploader
      BY <1>5 DEF Attachment
    <3>2. attachment' = [attachment EXCEPT ![a] = n] /\ attachment[a].at = "live"
      BY <1>3, <2>2 DEF Sound, TypeOK
    <3> HIDE DEF n
    <3>3. QED
      BY <3>1, <3>2 DEF Sound, TypeOK
  <2>3. QED
    BY <2>1, <2>2
<1>7. UNCHANGED <<account, post, slot, emoji, files, job, cut, purge, call, drawn, workload, faults,
                  excused, list>>
  BY DEF SetThumbnailKey
<1>8. TypeOK' /\ AuthorsStay /\ call' = call
  BY <1>4, <1>6, <1>7 DEF Sound, TypeOK, list, AuthorsStay
<1>9. Sound'
  BY <1>8, CallsStayCarry
<1>10. CASE pc = "ack"
  BY <1>1, <1>2, <1>3, <1>4, <1>6, <1>8, <1>9, <1>10
<1>11. CASE pc = "failed"
  BY <1>1, <1>2, <1>3, <1>4, <1>6, <1>8, <1>9, <1>11
<1>12. QED
  BY <1>10, <1>11

LEMMA AckMoves ==
  ASSUME Sound, WorkerInv, NEW ok \in BOOLEAN, Ack(ok)
  PROVE  /\ Sound' /\ call' = call /\ worker.pc = "ack" /\ worker.a \in AttachmentIds
         /\ worker'.a = worker.a /\ worker'.batch = worker.batch /\ worker'.pc = "next"
         /\ \A b \in AttachmentIds : b # worker.a => job'[b] = job[b]
         /\ job'[worker.a].deliveries = job[worker.a].deliveries
         /\ ok => /\ job'[worker.a].at = "done" /\ cut' = cut
                  /\ Thumbnail(worker.a) \in NamedKeys \cup excused'
         /\ ~ok => job' = job /\ cut' = cut \cup {worker.a}
         /\ excused \subseteq excused'
<1>1. worker \in WorkerState /\ worker.pc = "ack" /\ worker.a \in AttachmentIds
  BY DEF Sound, TypeOK, Ack, WorkerInv
<1>2. PICK a \in AttachmentIds : a = worker.a
  BY <1>1
<1>3. worker' = [worker EXCEPT !.pc = "next"]
  BY DEF Ack
<1>4. /\ worker' \in WorkerState /\ worker'.a = worker.a /\ worker'.batch = worker.batch
      /\ worker'.pc = "next"
  BY <1>1, <1>3 DEF WorkerState
<1>5. job[a] \in Job /\ job' = IF ok THEN [job EXCEPT ![a].at = "done"] ELSE job
  BY <1>2 DEF Sound, TypeOK, Ack
<1>6. /\ job' \in [AttachmentIds -> Job]
      /\ \A b \in AttachmentIds : b # a => job'[b] = job[b]
      /\ job'[a].deliveries = job[a].deliveries
      /\ ok => job'[a].at = "done"
  BY <1>5 DEF Sound, TypeOK, Job
<1>7. /\ cut' = (IF ok THEN cut ELSE cut \cup {a}) /\ faults' = IF ok THEN faults ELSE faults + 1
      /\ excused' = IF ok /\ Thumbnail(a) \notin NamedKeys THEN excused \cup {Thumbnail(a)} ELSE excused
  BY <1>2 DEF Ack
<1>8. UNCHANGED <<rows, files, purge, call, drawn, workload, list>>
  BY DEF Ack
<1>9. TypeOK' /\ AuthorsStay /\ call' = call
  BY <1>4, <1>6, <1>7, <1>8, KeyFacts DEF Sound, TypeOK, rows, list, AuthorsStay
<1>10. QED
  BY <1>1, <1>2, <1>4, <1>5, <1>6, <1>7, <1>9, CallsStayCarry

\* Which keys are named, family by family.
SlotsHoldImages == \A s \in Slots : slot[s] \in Images \cup {None}

NamedSplit ==
  /\ NamedKeys \subseteq Keys
  /\ \A a \in AttachmentIds :
       /\ Original(a) \in NamedKeys <=> attachment[a].at = "live"
       /\ Thumbnail(a) \in NamedKeys <=> attachment[a].at = "live" /\ attachment[a].thumb
  /\ \A i \in ImageIds : Image(i) \in NamedKeys <=> \E s \in Slots : slot[s] = Image(i)
  /\ \A e \in EmojiIds : Emoji(e) \in NamedKeys <=> emoji[e] # NoEmoji

LEMMA NamedSplits == SlotsHoldImages => NamedSplit
<1> SUFFICES ASSUME SlotsHoldImages PROVE NamedSplit
  OBVIOUS
<1> DEFINE live == {b \in AttachmentIds : attachment[b].at = "live"}
           thumbed == {b \in AttachmentIds : attachment[b].at = "live" /\ attachment[b].thumb}
           shown == {slot[s] : s \in Slots} \ {None}
           kept == {f \in EmojiIds : emoji[f] # NoEmoji}
<1>1. NamedKeys = {Original(a) : a \in live} \cup {Thumbnail(a) : a \in thumbed} \cup shown
                     \cup {Emoji(e) : e \in kept}
  BY DEF NamedKeys
<1>2. \A k : k \in shown <=> k # None /\ \E s \in Slots : slot[s] = k
  OBVIOUS
<1>3. shown \subseteq Images
  BY <1>2 DEF SlotsHoldImages
<1>4. live \subseteq AttachmentIds /\ thumbed \subseteq AttachmentIds /\ kept \subseteq EmojiIds
  OBVIOUS
<1>5. /\ \A a \in AttachmentIds : a \in live <=> attachment[a].at = "live"
      /\ \A a \in AttachmentIds : a \in thumbed <=> attachment[a].at = "live" /\ attachment[a].thumb
      /\ \A e \in EmojiIds : e \in kept <=> emoji[e] # NoEmoji
  OBVIOUS
<1> HIDE DEF live, thumbed, shown, kept
<1>6. NamedKeys \subseteq Keys
  BY <1>1, <1>3, <1>4, KeyFacts
<1>7. \A a \in AttachmentIds : Original(a) \notin Images /\ Thumbnail(a) \notin Images
  BY KeyFacts DEF Images
<1>8. \A e \in EmojiIds : Emoji(e) \notin Images
  BY KeyFacts DEF Images
<1>9. ASSUME NEW a \in AttachmentIds
      PROVE  /\ Original(a) \in NamedKeys <=> a \in live
             /\ Thumbnail(a) \in NamedKeys <=> a \in thumbed
  <2>1. Original(a) \notin shown /\ Thumbnail(a) \notin shown
    BY <1>3, <1>7
  <2>2. \A e \in kept : Original(a) # Emoji(e) /\ Thumbnail(a) # Emoji(e)
    BY <1>4, KeyFacts
  <2>3. \A b \in live : Thumbnail(a) # Original(b) /\ (Original(a) = Original(b) => a = b)
    BY <1>4, KeyFacts
  <2>4. \A b \in thumbed : Original(a) # Thumbnail(b) /\ (Thumbnail(a) = Thumbnail(b) => a = b)
    BY <1>4, KeyFacts
  <2>5. QED
    BY <1>1, <2>1, <2>2, <2>3, <2>4
<1>10. ASSUME NEW i \in ImageIds PROVE Image(i) \in NamedKeys <=> Image(i) \in shown
  <2>1. /\ \A e \in kept : Image(i) # Emoji(e) /\ \A b \in live : Image(i) # Original(b)
        /\ \A b \in thumbed : Image(i) # Thumbnail(b)
        /\ \A b \in live : Image(i) # Original(b)
    BY <1>4, KeyFacts
  <2>2. QED
    BY <1>1, <2>1
<1>11. \A i \in ImageIds : Image(i) # None
  BY KeyFacts
<1>12. ASSUME NEW e \in EmojiIds PROVE Emoji(e) \in NamedKeys <=> e \in kept
  <2>1. /\ \A b \in live : Emoji(e) # Original(b)
        /\ \A b \in thumbed : Emoji(e) # Thumbnail(b)
        /\ \A f \in kept : Emoji(e) = Emoji(f) => e = f
    BY <1>4, KeyFacts
  <2>2. Emoji(e) \notin shown
    BY <1>3, <1>8
  <2>3. QED
    BY <1>1, <2>1, <2>2
<1>13. QED
  BY <1>2, <1>5, <1>6, <1>9, <1>10, <1>11, <1>12 DEF NamedSplit

LEMMA ImageSlots ==
  ASSUME ImageKeys
  PROVE  SlotsHoldImages
BY DEF ImageKeys, SlotsHoldImages

LEMMA DeleteUserMoves ==
  ASSUME Sound, SlotsHoldImages, NEW u \in Users, DeleteUser(u)
  PROVE  /\ Sound' /\ call' = call /\ NamedSplit /\ NamedSplit'
         /\ \A a \in AttachmentIds :
              \/ attachment'[a] = attachment[a] /\ attachment[a].uploader # u
              \/ Gone(a) /\ attachment[a].uploader = u
         /\ \A p \in PostIds : post'[p].sent => post'[p] = post[p] /\ post[p].author # u
         /\ \A s \in Slots : slot'[s] \in {slot[s], None}
         /\ \A e \in EmojiIds : emoji'[e] \in {emoji[e], NoEmoji}
         /\ excused' = excused \cup (NamedKeys \ NamedKeys')
<1> DEFINE mine == {a \in AttachmentIds : attachment[a].uploader = u}
           g == [NoAttachment EXCEPT !.at = "gone"]
           h == [NoPost EXCEPT !.author = u]
<1>1. g \in Attachment /\ g.at = "gone" /\ g.uploader = None /\ g.thumb = FALSE
  BY DEF NoAttachment, Attachment
<1>2. h \in Post /\ h.author = u /\ ~h.sent
  BY DEF NoPost, Post
<1>3. /\ attachment' = [a \in AttachmentIds |-> IF a \in mine THEN g ELSE attachment[a]]
      /\ post' = [p \in PostIds |-> IF post[p].author = u THEN h ELSE post[p]]
      /\ slot' = [s \in Slots |-> IF s[2] = u THEN None ELSE slot[s]]
      /\ emoji' = [e \in EmojiIds |-> IF emoji[e].uploader = u THEN NoEmoji ELSE emoji[e]]
      /\ account' = account \ {u}
      /\ excused' = excused \cup (NamedKeys \ NamedKeys')
      /\ UNCHANGED <<files, stream, purge, call, drawn, workload, faults, told, newest>>
  BY DEF DeleteUser
<1>4. untold' \in BOOLEAN
  BY DEF DeleteUser, Sound, TypeOK
<1> HIDE DEF g, h
<1>5. /\ attachment' \in [AttachmentIds -> Attachment]
      /\ \A a \in AttachmentIds :
           \/ attachment'[a] = attachment[a] /\ attachment[a].uploader # u
           \/ Gone(a) /\ attachment[a].uploader = u
  BY <1>1, <1>3 DEF Sound, TypeOK, Gone
<1> HIDE DEF mine
<1>6. /\ post' \in [PostIds -> Post] /\ AuthorsStay
      /\ \A p \in PostIds : post'[p].sent => post'[p] = post[p] /\ post[p].author # u
  BY <1>2, <1>3 DEF Sound, TypeOK, AuthorsStay
<1>7. /\ slot' \in [Slots -> Keys \cup {None}] /\ \A s \in Slots : slot'[s] \in {slot[s], None}
      /\ emoji' \in [EmojiIds -> EmojiRow]
      /\ \A e \in EmojiIds : emoji'[e] \in {emoji[e], NoEmoji}
  BY <1>3, NoRows DEF Sound, TypeOK
<1>8. SlotsHoldImages'
  BY <1>7 DEF SlotsHoldImages
<1>9. NamedSplit /\ NamedSplit'
  BY <1>8, NamedSplits, PTL
<1>10. excused' \subseteq Keys
  BY <1>3, <1>9 DEF NamedSplit, Sound, TypeOK
<1>11. TypeOK' /\ call' = call
  BY <1>3, <1>4, <1>5, <1>6, <1>7, <1>10 DEF Sound, TypeOK, stream
<1>12. Sound'
  BY <1>6, <1>11, CallsStayCarry
<1>13. QED
  BY <1>3, <1>5, <1>6, <1>7, <1>9, <1>11, <1>12

LEMMA CrashMoves ==
  ASSUME Sound, SlotsHoldImages, NEW torn \in SUBSET Writing, Crash(torn)
  PROVE  /\ Sound' /\ NamedSplit /\ HeldKeys \subseteq Keys
         /\ \A c \in Calls : call'[c] = NoCall
         /\ \A k \in Keys : files'[k] = IF k \in torn THEN "torn" ELSE files[k]
         /\ worker' = Idle
<1>1. \A c \in Calls : call'[c] = NoCall
  BY DEF Crash
<1>2. call' \in [Calls -> Call]
  BY NoRows DEF Crash
<1>3. /\ files' \in [Keys -> {"none", "whole", "torn"}]
      /\ \A k \in Keys : files'[k] = IF k \in torn THEN "torn" ELSE files[k]
  BY DEF Crash, Sound, TypeOK
<1>4. NamedSplit
  BY NamedSplits
<1>5. HeldKeys \subseteq Keys
  <2>1. \A c \in Calls : call[c].new \in Keys \cup {None} /\ call[c].old \in Keys \cup {None}
    BY DEF Sound, TypeOK, Call
  <2>2. purge \subseteq Keys
    BY DEF Sound, TypeOK
  <2>3. ASSUME NEW k \in HeldKeys PROVE k \in Keys
    <3>1. k # None /\ (k \in purge \/ \E c \in Calls : k \in {call[c].new, call[c].old})
      BY <2>3 DEF HeldKeys
    <3>2. QED
      BY <2>1, <2>2, <3>1
  <2>4. QED
    BY <2>3
<1>6. worker' = Idle /\ Idle \in WorkerState
  BY NoRows DEF Crash
<1>7. cut' \subseteq AttachmentIds
  BY DEF Crash, Sound, TypeOK, WorkerState
<1>8. untold' \in BOOLEAN /\ newest' \in Calls \cup {None}
  BY DEF Crash, Sound, TypeOK
<1>9. TypeOK'
  BY <1>2, <1>3, <1>5, <1>6, <1>7, <1>8 DEF Crash, Sound, TypeOK, rows
<1>10. \A c \in Calls : Carries(c)'
  BY <1>1, NoRows DEF Carries
<1>11. QED
  BY <1>1, <1>3, <1>4, <1>5, <1>6, <1>9, <1>10 DEF Sound

-----------------------------------------------------------------------------
(* A step that leaves a family alone keeps its invariants.                 *)

\* Calls of these kinds do not come, go or move.
Still(kinds) ==
  \A d \in Calls : call[d].kind \in kinds \/ call'[d].kind \in kinds => call'[d] = call[d]

AttFrame ==
  /\ attachment' = attachment /\ job' = job /\ worker' = worker /\ purge' = purge
  /\ \A a \in AttachmentIds : /\ files'[Original(a)] = files[Original(a)]
                              /\ files'[Thumbnail(a)] = files[Thumbnail(a)]
  /\ drawn \subseteq drawn' /\ excused \subseteq excused'
  /\ Still({"upload"})

ImgFrame ==
  /\ slot' = slot
  /\ \A i \in ImageIds : Image(i) \notin purge' /\ files'[Image(i)] = files[Image(i)]
  /\ drawn \subseteq drawn' /\ excused \subseteq excused'
  /\ Still(ImageKinds)

EmoFrame ==
  /\ emoji' = emoji
  /\ \A e \in EmojiIds : Emoji(e) \notin purge' /\ files'[Emoji(e)] = files[Emoji(e)]
  /\ drawn \subseteq drawn' /\ excused \subseteq excused'
  /\ Still(EmojiKinds)

LEMMA StillHolds ==
  ASSUME NEW kinds, Still(kinds), NEW k, Holds(k, kinds)
  PROVE  Holds(k, kinds)'
<1>1. PICK d \in Calls : /\ call[d].kind \in kinds
                         /\ \/ call[d].pc \in Unnamed /\ call[d].new = k
                            \/ call[d].pc = "delete_old" /\ call[d].old = k
  BY DEF Holds
<1>2. call'[d] = call[d]
  BY <1>1 DEF Still
<1>3. QED
  BY <1>1, <1>2 DEF Holds

LEMMA AttFramed ==
  ASSUME Sound, AttInv, AttFrame
  PROVE  AttInv'
<1>1. \A d \in Calls : call'[d].kind = "upload" => call'[d] = call[d]
  BY DEF AttFrame, Still
<1>2. AttachmentKeys'
  BY <1>1 DEF AttInv, AttFrame, AttachmentKeys
<1>3. WorkerInv'
  BY DEF AttInv, AttFrame, WorkerInv
<1>4. AttachmentFiles'
  <2>1. \A d \in Calls : call'[d].kind = "upload" =>
          files'[call'[d].new] = files[call[d].new]
    <3>1. \A d \in Calls : call[d].kind = "upload" =>
            call[d].arg \in AttachmentIds /\ call[d].new = Original(call[d].arg)
      BY DEF Sound, Carries
    <3>2. QED
      BY <1>1, <3>1 DEF AttFrame
  <2>2. worker.pc = "set" => worker.a \in AttachmentIds
    BY DEF AttInv, WorkerInv
  <2>3. QED
    BY <1>1, <2>1, <2>2 DEF AttInv, AttFrame, AttachmentFiles
<1>5. AttachmentStrays'
  <2>1. \A a \in AttachmentIds : Holds(Original(a), {"upload"}) => Holds(Original(a), {"upload"})'
    BY StillHolds DEF AttFrame
  <2>2. QED
    BY <2>1 DEF AttInv, AttFrame, AttachmentStrays
<1>6. QED
  BY <1>2, <1>3, <1>4, <1>5 DEF AttInv

LEMMA ImgFramed ==
  ASSUME Sound, ImgInv, ImgFrame
  PROVE  ImgInv'
<1>1. \A d \in Calls : call'[d].kind \in ImageKinds => call'[d] = call[d]
  BY DEF ImgFrame, Still
<1>2. ImageKeys'
  BY <1>1 DEF ImgInv, ImgFrame, ImageKeys, ImageKinds
<1>3. \A k \in Images : files'[k] = files[k]
  BY DEF ImgFrame, Images
<1>4. ImageFiles'
  <2>1. \A d \in Calls : call[d].kind = "upload_image" /\ call[d].pc = "row" => call[d].new \in Images
    BY DEF Sound, Carries, Unnamed
  <2>2. QED
    BY <1>1, <1>3, <2>1 DEF ImgInv, ImgFrame, ImageFiles, ImageKeys, ImageKinds
<1>5. ImageStrays'
  <2>1. \A i \in ImageIds : Holds(Image(i), ImageKinds) => Holds(Image(i), ImageKinds)'
    BY StillHolds DEF ImgFrame
  <2>2. QED
    BY <2>1 DEF ImgInv, ImgFrame, ImageStrays
<1>6. QED
  BY <1>2, <1>4, <1>5 DEF ImgInv

LEMMA EmoFramed ==
  ASSUME Sound, EmoInv, EmoFrame
  PROVE  EmoInv'
<1>1. \A d \in Calls : call'[d].kind \in EmojiKinds => call'[d] = call[d]
  BY DEF EmoFrame, Still
<1>2. EmojiKeys'
  BY <1>1 DEF EmoInv, EmoFrame, EmojiKeys, EmojiKinds
<1>3. EmojiFiles'
  <2>1. \A d \in Calls : call[d].kind = "create_emoji" /\ call[d].pc = "row" =>
          call[d].arg[1] \in EmojiIds /\ call[d].new = Emoji(call[d].arg[1])
    BY DEF Sound, Carries, Unnamed
  <2>2. QED
    BY <1>1, <2>1 DEF EmoInv, EmoFrame, EmojiFiles, EmojiKinds
<1>4. EmojiStrays'
  <2>1. \A e \in EmojiIds : Holds(Emoji(e), EmojiKinds) => Holds(Emoji(e), EmojiKinds)'
    BY StillHolds DEF EmoFrame
  <2>2. QED
    BY <2>1 DEF EmoInv, EmoFrame, EmojiStrays
<1>5. QED
  BY <1>2, <1>3, <1>4 DEF EmoInv

LEMMA OneMoves ==
  ASSUME NEW c \in Calls, Moves(c), NEW kinds, call[c].kind \notin kinds, call'[c].kind \notin kinds
  PROVE  Still(kinds)
BY DEF Moves, Still

LEMMA CallsStay ==
  ASSUME call' = call, NEW kinds
  PROVE  Still(kinds)
BY DEF Still

\* A call that is not c holds on to what it held.
LEMMA OthersHold ==
  ASSUME NEW c \in Calls, Moves(c), NEW kinds, NEW k, Holds(k, kinds),
         ~(/\ call[c].kind \in kinds
           /\ \/ call[c].pc \in Unnamed /\ call[c].new = k
              \/ call[c].pc = "delete_old" /\ call[c].old = k)
  PROVE  Holds(k, kinds)'
<1>1. PICK d \in Calls : /\ call[d].kind \in kinds
                         /\ \/ call[d].pc \in Unnamed /\ call[d].new = k
                            \/ call[d].pc = "delete_old" /\ call[d].old = k
  BY DEF Holds
<1>2. d # c
  BY <1>1
<1>3. call'[d] = call[d]
  BY <1>2 DEF Moves
<1>4. QED
  BY <1>1, <1>3 DEF Holds

-----------------------------------------------------------------------------
(* The attachments, and the steps on them.                                 *)

LEMMA UploadAtt ==
  ASSUME Sound, AttInv, NEW c \in Calls, NEW u \in Users, NEW a \in AttachmentIds, Upload(c, u, a)
  PROVE  AttInv'
<1>1. /\ Moves(c) /\ call[c].kind = "none" /\ call'[c].kind = "upload"
      /\ call'[c].pc = "put" /\ call'[c].new = Original(a) /\ call'[c].arg = a
      /\ Original(a) \notin drawn
  BY UploadMoves
<1>2. /\ attachment' = attachment /\ job' = job /\ worker' = worker /\ purge' = purge
      /\ files' = files /\ excused' = excused /\ drawn' = drawn \cup {Original(a)}
  BY DEF Upload, rows, stream
<1>3. \A d \in Calls : d # c => call'[d] = call[d]
  BY <1>1 DEF Moves
<1>4. AttachmentKeys'
  BY <1>1, <1>2, <1>3 DEF AttInv, AttachmentKeys
<1>5. WorkerInv'
  BY <1>2 DEF AttInv, WorkerInv
<1>6. AttachmentFiles'
  BY <1>1, <1>2, <1>3 DEF AttInv, AttachmentFiles
<1>7. AttachmentStrays'
  <2>1. \A b \in AttachmentIds : Holds(Original(b), {"upload"}) => Holds(Original(b), {"upload"})'
    BY <1>1, OthersHold
  <2>2. QED
    BY <1>2, <2>1 DEF AttInv, AttachmentStrays
<1>8. QED
  BY <1>4, <1>5, <1>6, <1>7 DEF AttInv

LEMMA PutNewAtt ==
  ASSUME Sound, AttInv, NEW c \in Calls, NEW result \in {"whole", "torn", "none"}, PutNew(c, result),
         call[c].kind = "upload"
  PROVE  AttInv'
<1>1. /\ Moves(c) /\ call[c].pc = "put" /\ call[c].new \in Keys
      /\ files'[call[c].new] = result
      /\ \A k \in Keys : k # call[c].new => files'[k] = files[k]
      /\ result = "whole" =>
           /\ call'[c].pc = "row" /\ call'[c].kind = call[c].kind /\ call'[c].new = call[c].new
           /\ call'[c].old = call[c].old /\ call'[c].arg = call[c].arg
      /\ result # "whole" => call'[c] = NoCall
      /\ excused \subseteq excused' /\ (result = "torn" => call[c].new \in excused')
  BY PutNewMoves
<1>2. /\ attachment' = attachment /\ job' = job /\ worker' = worker /\ purge' = purge
      /\ drawn' = drawn
  BY DEF PutNew, rows, stream
<1>3. PICK a \in AttachmentIds : a = call[c].arg /\ call[c].new = Original(a)
  BY DEF Sound, Carries
<1>4. /\ \A b \in AttachmentIds : b # a => files'[Original(b)] = files[Original(b)]
      /\ \A b \in AttachmentIds : files'[Thumbnail(b)] = files[Thumbnail(b)]
  BY <1>1, <1>3, KeyFacts
<1>5. \A d \in Calls : d # c => call'[d] = call[d]
  BY <1>1 DEF Moves
<1>6. call'[c].kind = "upload" => result = "whole"
  BY <1>1, NoRows
<1>7. AttachmentKeys'
  BY <1>1, <1>2, <1>3, <1>5, <1>6 DEF AttInv, AttachmentKeys, Unnamed
<1>8. WorkerInv'
  BY <1>2 DEF AttInv, WorkerInv
<1>9. attachment[a].at = "none"
  BY <1>1, <1>3 DEF AttInv, AttachmentKeys, Unnamed
<1>10. AttachmentFiles'
  <2>1. \A d \in Calls : d # c /\ call[d].kind = "upload" =>
          /\ call[d].arg \in AttachmentIds /\ call[d].arg # a
          /\ call[d].new = Original(call[d].arg)
    BY <1>3 DEF AttInv, AttachmentKeys, Sound, Carries
  <2>2. \A d \in Calls : call'[d].kind = "upload" /\ call'[d].pc = "row" =>
          files'[call'[d].new] = "whole"
    BY <1>1, <1>4, <1>5, <1>6, <2>1 DEF AttInv, AttachmentFiles
  <2>3. worker.pc = "set" => worker.a \in AttachmentIds
    BY DEF AttInv, WorkerInv
  <2>4. QED
    BY <1>2, <1>4, <1>9, <2>2, <2>3 DEF AttInv, AttachmentFiles
<1>11. AttachmentStrays'
  <2>1. \A b \in AttachmentIds : b # a /\ Holds(Original(b), {"upload"}) => Holds(Original(b), {"upload"})'
    BY <1>1, <1>3, OthersHold, KeyFacts
  <2>2. result = "whole" => Holds(Original(a), {"upload"})'
    BY <1>1, <1>3 DEF Holds, Unnamed
  <2>3. result # "whole" => files'[Original(a)] = "none" \/ Original(a) \in excused'
    BY <1>1, <1>3
  <2>4. QED
    BY <1>1, <1>2, <1>4, <2>1, <2>2, <2>3 DEF AttInv, AttachmentStrays
<1>12. QED
  BY <1>7, <1>8, <1>10, <1>11 DEF AttInv

LEMMA CleanupAtt ==
  ASSUME Sound, AttInv, NEW c \in Calls, NEW ok \in BOOLEAN, Cleanup(c, ok), call[c].kind = "upload"
  PROVE  AttInv'
<1>1. /\ Moves(c) /\ call[c].pc = "cleanup" /\ call[c].new \in Keys /\ call'[c] = NoCall
      /\ Delete(call[c].new, ok)
  BY CleanupMoves
<1>2. /\ attachment' = attachment /\ job' = job /\ worker' = worker /\ purge' = purge
      /\ drawn' = drawn
  BY DEF Cleanup, rows, stream
<1>3. PICK a \in AttachmentIds : a = call[c].arg /\ call[c].new = Original(a)
  BY DEF Sound, Carries
<1>4. /\ excused \subseteq excused' /\ (Original(a) \in excused' \/ files'[Original(a)] = "none")
      /\ \A k \in Keys : k # Original(a) => files'[k] = files[k]
  BY <1>1, <1>3, DeleteTyped DEF Sound
<1>5. /\ \A b \in AttachmentIds : b # a => files'[Original(b)] = files[Original(b)]
      /\ \A b \in AttachmentIds : files'[Thumbnail(b)] = files[Thumbnail(b)]
  BY <1>4, KeyFacts
<1>6. (\A d \in Calls : d # c => call'[d] = call[d]) /\ call'[c].kind # "upload"
  BY <1>1, NoRows DEF Moves
<1>7. AttachmentKeys'
  BY <1>2, <1>6 DEF AttInv, AttachmentKeys
<1>8. WorkerInv'
  BY <1>2 DEF AttInv, WorkerInv
<1>9. attachment[a].at = "none"
  BY <1>1, <1>3 DEF AttInv, AttachmentKeys, Unnamed
<1>10. AttachmentFiles'
  <2>1. \A d \in Calls : d # c /\ call[d].kind = "upload" =>
          /\ call[d].arg \in AttachmentIds /\ call[d].arg # a
          /\ call[d].new = Original(call[d].arg)
    BY <1>3 DEF AttInv, AttachmentKeys, Sound, Carries
  <2>2. \A d \in Calls : call'[d].kind = "upload" /\ call'[d].pc = "row" =>
          files'[call'[d].new] = "whole"
    BY <1>5, <1>6, <2>1 DEF AttInv, AttachmentFiles
  <2>3. worker.pc = "set" => worker.a \in AttachmentIds
    BY DEF AttInv, WorkerInv
  <2>4. QED
    BY <1>2, <1>5, <1>9, <2>2, <2>3 DEF AttInv, AttachmentFiles
<1>11. AttachmentStrays'
  <2>1. \A b \in AttachmentIds : b # a /\ Holds(Original(b), {"upload"}) => Holds(Original(b), {"upload"})'
    BY <1>1, <1>3, OthersHold, KeyFacts
  <2>2. QED
    BY <1>2, <1>4, <1>5, <2>1 DEF AttInv, AttachmentStrays
<1>12. QED
  BY <1>7, <1>8, <1>10, <1>11 DEF AttInv

LEMMA CreateAttachmentAtt ==
  ASSUME Sound, AttInv, NEW c \in Calls, CreateAttachment(c)
  PROVE  AttInv'
<1>1. /\ Sound' /\ Moves(c) /\ call[c].kind = "upload" /\ call[c].pc = "row"
      /\ call[c].arg \in AttachmentIds
      /\ call'[c].kind = "upload" /\ call'[c].arg = call[c].arg /\ call'[c].new = call[c].new
      /\ \/ call'[c].pc = "cleanup" /\ attachment' = attachment
         \/ /\ call'[c].pc = "enqueue"
            /\ attachment'[call[c].arg].at = "live" /\ attachment'[call[c].arg].post = None
            /\ attachment'[call[c].arg].thumb = FALSE
      /\ \A a \in AttachmentIds : a # call[c].arg => attachment'[a] = attachment[a]
  BY CreateAttachmentMoves
<1>2. /\ job' = job /\ worker' = worker /\ purge' = purge /\ files' = files
      /\ drawn' = drawn /\ excused' = excused
  BY DEF CreateAttachment, stream
<1>3. PICK a \in AttachmentIds : a = call[c].arg /\ call[c].new = Original(a)
  BY <1>1 DEF Sound, Carries
<1>4. /\ attachment[a].at = "none" /\ job[a].at = "none" /\ Original(a) \in drawn
      /\ files[Original(a)] = "whole"
  BY <1>1, <1>3 DEF AttInv, AttachmentKeys, AttachmentFiles, Unnamed
<1>5. \A d \in Calls : d # c => call'[d] = call[d]
  BY <1>1 DEF Moves
<1>6. \A d \in Calls : d # c /\ call[d].kind = "upload" => call[d].arg \in AttachmentIds /\ call[d].arg # a
  BY <1>1, <1>3 DEF AttInv, AttachmentKeys, Sound, Carries
<1>7. CASE call'[c].pc = "cleanup" /\ attachment' = attachment
  <2>1. AttachmentKeys' /\ WorkerInv'
    BY <1>1, <1>2, <1>5, <1>7 DEF AttInv, AttachmentKeys, WorkerInv, Unnamed
  <2>2. AttachmentFiles'
    BY <1>1, <1>2, <1>5, <1>7 DEF AttInv, AttachmentFiles
  <2>3. \A b \in AttachmentIds : b # a /\ Holds(Original(b), {"upload"}) => Holds(Original(b), {"upload"})'
    BY <1>1, <1>3, OthersHold, KeyFacts
  <2>4. Holds(Original(a), {"upload"})'
    BY <1>1, <1>3, <1>7 DEF Holds, Unnamed
  <2>5. AttachmentStrays'
    BY <1>2, <1>7, <2>3, <2>4 DEF AttInv, AttachmentStrays
  <2>6. QED
    BY <2>1, <2>2, <2>5 DEF AttInv
<1>8. CASE call'[c].pc = "enqueue" /\ attachment'[a].at = "live" /\ attachment'[a].thumb = FALSE
  <2>1. AttachmentKeys'
    <3>1. \A d \in Calls : call'[d].kind = "upload" =>
            /\ Original(call'[d].arg) \in drawn' /\ job'[call'[d].arg].at = "none"
            /\ call'[d].pc \in Unnamed => attachment'[call'[d].arg].at = "none"
            /\ call'[d].pc = "enqueue" => attachment'[call'[d].arg].at # "none"
      BY <1>1, <1>2, <1>3, <1>4, <1>5, <1>6, <1>8 DEF AttInv, AttachmentKeys, Unnamed
    <3>2. \A b \in AttachmentIds :
            Original(b) \in purge \/ Thumbnail(b) \in purge => attachment[b].at = "gone" /\ b # a
      BY <1>4 DEF AttInv, AttachmentKeys
    <3>3. QED
      BY <1>1, <1>2, <1>3, <1>4, <1>5, <1>8, <3>1, <3>2 DEF AttInv, AttachmentKeys
  <2>2. WorkerInv'
    BY <1>1, <1>2, <1>3, <1>8 DEF AttInv, WorkerInv
  <2>3. AttachmentFiles'
    <3>1. \A b \in AttachmentIds : attachment'[b].at = "live" => files'[Original(b)] = "whole"
      BY <1>1, <1>2, <1>3, <1>4 DEF AttInv, AttachmentFiles
    <3>2. worker.pc = "set" => worker.a \in AttachmentIds /\ worker.a # a
      BY <1>4 DEF AttInv, WorkerInv
    <3>3. QED
      BY <1>1, <1>2, <1>3, <1>5, <1>8, <3>1, <3>2 DEF AttInv, AttachmentFiles
  <2>4. \A b \in AttachmentIds : b # a /\ Holds(Original(b), {"upload"}) => Holds(Original(b), {"upload"})'
    BY <1>1, <1>3, OthersHold, KeyFacts
  <2>5. attachment[a].thumb = FALSE
    BY <1>4, NoRows DEF AttInv, AttachmentKeys
  <2>6. AttachmentStrays'
    BY <1>1, <1>2, <1>3, <1>8, <2>4, <2>5 DEF AttInv, AttachmentStrays
  <2>7. QED
    BY <2>1, <2>2, <2>3, <2>6 DEF AttInv
<1>9. QED
  BY <1>1, <1>3, <1>7, <1>8

LEMMA EnqueueAtt ==
  ASSUME Sound, AttInv, NEW c \in Calls, NEW added \in BOOLEAN, EnqueueThumbnail(c, added)
  PROVE  AttInv'
<1>1. /\ Sound' /\ Moves(c) /\ call[c].kind = "upload" /\ call[c].pc = "enqueue"
      /\ call[c].arg \in AttachmentIds /\ call'[c] = NoCall
      /\ \A a \in AttachmentIds : a # call[c].arg => job'[a] = job[a]
      /\ job'[call[c].arg].deliveries = job[call[c].arg].deliveries
      /\ job'[call[c].arg].at \in {job[call[c].arg].at, "queued"}
  BY EnqueueMoves
<1>2. /\ attachment' = attachment /\ worker' = worker /\ purge' = purge /\ files' = files
      /\ drawn' = drawn /\ excused' = excused
  BY DEF EnqueueThumbnail, rows
<1>3. PICK a \in AttachmentIds : a = call[c].arg
  BY <1>1
<1>4. job[a].at = "none" /\ attachment[a].at # "none"
  BY <1>1, <1>3 DEF AttInv, AttachmentKeys
<1>5. (\A d \in Calls : d # c => call'[d] = call[d]) /\ call'[c].kind # "upload"
  BY <1>1, NoRows DEF Moves
<1>6. AttachmentKeys'
  <2>1. \A d \in Calls : d # c /\ call[d].kind = "upload" => call[d].arg \in AttachmentIds /\ call[d].arg # a
    BY <1>1, <1>3 DEF AttInv, AttachmentKeys, Sound, Carries
  <2>2. QED
    BY <1>1, <1>2, <1>3, <1>4, <1>5, <2>1 DEF AttInv, AttachmentKeys
<1>7. WorkerInv'
  <2>1. worker.a # a \/ worker.pc \in {"reclaim", "read", "next"}
    BY <1>4 DEF AttInv, WorkerInv
  <2>2. a \notin worker.batch /\ worker.batch \subseteq AttachmentIds
    BY <1>4 DEF AttInv, WorkerInv, Sound, TypeOK, WorkerState
  <2>3. QED
    BY <1>1, <1>2, <1>3, <1>4, <2>1, <2>2 DEF AttInv, WorkerInv
<1>8. AttachmentFiles'
  <2>1. \A b \in AttachmentIds : job'[b].deliveries = job[b].deliveries
    BY <1>1, <1>3
  <2>2. QED
    BY <1>2, <1>5, <2>1 DEF AttInv, AttachmentFiles
<1>9. AttachmentStrays'
  <2>1. \A b \in AttachmentIds : Holds(Original(b), {"upload"}) => Holds(Original(b), {"upload"})'
    BY <1>1, OthersHold DEF Unnamed
  <2>2. QED
    BY <1>1, <1>2, <1>3, <1>4, <2>1 DEF AttInv, AttachmentStrays
<1>10. QED
  BY <1>6, <1>7, <1>8, <1>9 DEF AttInv

\* The rows keep what the keys depend on.
LEMMA RelinkedAtt ==
  ASSUME Sound, AttInv, Still({"upload"}),
         job' = job, worker' = worker, purge' = purge, files' = files, drawn' = drawn,
         excused' = excused,
         \A a \in AttachmentIds :
           \/ attachment'[a] = attachment[a]
           \/ attachment[a].at = "live" /\ \E p : Relinked(a, p)
  PROVE  AttInv'
<1>1. \A d \in Calls : call'[d].kind = "upload" => call'[d] = call[d]
  BY DEF Still
<1>2. \A a \in AttachmentIds : /\ attachment'[a].at = attachment[a].at
                               /\ attachment'[a].thumb = attachment[a].thumb
                               /\ attachment[a].at = "none" => attachment'[a] = attachment[a]
  BY DEF Relinked
<1>3. \A d \in Calls : call[d].kind = "upload" => call[d].arg \in AttachmentIds
  BY DEF Sound, Carries
<1>4. AttachmentKeys'
  BY <1>1, <1>2, <1>3 DEF AttInv, AttachmentKeys
<1>5. WorkerInv'
  BY <1>2 DEF AttInv, WorkerInv
<1>6. AttachmentFiles'
  BY <1>1, <1>2 DEF AttInv, AttachmentFiles, WorkerInv
<1>7. AttachmentStrays'
  <2>1. \A a \in AttachmentIds : Holds(Original(a), {"upload"}) => Holds(Original(a), {"upload"})'
    BY StillHolds
  <2>2. QED
    BY <1>2, <2>1 DEF AttInv, AttachmentStrays
<1>8. QED
  BY <1>4, <1>5, <1>6, <1>7 DEF AttInv

LEMMA LinkAtt ==
  ASSUME Sound, AttInv, NEW c \in Calls, LinkToMessage(c)
  PROVE  AttInv'
<1>1. Moves(c) /\ call[c].kind = "post" /\ call'[c] = NoCall
  BY LinkMoves
<1>2. PICK p \in PostIds, linked \in SUBSET AttachmentIds :
        /\ \A a \in AttachmentIds \ linked : attachment'[a] = attachment[a]
        /\ \A a \in linked : Relinked(a, p) /\ attachment[a].at = "live"
  BY LinkMoves
<1>3. \A a \in AttachmentIds : \/ attachment'[a] = attachment[a]
                               \/ attachment[a].at = "live" /\ \E q : Relinked(a, q)
  BY <1>2
<1>4. Still({"upload"})
  BY <1>1, OneMoves, NoRows
<1>5. /\ job' = job /\ worker' = worker /\ purge' = purge /\ files' = files /\ drawn' = drawn
      /\ excused' = excused
  BY DEF LinkToMessage, stream
<1>6. QED
  BY <1>3, <1>4, <1>5, RelinkedAtt

LEMMA AgeAtt ==
  ASSUME Sound, AttInv, NEW a \in AttachmentIds, Age(a)
  PROVE  AttInv'
<1>1. /\ call' = call /\ attachment[a].at = "live" /\ Relinked(a, attachment[a].post)
      /\ \A b \in AttachmentIds : b # a => attachment'[b] = attachment[b]
  BY AgeMoves
<1>2. \A b \in AttachmentIds : \/ attachment'[b] = attachment[b]
                               \/ attachment[b].at = "live" /\ \E q : Relinked(b, q)
  BY <1>1
<1>3. Still({"upload"})
  BY <1>1, CallsStay
<1>4. /\ job' = job /\ worker' = worker /\ purge' = purge /\ files' = files /\ drawn' = drawn
      /\ excused' = excused
  BY DEF Age, stream
<1>5. QED
  BY <1>2, <1>3, <1>4, RelinkedAtt

LEMMA PurgeAtt ==
  ASSUME Sound, AttInv, PurgeOrphans
  PROVE  AttInv'
<1>1. call' = call
  BY PurgeMoves
<1>2. PICK orphans \in SUBSET AttachmentIds :
        /\ \A a \in orphans : Gone(a) /\ attachment[a].at = "live"
        /\ \A a \in AttachmentIds \ orphans : attachment'[a] = attachment[a]
        /\ purge = {}
        /\ purge' = {Original(a) : a \in orphans}
                      \cup {Thumbnail(a) : a \in {b \in orphans : attachment[b].thumb}}
  BY PurgeMoves
<1>3. /\ job' = job /\ worker' = worker /\ files' = files /\ drawn' = drawn /\ excused' = excused
  BY DEF PurgeOrphans, stream
<1>4. \A a \in AttachmentIds :
        /\ attachment'[a].at \in {attachment[a].at, "gone"}
        /\ attachment'[a].at # "gone" => attachment'[a] = attachment[a]
        /\ attachment[a].at = "none" => attachment'[a] = attachment[a]
        /\ attachment'[a].thumb => attachment[a].thumb
  BY <1>2 DEF Gone
<1>5. \A d \in Calls : call[d].kind = "upload" => call[d].arg \in AttachmentIds
  BY DEF Sound, Carries
<1>6. \A a \in AttachmentIds : Original(a) \in purge' \/ Thumbnail(a) \in purge' => a \in orphans
  BY <1>2, KeyFacts
<1>7. AttachmentKeys'
  <2>1. \A a \in orphans : attachment'[a].at = "gone"
    BY <1>2 DEF Gone
  <2>2. QED
    BY <1>1, <1>3, <1>4, <1>5, <1>6, <2>1 DEF AttInv, AttachmentKeys
<1>8. WorkerInv'
  BY <1>3, <1>4 DEF AttInv, WorkerInv
<1>9. AttachmentFiles'
  BY <1>1, <1>3, <1>4 DEF AttInv, AttachmentFiles, WorkerInv
<1>10. AttachmentStrays'
  <2>1. \A a \in AttachmentIds : Holds(Original(a), {"upload"}) => Holds(Original(a), {"upload"})'
    BY <1>1, StillHolds, CallsStay
  <2>2. \A a \in orphans : /\ Original(a) \in purge'
                           /\ attachment[a].thumb => Thumbnail(a) \in purge'
    BY <1>2
  <2>3. \A a \in AttachmentIds \ orphans : attachment'[a] = attachment[a]
    BY <1>2
  <2>4. purge = {}
    BY <1>2
  <2>5. QED
    BY <1>3, <2>1, <2>2, <2>3, <2>4 DEF AttInv, AttachmentStrays
<1>11. QED
  BY <1>7, <1>8, <1>9, <1>10 DEF AttInv

LEMMA DeleteOrphanAtt ==
  ASSUME Sound, AttInv, ImgInv, EmoInv, NEW k \in Keys, NEW ok \in BOOLEAN, DeleteOrphan(k, ok)
  PROVE  AttInv' /\ ImgFrame /\ EmoFrame
<1>1. k \in purge /\ Delete(k, ok) /\ purge' = purge \ {k} /\ call' = call
  BY DEF DeleteOrphan
<1>2. /\ attachment' = attachment /\ job' = job /\ worker' = worker /\ drawn' = drawn
      /\ slot' = slot /\ emoji' = emoji
  BY DEF DeleteOrphan, rows, stream
<1>3. /\ excused \subseteq excused' /\ (ok \/ k \in excused')
      /\ \A j \in Keys : j # k => files'[j] = files[j]
      /\ ok => files'[k] = "none"
  BY <1>1, DeleteTyped DEF Sound
<1>4. (\A i \in ImageIds : Image(i) \notin purge) /\ (\A e \in EmojiIds : Emoji(e) \notin purge)
  BY DEF ImgInv, ImageKeys, EmoInv, EmojiKeys
<1>5. ImgFrame /\ EmoFrame
  BY <1>1, <1>2, <1>3, <1>4, CallsStay, KeyFacts DEF ImgFrame, EmoFrame
<1>6. PICK a \in AttachmentIds : k = Original(a) \/ k = Thumbnail(a)
  BY <1>1, <1>4, KeyCases
<1>7. attachment[a].at = "gone"
  BY <1>1, <1>6 DEF AttInv, AttachmentKeys
<1>8. \A b \in AttachmentIds : b # a => /\ files'[Original(b)] = files[Original(b)]
                                        /\ files'[Thumbnail(b)] = files[Thumbnail(b)]
                                        /\ Original(b) # k /\ Thumbnail(b) # k
  BY <1>3, <1>6, KeyFacts
<1>9. AttachmentKeys' /\ WorkerInv'
  BY <1>1, <1>2 DEF AttInv, AttachmentKeys, WorkerInv
<1>10. AttachmentFiles'
  <2>1. \A d \in Calls : call[d].kind = "upload" /\ call[d].pc = "row" =>
          /\ call[d].arg \in AttachmentIds /\ call[d].arg # a
          /\ call[d].new = Original(call[d].arg)
    BY <1>7 DEF AttInv, AttachmentKeys, Sound, Carries, Unnamed
  <2>2. \A d \in Calls : call'[d].kind = "upload" /\ call'[d].pc = "row" =>
          files'[call'[d].new] = "whole"
    BY <1>1, <1>8, <2>1 DEF AttInv, AttachmentFiles
  <2>3. QED
    BY <1>1, <1>2, <1>7, <1>8, <2>2 DEF AttInv, AttachmentFiles, WorkerInv
<1>11. AttachmentStrays'
  <2>1. \A b \in AttachmentIds : Holds(Original(b), {"upload"}) => Holds(Original(b), {"upload"})'
    BY <1>1, StillHolds, CallsStay
  <2>2. /\ files'[Original(a)] # "none" => files[Original(a)] # "none" \/ Original(a) \in excused'
        /\ files'[Thumbnail(a)] # "none" => files[Thumbnail(a)] # "none" \/ Thumbnail(a) \in excused'
    BY <1>3, <1>6, KeyFacts
  <2>3. /\ Original(a) \in purge /\ files'[Original(a)] # "none" => Original(a) \in purge' \cup excused'
        /\ Thumbnail(a) \in purge /\ files'[Thumbnail(a)] # "none" => Thumbnail(a) \in purge' \cup excused'
    BY <1>1, <1>3
  <2>4. \A b \in AttachmentIds : b # a => /\ Original(b) \in purge => Original(b) \in purge'
                                          /\ Thumbnail(b) \in purge => Thumbnail(b) \in purge'
    BY <1>1, <1>8
  <2>5. QED
    BY <1>2, <1>3, <1>8, <2>1, <2>2, <2>3, <2>4 DEF AttInv, AttachmentStrays
<1>12. QED
  BY <1>5, <1>9, <1>10, <1>11 DEF AttInv

LEMMA TakesAtt ==
  ASSUME Sound, AttInv, NEW batch \in SUBSET AttachmentIds, Takes(batch)
  PROVE  AttInv'
<1>1. /\ call' = call /\ worker'.pc = "next" /\ worker'.batch = batch /\ worker'.a = None
      /\ Deliver(batch) /\ \A a \in batch : job[a].at \in {"pending", "queued"}
  BY TakesMoves
<1>2. /\ \A a \in AttachmentIds \ batch : job'[a] = job[a]
      /\ \A a \in batch : /\ job'[a].at = "pending"
                          /\ job'[a].deliveries = job[a].deliveries + 1
  BY <1>1, DeliverMoves
<1>3. \A a \in AttachmentIds : job[a].deliveries \in Nat
  BY DEF Sound, TypeOK, Job
<1>4. /\ attachment' = attachment /\ purge' = purge /\ files' = files /\ drawn' = drawn
      /\ excused' = excused
  BY Zenon DEF Takes, ReclaimStale, ReadJob, rows
<1>5. \A d \in Calls : call[d].kind = "upload" => call[d].arg \in AttachmentIds
  BY DEF Sound, Carries
<1>6. \A a \in AttachmentIds : job[a].at = "none" => job'[a] = job[a]
  BY <1>1, <1>2
<1>7. AttachmentKeys'
  BY <1>1, <1>4, <1>5, <1>6 DEF AttInv, AttachmentKeys
<1>8. \A a \in AttachmentIds : job'[a].at \in {"none", "queued"} => job'[a] = job[a]
  BY <1>2
<1>9. WorkerInv'
  <2>1. \A a \in AttachmentIds : job'[a].at = "pending" => job'[a].deliveries > 0
    BY <1>2, <1>3 DEF AttInv, WorkerInv
  <2>2. QED
    BY <1>1, <1>2, <1>4, <1>8, <2>1 DEF AttInv, WorkerInv
<1>10. AttachmentFiles'
  <2>1. \A a \in batch : attachment[a].thumb => job[a].deliveries > 0
    BY <1>1, <1>3 DEF AttInv, WorkerInv
  <2>2. \A a \in batch : attachment[a].thumb => ~(job'[a].deliveries <= 1)
    BY <1>2, <1>3, <2>1
  <2>3. \A a \in AttachmentIds : a # None
    BY FilesAssumption
  <2>4. QED
    BY <1>1, <1>2, <1>4, <2>2, <2>3 DEF AttInv, AttachmentFiles
<1>11. AttachmentStrays'
  <2>1. \A a \in AttachmentIds : Holds(Original(a), {"upload"}) => Holds(Original(a), {"upload"})'
    BY <1>1, StillHolds, CallsStay
  <2>2. \A a \in AttachmentIds : job[a].at = "pending" => job'[a].at = "pending"
    BY <1>2
  <2>3. QED
    BY <1>4, <2>1, <2>2 DEF AttInv, AttachmentStrays
<1>12. QED
  BY <1>7, <1>9, <1>10, <1>11 DEF AttInv

LEMMA ThinksAtt ==
  ASSUME Sound, AttInv, Thinks
  PROVE  AttInv'
<1>1. /\ call' = call /\ attachment' = attachment /\ purge' = purge /\ files' = files
      /\ drawn' = drawn /\ excused' = excused /\ job' = job
  BY Zenon DEF Thinks, ReadFails, NextJob, ReadOriginal, JobFailed, rows
<1>2. \/ /\ worker.pc \in {"read", "next"} /\ worker.batch = {}
         /\ worker'.batch = {} /\ worker'.a = None /\ worker'.pc \in {"reclaim", "read"}
      \/ /\ worker.pc = "next" /\ worker'.pc = "get" /\ worker'.a \in worker.batch
         /\ worker'.batch = worker.batch \ {worker'.a}
      \/ /\ worker.pc = "get" /\ worker'.pc \in {"put", "failed", "ack"}
         /\ worker'.a = worker.a /\ worker'.batch = worker.batch
      \/ /\ worker.pc = "failed" /\ worker'.a = worker.a /\ worker'.batch = worker.batch
         /\ worker'.pc \in {"ack", "next"}
  BY ThinksMoves DEF AttInv
<1>3. AttachmentKeys'
  BY <1>1 DEF AttInv, AttachmentKeys
<1>4. WorkerInv'
  <2>1. worker.batch \subseteq AttachmentIds
    BY DEF Sound, TypeOK, WorkerState
  <2>2. QED
    BY <1>1, <1>2, <2>1 DEF AttInv, WorkerInv
<1>5. AttachmentFiles'
  <2>1. worker'.pc # "set"
    BY <1>2
  <2>2. \A a \in AttachmentIds : a # None
    BY FilesAssumption
  <2>3. QED
    BY <1>1, <1>2, <2>1, <2>2 DEF AttInv, AttachmentFiles
<1>6. AttachmentStrays'
  <2>1. \A a \in AttachmentIds : Holds(Original(a), {"upload"}) => Holds(Original(a), {"upload"})'
    BY <1>1, StillHolds, CallsStay
  <2>2. QED
    BY <1>1, <2>1 DEF AttInv, AttachmentStrays
<1>7. QED
  BY <1>3, <1>4, <1>5, <1>6 DEF AttInv

LEMMA PutThumbnailAtt ==
  ASSUME Sound, AttInv, NEW result \in {"whole", "torn", "none"}, PutThumbnail(result)
  PROVE  AttInv'
<1>1. /\ call' = call /\ worker.pc = "put"
      /\ worker'.a = worker.a /\ worker'.batch = worker.batch /\ worker'.pc \in {"set", "failed"}
      /\ worker'.pc = "set" => files'[Thumbnail(worker.a)] = "whole"
      /\ \A k \in Keys : k # Thumbnail(worker.a) => files'[k] = files[k]
  BY PutThumbnailMoves DEF AttInv
<1>2. /\ attachment' = attachment /\ job' = job /\ purge' = purge /\ drawn' = drawn
      /\ excused' = excused
  BY Zenon DEF PutThumbnail, rows
<1>3. worker.a \in AttachmentIds /\ job[worker.a].at = "pending"
  BY <1>1 DEF AttInv, WorkerInv
<1>4. /\ \A b \in AttachmentIds : files'[Original(b)] = files[Original(b)]
      /\ \A b \in AttachmentIds : b # worker.a => files'[Thumbnail(b)] = files[Thumbnail(b)]
  BY <1>1, <1>3, KeyFacts
<1>5. AttachmentKeys'
  BY <1>1, <1>2 DEF AttInv, AttachmentKeys
<1>6. WorkerInv'
  BY <1>1, <1>2 DEF AttInv, WorkerInv
<1>7. AttachmentFiles'
  <2>1. \A d \in Calls : call[d].kind = "upload" =>
          call[d].arg \in AttachmentIds /\ call[d].new = Original(call[d].arg)
    BY DEF Sound, Carries
  <2>2. \A d \in Calls : call[d].kind = "upload" => files'[call[d].new] = files[call[d].new]
    BY <1>4, <2>1
  <2>3. QED
    BY <1>1, <1>2, <1>4, <2>2 DEF AttInv, AttachmentFiles
<1>8. AttachmentStrays'
  <2>1. \A a \in AttachmentIds : Holds(Original(a), {"upload"}) => Holds(Original(a), {"upload"})'
    BY <1>1, StillHolds, CallsStay
  <2>2. QED
    BY <1>2, <1>3, <1>4, <2>1 DEF AttInv, AttachmentStrays
<1>9. QED
  BY <1>5, <1>6, <1>7, <1>8 DEF AttInv

LEMMA SetThumbnailAtt ==
  ASSUME Sound, AttInv, SetThumbnailKey
  PROVE  AttInv'
<1>1. /\ call' = call /\ worker.pc = "set"
      /\ worker'.a = worker.a /\ worker'.batch = worker.batch
      /\ \A b \in AttachmentIds : b # worker.a => attachment'[b] = attachment[b]
      /\ \/ worker'.pc = "failed" /\ attachment' = attachment /\ attachment[worker.a].at # "live"
         \/ /\ worker'.pc = "ack" /\ attachment[worker.a].at = "live"
            /\ attachment'[worker.a].at = "live" /\ attachment'[worker.a].thumb
  BY SetThumbnailMoves DEF AttInv
<1>2. /\ job' = job /\ purge' = purge /\ drawn' = drawn /\ excused' = excused /\ files' = files
  BY DEF SetThumbnailKey
<1>3. /\ worker.a \in AttachmentIds /\ job[worker.a].at = "pending" /\ worker.a \notin worker.batch
      /\ attachment[worker.a].at = "live" => files[Thumbnail(worker.a)] = "whole"
  BY <1>1 DEF AttInv, WorkerInv, AttachmentFiles
<1>4. \A b \in AttachmentIds : /\ attachment'[b].at = attachment[b].at
                               /\ attachment[b].at # "live" => attachment'[b] = attachment[b]
                               /\ attachment[b].thumb => attachment'[b].thumb
                               /\ attachment'[b].thumb => attachment[b].thumb \/ b = worker.a
  BY <1>1
<1>5. AttachmentKeys'
  <2>1. \A d \in Calls : call[d].kind = "upload" => call[d].arg \in AttachmentIds
    BY DEF Sound, Carries
  <2>2. QED
    BY <1>1, <1>2, <1>4, <2>1 DEF AttInv, AttachmentKeys
<1>6. WorkerInv'
  BY <1>1, <1>2, <1>3, <1>4 DEF AttInv, WorkerInv
<1>7. AttachmentFiles'
  <2>1. \A b \in AttachmentIds : b # worker.a => attachment'[b] = attachment[b]
    BY <1>1
  <2>2. worker'.a = worker.a /\ worker'.batch = worker.batch /\ worker'.pc # "set"
    BY <1>1
  <2>3. attachment'[worker.a].at = "live" => worker'.pc = "ack"
    BY <1>1
  <2>4. QED
    BY <1>1, <1>2, <1>3, <1>4, <2>1, <2>2, <2>3 DEF AttInv, AttachmentFiles
<1>8. AttachmentStrays'
  <2>1. \A a \in AttachmentIds : Holds(Original(a), {"upload"}) => Holds(Original(a), {"upload"})'
    BY <1>1, StillHolds, CallsStay
  <2>2. QED
    BY <1>2, <1>4, <2>1 DEF AttInv, AttachmentStrays
<1>9. QED
  BY <1>5, <1>6, <1>7, <1>8 DEF AttInv

LEMMA AckAtt ==
  ASSUME Sound, AttInv, SlotsHoldImages, NEW ok \in BOOLEAN, Ack(ok)
  PROVE  AttInv'
<1>1. /\ call' = call /\ worker.pc = "ack" /\ worker.a \in AttachmentIds
      /\ worker'.a = worker.a /\ worker'.batch = worker.batch /\ worker'.pc = "next"
      /\ \A b \in AttachmentIds : b # worker.a => job'[b] = job[b]
      /\ job'[worker.a].deliveries = job[worker.a].deliveries
      /\ ok => job'[worker.a].at = "done" /\ Thumbnail(worker.a) \in NamedKeys \cup excused'
      /\ ~ok => job' = job
      /\ excused \subseteq excused'
  BY AckMoves DEF AttInv
<1>2. attachment' = attachment /\ purge' = purge /\ drawn' = drawn /\ files' = files
  BY DEF Ack, rows
<1>3. job[worker.a].at = "pending" /\ worker.a \notin worker.batch
  BY <1>1 DEF AttInv, WorkerInv
<1>4. worker.batch \subseteq AttachmentIds
  BY DEF Sound, TypeOK, WorkerState
<1>5. \A b \in AttachmentIds : /\ job'[b].deliveries = job[b].deliveries
                               /\ job'[b].at \in {"none", "queued", "pending"} => job'[b].at = job[b].at
                               /\ job[b].at = "none" => job'[b].at = "none"
  BY <1>1, <1>3
<1>6. AttachmentKeys'
  <2>1. \A d \in Calls : call[d].kind = "upload" => call[d].arg \in AttachmentIds
    BY DEF Sound, Carries
  <2>2. QED
    BY <1>1, <1>2, <1>5, <2>1 DEF AttInv, AttachmentKeys
<1>7. WorkerInv'
  BY <1>1, <1>2, <1>3, <1>4, <1>5 DEF AttInv, WorkerInv
<1>8. AttachmentFiles'
  BY <1>1, <1>2, <1>5 DEF AttInv, AttachmentFiles
<1>9. AttachmentStrays'
  <2>1. \A a \in AttachmentIds : Holds(Original(a), {"upload"}) => Holds(Original(a), {"upload"})'
    BY <1>1, StillHolds, CallsStay
  <2>2. Thumbnail(worker.a) \in NamedKeys <=> attachment[worker.a].at = "live" /\ attachment[worker.a].thumb
    BY <1>1, NamedSplits DEF NamedSplit
  <2>3. QED
    BY <1>1, <1>2, <2>1, <2>2 DEF AttInv, AttachmentStrays
<1>10. QED
  BY <1>6, <1>7, <1>8, <1>9 DEF AttInv

LEMMA DeleteUserAtt ==
  ASSUME Sound, AttInv, SlotsHoldImages, NEW u \in Users, DeleteUser(u)
  PROVE  AttInv'
<1>1. /\ call' = call /\ NamedSplit /\ NamedSplit'
      /\ \A a \in AttachmentIds :
           \/ attachment'[a] = attachment[a]
           \/ Gone(a) /\ attachment[a].uploader = u
      /\ excused' = excused \cup (NamedKeys \ NamedKeys')
  BY DeleteUserMoves
<1>2. /\ files' = files /\ job' = job /\ worker' = worker /\ purge' = purge /\ drawn' = drawn
  BY DEF DeleteUser, stream
<1>3. \A a \in AttachmentIds : attachment[a].at = "none" => attachment[a].uploader = None
  BY NoRows DEF AttInv, AttachmentKeys
<1>4. u # None
  BY FilesAssumption
<1>5. \A a \in AttachmentIds :
        /\ attachment'[a].at \in {attachment[a].at, "gone"}
        /\ attachment'[a].at # "gone" => attachment'[a] = attachment[a]
        /\ attachment[a].at = "none" => attachment'[a] = attachment[a]
        /\ attachment'[a].thumb => attachment[a].thumb
  BY <1>1, <1>3, <1>4 DEF Gone
<1>6. \A d \in Calls : call[d].kind = "upload" => call[d].arg \in AttachmentIds
  BY DEF Sound, Carries
<1>7. AttachmentKeys'
  BY <1>1, <1>2, <1>5, <1>6 DEF AttInv, AttachmentKeys
<1>8. WorkerInv'
  BY <1>2, <1>5 DEF AttInv, WorkerInv
<1>9. AttachmentFiles'
  BY <1>1, <1>2, <1>5 DEF AttInv, AttachmentFiles, WorkerInv
<1>10. AttachmentStrays'
  <2>1. \A a \in AttachmentIds : Holds(Original(a), {"upload"}) => Holds(Original(a), {"upload"})'
    BY <1>1, StillHolds, CallsStay
  <2>2. ASSUME NEW a \in AttachmentIds
        PROVE  /\ Original(a) \in NamedKeys <=> attachment[a].at = "live"
               /\ Thumbnail(a) \in NamedKeys <=> attachment[a].at = "live" /\ attachment[a].thumb
               /\ Original(a) \in NamedKeys' <=> attachment'[a].at = "live"
               /\ Thumbnail(a) \in NamedKeys' <=> attachment'[a].at = "live" /\ attachment'[a].thumb
    BY <1>1 DEF NamedSplit
  <2>3. \A k \in NamedKeys : k \in NamedKeys' \cup excused'
    BY <1>1
  <2>4. excused \subseteq excused'
    BY <1>1
  <2>5. QED
    BY <1>2, <2>1, <2>2, <2>3, <2>4 DEF AttInv, AttachmentStrays
<1>11. QED
  BY <1>7, <1>8, <1>9, <1>10 DEF AttInv

LEMMA DeleteUserImg ==
  ASSUME Sound, ImgInv, NEW u \in Users, DeleteUser(u)
  PROVE  ImgInv'
<1>1. /\ call' = call /\ NamedSplit /\ NamedSplit'
      /\ \A s \in Slots : slot'[s] \in {slot[s], None}
      /\ excused' = excused \cup (NamedKeys \ NamedKeys')
  BY DeleteUserMoves, ImageSlots DEF ImgInv
<1>2. files' = files /\ purge' = purge /\ drawn' = drawn
  BY DEF DeleteUser
<1>3. ImageKeys'
  <2>1. \A k \in Images : k # None
    BY KeyFacts
  <2>2. \A c \in Calls : call[c].kind = "upload_image" /\ call[c].pc \in Unnamed => call[c].new # None
    BY KeyFacts DEF Sound, Carries
  <2>3. \A c \in Calls : call[c].kind \in ImageKinds => call[c].arg \in Slots
    BY DEF Sound, Carries, ImageKinds
  <2>4. QED
    BY <1>1, <1>2, <2>1, <2>2, <2>3 DEF ImgInv, ImageKeys
<1>4. ImageFiles'
  BY <1>1, <1>2 DEF ImgInv, ImageFiles
<1>5. ImageStrays'
  <2>1. \A i \in ImageIds : Holds(Image(i), ImageKinds) => Holds(Image(i), ImageKinds)'
    BY <1>1, StillHolds, CallsStay
  <2>2. ASSUME NEW i \in ImageIds
        PROVE  /\ Image(i) \in NamedKeys <=> \E s \in Slots : slot[s] = Image(i)
               /\ Image(i) \in NamedKeys' <=> \E s \in Slots : slot'[s] = Image(i)
    BY <1>1 DEF NamedSplit
  <2>3. QED
    BY <1>1, <1>2, <2>1, <2>2 DEF ImgInv, ImageStrays
<1>6. QED
  BY <1>3, <1>4, <1>5 DEF ImgInv

LEMMA DeleteUserEmo ==
  ASSUME Sound, EmoInv, SlotsHoldImages, NEW u \in Users, DeleteUser(u)
  PROVE  EmoInv'
<1>1. /\ call' = call /\ NamedSplit /\ NamedSplit'
      /\ \A e \in EmojiIds : emoji'[e] \in {emoji[e], NoEmoji}
      /\ excused' = excused \cup (NamedKeys \ NamedKeys')
  BY DeleteUserMoves
<1>2. files' = files /\ purge' = purge /\ drawn' = drawn
  BY DEF DeleteUser
<1>3. EmojiKeys'
  <2>1. \A c \in Calls : /\ call[c].kind = "create_emoji" => call[c].arg[1] \in EmojiIds
                         /\ call[c].kind = "delete_emoji" => call[c].arg \in EmojiIds
    BY DEF Sound, Carries
  <2>2. QED
    BY <1>1, <1>2, <2>1 DEF EmoInv, EmojiKeys
<1>4. EmojiFiles'
  BY <1>1, <1>2 DEF EmoInv, EmojiFiles
<1>5. EmojiStrays'
  <2>1. \A e \in EmojiIds : Holds(Emoji(e), EmojiKinds) => Holds(Emoji(e), EmojiKinds)'
    BY <1>1, StillHolds, CallsStay
  <2>2. ASSUME NEW e \in EmojiIds
        PROVE  /\ Emoji(e) \in NamedKeys <=> emoji[e] # NoEmoji
               /\ Emoji(e) \in NamedKeys' <=> emoji'[e] # NoEmoji
    BY <1>1 DEF NamedSplit
  <2>3. QED
    BY <1>1, <1>2, <2>1, <2>2 DEF EmoInv, EmojiStrays
<1>6. QED
  BY <1>3, <1>4, <1>5 DEF EmoInv

-----------------------------------------------------------------------------
(* The process dies: every call forgets its key, which is then on record.  *)

\* A key that is being written is a call's, or the worker's.
LEMMA WritingKeys ==
  ASSUME NEW k \in Writing
  PROVE  \/ \E c \in Calls : call[c].pc = "put" /\ call[c].new = k
         \/ worker.pc = "put" /\ k = Thumbnail(worker.a)
BY DEF Writing, At

LEMMA HeldFacts ==
  /\ \A c \in Calls : /\ call[c].new # None => call[c].new \in HeldKeys
                      /\ call[c].old # None => call[c].old \in HeldKeys
  /\ \A k \in purge : k # None => k \in HeldKeys
BY DEF HeldKeys

LEMMA HoldsHeld ==
  ASSUME NEW kinds, NEW k, k # None, Holds(k, kinds)
  PROVE  k \in HeldKeys
BY HeldFacts DEF Holds

\* Only an upload writes an original, an image's file or an emoji's.
LEMMA PutKinds ==
  ASSUME Sound, NEW c \in Calls, call[c].pc = "put"
  PROVE  /\ call[c].new # None
         /\ \A a \in AttachmentIds : call[c].new = Original(a) => call[c].kind = "upload" /\ call[c].arg = a
         /\ \A a \in AttachmentIds : call[c].new # Thumbnail(a)
         /\ \A i \in ImageIds : call[c].new = Image(i) => call[c].kind = "upload_image"
         /\ \A e \in EmojiIds : call[c].new = Emoji(e) => call[c].kind = "create_emoji" /\ call[c].arg[1] = e
<1>1. Carries(c) /\ call[c] \in Call
  BY DEF Sound, TypeOK
<1>2. \/ call[c].kind = "upload" /\ call[c].arg \in AttachmentIds /\ call[c].new = Original(call[c].arg)
      \/ call[c].kind = "upload_image" /\ call[c].new \in Images
      \/ /\ call[c].kind = "create_emoji" /\ call[c].arg[1] \in EmojiIds
         /\ call[c].new = Emoji(call[c].arg[1])
  BY <1>1 DEF Carries, Call, Kinds, Unnamed
<1>3. call[c].kind = "upload_image" => \E j \in ImageIds : call[c].new = Image(j)
  BY <1>2 DEF Images
<1>4. QED
  BY <1>2, <1>3, KeyFacts

LEMMA CrashAtt ==
  ASSUME Sound, AttInv, SlotsHoldImages, NEW torn \in SUBSET Writing, Crash(torn)
  PROVE  AttInv'
<1>1. /\ NamedSplit /\ \A c \in Calls : call'[c] = NoCall
      /\ \A k \in Keys : files'[k] = IF k \in torn THEN "torn" ELSE files[k]
      /\ worker' = Idle
  BY CrashMoves
<1>2. /\ attachment' = attachment /\ job' = job /\ drawn' = drawn /\ purge' = {}
      /\ excused' = excused \cup (HeldKeys \ NamedKeys)
  BY DEF Crash, rows
<1>3. \A c \in Calls : call'[c].kind = "none"
  BY <1>1, NoRows
<1>4. worker'.pc = "reclaim" /\ worker'.batch = {} /\ worker'.a = None
  BY <1>1, NoRows
<1>5. \A a \in AttachmentIds : Original(a) \in torn => attachment[a].at = "none" /\ Original(a) \in HeldKeys
  <2>1. SUFFICES ASSUME NEW a \in AttachmentIds, Original(a) \in torn
                 PROVE  attachment[a].at = "none" /\ Original(a) \in HeldKeys
    OBVIOUS
  <2>2. Original(a) # Thumbnail(worker.a) \/ worker.pc # "put"
    BY KeyFacts DEF AttInv, WorkerInv
  <2>3. PICK c \in Calls : call[c].pc = "put" /\ call[c].new = Original(a)
    BY <2>1, <2>2, WritingKeys
  <2>4. call[c].kind = "upload" /\ call[c].arg = a /\ call[c].new # None
    BY <2>3, PutKinds
  <2>5. QED
    BY <2>3, <2>4, HeldFacts DEF AttInv, AttachmentKeys, Unnamed
<1>6. \A a \in AttachmentIds : Thumbnail(a) \in torn => worker.pc = "put" /\ worker.a = a /\ job[a].at = "pending"
  <2>1. SUFFICES ASSUME NEW a \in AttachmentIds, Thumbnail(a) \in torn
                 PROVE  worker.pc = "put" /\ worker.a = a /\ job[a].at = "pending"
    OBVIOUS
  <2>2. worker.pc = "put" /\ Thumbnail(a) = Thumbnail(worker.a)
    BY <2>1, WritingKeys, PutKinds
  <2>3. worker.a \in AttachmentIds /\ job[worker.a].at = "pending"
    BY <2>2 DEF AttInv, WorkerInv
  <2>4. QED
    BY <2>2, <2>3, KeyFacts
<1>7. AttachmentKeys'
  BY <1>2, <1>3 DEF AttInv, AttachmentKeys
<1>8. WorkerInv'
  BY <1>2, <1>4 DEF AttInv, WorkerInv
<1>9. AttachmentFiles'
  <2>1. \A a \in AttachmentIds : a # None /\ Original(a) \in Keys /\ Thumbnail(a) \in Keys
    BY FilesAssumption, KeyFacts
  <2>2. \A a \in AttachmentIds : attachment[a].at = "live" => files'[Original(a)] = files[Original(a)]
    BY <1>1, <1>5, <2>1
  <2>3. \A a \in AttachmentIds : attachment[a].at = "live" /\ attachment[a].thumb /\ job[a].deliveries <= 1
          => files'[Thumbnail(a)] = files[Thumbnail(a)]
    BY <1>1, <1>6, <2>1 DEF AttInv, AttachmentFiles
  <2>4. QED
    BY <1>2, <1>3, <1>4, <2>1, <2>2, <2>3 DEF AttInv, AttachmentFiles
<1>10. AttachmentStrays'
  <2>1. SUFFICES ASSUME NEW a \in AttachmentIds
                 PROVE  /\ files'[Original(a)] # "none" =>
                             attachment[a].at = "live" \/ Original(a) \in excused'
                        /\ files'[Thumbnail(a)] # "none" =>
                             \/ attachment[a].at = "live" /\ attachment[a].thumb
                             \/ Thumbnail(a) \in excused' \/ job[a].at = "pending"
    BY <1>2 DEF AttachmentStrays
  <2>2. /\ Original(a) \in Keys /\ Thumbnail(a) \in Keys
        /\ Original(a) # None /\ Thumbnail(a) # None
    BY KeyFacts
  <2>3. /\ Original(a) \in NamedKeys <=> attachment[a].at = "live"
        /\ Thumbnail(a) \in NamedKeys <=> attachment[a].at = "live" /\ attachment[a].thumb
    BY <1>1 DEF NamedSplit
  <2>4. Holds(Original(a), {"upload"}) => Original(a) \in HeldKeys
    BY <2>2, HoldsHeld
  <2>5. \A k \in purge : k # None => k \in HeldKeys
    BY HeldFacts
  <2>6. /\ Original(a) \in HeldKeys => Original(a) \in NamedKeys \cup excused'
        /\ Thumbnail(a) \in HeldKeys => Thumbnail(a) \in NamedKeys \cup excused'
        /\ excused \subseteq excused'
    BY <1>2
  <2>7. files'[Original(a)] # "none" => attachment[a].at = "live" \/ Original(a) \in excused'
    <3>1. CASE Original(a) \in torn
      BY <1>5, <2>3, <2>6, <3>1
    <3>2. CASE Original(a) \notin torn
      BY <1>1, <2>2, <2>3, <2>4, <2>5, <2>6, <3>2 DEF AttInv, AttachmentStrays
    <3>3. QED
      BY <3>1, <3>2
  <2>8. files'[Thumbnail(a)] # "none" => \/ attachment[a].at = "live" /\ attachment[a].thumb
                                         \/ Thumbnail(a) \in excused' \/ job[a].at = "pending"
    <3>1. CASE Thumbnail(a) \in torn
      BY <1>6, <3>1
    <3>2. CASE Thumbnail(a) \notin torn
      BY <1>1, <2>2, <2>3, <2>5, <2>6, <3>2 DEF AttInv, AttachmentStrays
    <3>3. QED
      BY <3>1, <3>2
  <2>9. QED
    BY <2>7, <2>8
<1>11. QED
  BY <1>7, <1>8, <1>9, <1>10 DEF AttInv

LEMMA CrashImg ==
  ASSUME Sound, ImgInv, WorkerInv, NEW torn \in SUBSET Writing, Crash(torn)
  PROVE  ImgInv'
<1>1. /\ NamedSplit /\ \A c \in Calls : call'[c] = NoCall
      /\ \A k \in Keys : files'[k] = IF k \in torn THEN "torn" ELSE files[k]
  BY CrashMoves, ImageSlots DEF ImgInv
<1>2. /\ slot' = slot /\ drawn' = drawn /\ purge' = {}
      /\ excused' = excused \cup (HeldKeys \ NamedKeys)
  BY DEF Crash, rows
<1>3. \A c \in Calls : call'[c].kind = "none"
  BY <1>1, NoRows
<1>4. ASSUME NEW i \in ImageIds, Image(i) \in torn
      PROVE  Image(i) \in HeldKeys /\ \A s \in Slots : slot[s] # Image(i)
  <2>1. worker.pc = "put" => Image(i) # Thumbnail(worker.a)
    BY KeyFacts DEF WorkerInv
  <2>2. PICK c \in Calls : call[c].pc = "put" /\ call[c].new = Image(i)
    BY <1>4, <2>1, WritingKeys
  <2>3. call[c].kind = "upload_image" /\ call[c].new # None
    BY <2>2, PutKinds
  <2>4. QED
    BY <2>2, <2>3, HeldFacts DEF ImgInv, ImageKeys, Unnamed
<1>5. ImageKeys'
  BY <1>2, <1>3 DEF ImgInv, ImageKeys, ImageKinds
<1>6. ImageFiles'
  <2>1. \A s \in Slots : slot[s] # None => files'[slot[s]] = files[slot[s]]
    <3>1. \A s \in Slots : slot[s] # None => \E i \in ImageIds : slot[s] = Image(i)
      BY DEF ImgInv, ImageKeys, Images
    <3>2. QED
      BY <1>1, <1>4, <3>1, KeyFacts
  <2>2. QED
    BY <1>2, <1>3, <2>1 DEF ImgInv, ImageFiles
<1>7. ImageStrays'
  <2>1. SUFFICES ASSUME NEW i \in ImageIds, files'[Image(i)] # "none"
                 PROVE  (\E s \in Slots : slot[s] = Image(i)) \/ Image(i) \in excused'
    BY <1>2 DEF ImageStrays
  <2>2. Image(i) \in Keys /\ Image(i) # None
    BY KeyFacts
  <2>3. Image(i) \in NamedKeys <=> \E s \in Slots : slot[s] = Image(i)
    BY <1>1 DEF NamedSplit
  <2>4. Holds(Image(i), ImageKinds) => Image(i) \in HeldKeys
    BY <2>2, HoldsHeld
  <2>5. Image(i) \in torn => Image(i) \in HeldKeys
    BY <1>4
  <2>6. QED
    BY <1>1, <1>2, <2>1, <2>2, <2>3, <2>4, <2>5 DEF ImgInv, ImageStrays
<1>8. QED
  BY <1>5, <1>6, <1>7 DEF ImgInv

LEMMA CrashEmo ==
  ASSUME Sound, EmoInv, SlotsHoldImages, WorkerInv, NEW torn \in SUBSET Writing, Crash(torn)
  PROVE  EmoInv'
<1>1. /\ NamedSplit /\ \A c \in Calls : call'[c] = NoCall
      /\ \A k \in Keys : files'[k] = IF k \in torn THEN "torn" ELSE files[k]
  BY CrashMoves
<1>2. /\ emoji' = emoji /\ drawn' = drawn /\ purge' = {}
      /\ excused' = excused \cup (HeldKeys \ NamedKeys)
  BY DEF Crash, rows
<1>3. \A c \in Calls : call'[c].kind = "none"
  BY <1>1, NoRows
<1>4. ASSUME NEW e \in EmojiIds, Emoji(e) \in torn
      PROVE  Emoji(e) \in HeldKeys /\ emoji[e] = NoEmoji
  <2>1. worker.pc = "put" => Emoji(e) # Thumbnail(worker.a)
    BY KeyFacts DEF WorkerInv
  <2>2. PICK c \in Calls : call[c].pc = "put" /\ call[c].new = Emoji(e)
    BY <1>4, <2>1, WritingKeys
  <2>3. call[c].kind = "create_emoji" /\ call[c].arg[1] = e /\ call[c].new # None
    BY <2>2, PutKinds
  <2>4. QED
    BY <2>2, <2>3, HeldFacts DEF EmoInv, EmojiKeys, Unnamed
<1>5. EmojiKeys'
  BY <1>2, <1>3 DEF EmoInv, EmojiKeys
<1>6. EmojiFiles'
  BY <1>1, <1>2, <1>3, <1>4, KeyFacts DEF EmoInv, EmojiFiles
<1>7. EmojiStrays'
  <2>1. SUFFICES ASSUME NEW e \in EmojiIds, files'[Emoji(e)] # "none"
                 PROVE  emoji[e] # NoEmoji \/ Emoji(e) \in excused'
    BY <1>2 DEF EmojiStrays
  <2>2. Emoji(e) \in Keys /\ Emoji(e) # None
    BY KeyFacts
  <2>3. Emoji(e) \in NamedKeys <=> emoji[e] # NoEmoji
    BY <1>1 DEF NamedSplit
  <2>4. Holds(Emoji(e), EmojiKinds) => Emoji(e) \in HeldKeys
    BY <2>2, HoldsHeld
  <2>5. Emoji(e) \in torn => Emoji(e) \in HeldKeys
    BY <1>4
  <2>6. QED
    BY <1>1, <1>2, <2>1, <2>2, <2>3, <2>4, <2>5 DEF EmoInv, EmojiStrays
<1>8. QED
  BY <1>5, <1>6, <1>7 DEF EmoInv

-----------------------------------------------------------------------------
(* Images.                                                                 *)

\* What the calls of other images have.
LEMMA ImageCalls ==
  ASSUME Sound, NEW d \in Calls, call[d].kind \in ImageKinds
  PROVE  /\ call[d].arg \in Slots
         /\ call[d].old # None => call[d].old \in Images
         /\ call[d].kind = "delete_image" \/ call[d].pc \notin Unnamed => call[d].new = None
         /\ call[d].kind = "upload_image" /\ call[d].pc \in Unnamed => call[d].new \in Images
         /\ call[d].pc = "delete_old" => call[d].old # None
         /\ call[d].pc \in Unnamed \cup {"delete_old"}
<1>1. Carries(d) /\ None \notin Images
  BY KeyFacts DEF Sound
<1>2. CASE call[d].kind = "delete_image"
  <2>1. /\ call[d].pc \in {"row", "delete_old"} /\ call[d].arg \in Slots
        /\ call[d].new = None /\ call[d].old \in Images
    BY <1>1, <1>2 DEF Carries
  <2>2. QED
    BY <1>1, <1>2, <2>1 DEF Unnamed
<1>3. CASE call[d].kind = "upload_image"
  <2>1. /\ call[d].pc \in Unnamed \cup {"delete_old"} /\ call[d].arg \in Slots
        /\ call[d].pc \in Unnamed => call[d].new \in Images /\ call[d].old \in Images \cup {None}
        /\ call[d].pc = "delete_old" => call[d].new = None /\ call[d].old \in Images
    BY <1>1, <1>3 DEF Carries
  <2>2. QED
    BY <1>1, <1>3, <2>1 DEF Unnamed
<1>4. QED
  BY <1>2, <1>3 DEF ImageKinds

LEMMA UploadImageImg ==
  ASSUME Sound, ImgInv, NEW c \in Calls, NEW s \in Slots, NEW i \in ImageIds, UploadImage(c, s, i)
  PROVE  ImgInv'
<1>1. /\ Moves(c) /\ call[c].kind = "none" /\ call'[c].kind = "upload_image"
      /\ call'[c].pc = "put" /\ call'[c].new = Image(i) /\ call'[c].old = slot[s]
      /\ call'[c].arg = s /\ Image(i) \notin drawn
  BY UploadImageMoves DEF ImgInv
<1>2. /\ slot' = slot /\ files' = files /\ purge' = purge /\ excused' = excused
      /\ drawn' = drawn \cup {Image(i)}
  BY DEF UploadImage, rows
<1>3. \A d \in Calls : d # c => call'[d] = call[d]
  BY <1>1 DEF Moves
<1>4. Image(i) # None /\ None \notin Images
  BY KeyFacts
<1>5. \A t \in Slots : slot[t] # Image(i) /\ (slot[t] # None => slot[t] \in drawn)
  BY <1>1, <1>4 DEF ImgInv, ImageKeys
<1>6. ASSUME NEW d \in Calls, call[d].kind \in ImageKinds
      PROVE  /\ call[d].old # Image(i) /\ call[d].new # Image(i)
             /\ call[d].new = None \/ (call[d].kind = "upload_image" /\ call[d].pc \in Unnamed)
  <2>1. call[d].new = None \/ (call[d].kind = "upload_image" /\ call[d].pc \in Unnamed)
    <3>1. call[d].kind = "delete_image" \/ call[d].pc \notin Unnamed => call[d].new = None
      BY <1>6, ImageCalls
    <3>2. QED
      BY <1>6, <3>1 DEF ImageKinds
  <2>2. call[d].old # None => call[d].old \in drawn
    BY <1>6 DEF ImgInv, ImageKeys
  <2>3. call[d].new # None => call[d].new \in drawn
    BY <2>1 DEF ImgInv, ImageKeys
  <2>4. QED
    BY <1>1, <1>4, <2>1, <2>2, <2>3
<1>7. ImageKeys'
  <2>1. \A d \in Calls : call'[d].kind = "upload_image" /\ call'[d].pc \in Unnamed =>
          /\ call'[d].new \in drawn' /\ \A t \in Slots : slot'[t] # call'[d].new
          /\ \A f \in Calls : call'[f].kind \in ImageKinds =>
               /\ call'[f].old # call'[d].new
               /\ f # d => call'[f].new # call'[d].new
    <3>1. SUFFICES ASSUME NEW d \in Calls, call'[d].kind = "upload_image", call'[d].pc \in Unnamed
                   PROVE  /\ call'[d].new \in drawn' /\ \A t \in Slots : slot'[t] # call'[d].new
                          /\ \A f \in Calls : call'[f].kind \in ImageKinds =>
                               /\ call'[f].old # call'[d].new
                               /\ f # d => call'[f].new # call'[d].new
      OBVIOUS
    <3>2. CASE d = c
      BY <1>1, <1>2, <1>3, <1>5, <1>6, <3>2
    <3>3. CASE d # c
      BY <1>1, <1>2, <1>3, <1>6, <3>1, <3>3 DEF ImgInv, ImageKeys, ImageKinds
    <3>4. QED
      BY <3>2, <3>3
  <2>2. \A d \in Calls : call'[d].kind \in ImageKinds /\ call'[d].old # None =>
          /\ call'[d].old \in drawn'
          /\ \A t \in Slots : t # call'[d].arg => slot'[t] # call'[d].old
          /\ call'[d].pc = "delete_old" => slot'[call'[d].arg] # call'[d].old
    BY <1>1, <1>2, <1>3, <1>5 DEF ImgInv, ImageKeys
  <2>3. QED
    BY <1>2, <2>1, <2>2 DEF ImgInv, ImageKeys
<1>8. ImageFiles'
  BY <1>1, <1>2, <1>3 DEF ImgInv, ImageFiles
<1>9. ImageStrays'
  <2>1. \A j \in ImageIds : Holds(Image(j), ImageKinds) => Holds(Image(j), ImageKinds)'
    BY <1>1, OthersHold DEF ImageKinds
  <2>2. QED
    BY <1>2, <2>1 DEF ImgInv, ImageStrays
<1>10. QED
  BY <1>7, <1>8, <1>9 DEF ImgInv

LEMMA DeleteImageImg ==
  ASSUME Sound, ImgInv, NEW c \in Calls, NEW s \in Slots, DeleteImage(c, s)
  PROVE  ImgInv'
<1>1. /\ Moves(c) /\ call[c].kind = "none" /\ call'[c].kind = "delete_image"
      /\ call'[c].pc = "row" /\ call'[c].new = None /\ call'[c].old = slot[s]
      /\ call'[c].arg = s
  BY DeleteImageMoves DEF ImgInv
<1>2. /\ slot' = slot /\ files' = files /\ purge' = purge /\ excused' = excused
      /\ drawn' = drawn /\ slot[s] # None
  BY DEF DeleteImage, rows
<1>3. \A d \in Calls : d # c => call'[d] = call[d]
  BY <1>1 DEF Moves
<1>4. \A d \in Calls : call[d].kind = "upload_image" /\ call[d].pc \in Unnamed => call[d].new # None
  BY ImageCalls, KeyFacts DEF ImageKinds
<1>5. ImageKeys'
  BY <1>1, <1>2, <1>3, <1>4 DEF ImgInv, ImageKeys
<1>6. ImageFiles'
  BY <1>1, <1>2, <1>3 DEF ImgInv, ImageFiles
<1>7. ImageStrays'
  <2>1. \A j \in ImageIds : Holds(Image(j), ImageKinds) => Holds(Image(j), ImageKinds)'
    BY <1>1, OthersHold DEF ImageKinds
  <2>2. QED
    BY <1>2, <2>1 DEF ImgInv, ImageStrays
<1>8. QED
  BY <1>5, <1>6, <1>7 DEF ImgInv

LEMMA PutNewImg ==
  ASSUME Sound, ImgInv, NEW c \in Calls, NEW result \in {"whole", "torn", "none"}, PutNew(c, result),
         call[c].kind = "upload_image"
  PROVE  ImgInv'
<1>1. /\ Moves(c) /\ call[c].pc = "put" /\ call[c].new \in Keys
      /\ files'[call[c].new] = result
      /\ \A k \in Keys : k # call[c].new => files'[k] = files[k]
      /\ result = "whole" =>
           /\ call'[c].pc = "row" /\ call'[c].kind = call[c].kind /\ call'[c].new = call[c].new
           /\ call'[c].old = call[c].old /\ call'[c].arg = call[c].arg
      /\ result # "whole" => call'[c] = NoCall
      /\ excused \subseteq excused' /\ (result = "torn" => call[c].new \in excused')
  BY PutNewMoves
<1>2. slot' = slot /\ purge' = purge /\ drawn' = drawn
  BY DEF PutNew, rows
<1>3. PICK i \in ImageIds : call[c].new = Image(i)
  BY <1>1, ImageCalls DEF Images, Unnamed, ImageKinds
<1>4. \A d \in Calls : d # c => call'[d] = call[d]
  BY <1>1 DEF Moves
<1>5. call'[c].kind \in ImageKinds => result = "whole"
  BY <1>1, NoRows DEF ImageKinds
<1>6. ImageKeys'
  BY <1>1, <1>2, <1>4, <1>5 DEF ImgInv, ImageKeys, Unnamed, ImageKinds
<1>7. ImageFiles'
  <2>1. \A s \in Slots : slot[s] # None => files'[slot[s]] = files[slot[s]]
    BY <1>1 DEF ImgInv, ImageKeys, Unnamed, Sound, TypeOK
  <2>2. \A d \in Calls : d # c /\ call[d].kind = "upload_image" /\ call[d].pc = "row" =>
          files'[call[d].new] = files[call[d].new]
    BY <1>1, ImageCalls, KeyFacts DEF ImgInv, ImageKeys, Unnamed, ImageKinds
  <2>3. QED
    BY <1>1, <1>2, <1>4, <1>5, <2>1, <2>2 DEF ImgInv, ImageFiles, ImageKinds
<1>8. ImageStrays'
  <2>1. \A j \in ImageIds : j # i /\ Holds(Image(j), ImageKinds) => Holds(Image(j), ImageKinds)'
    BY <1>1, <1>3, OthersHold, KeyFacts DEF Unnamed
  <2>2. result = "whole" => Holds(Image(i), ImageKinds)'
    BY <1>1, <1>3 DEF Holds, Unnamed, ImageKinds
  <2>3. \A j \in ImageIds : j # i => files'[Image(j)] = files[Image(j)]
    BY <1>1, <1>3, KeyFacts
  <2>4. result # "whole" => files'[Image(i)] = "none" \/ Image(i) \in excused'
    BY <1>1, <1>3
  <2>5. QED
    BY <1>1, <1>2, <2>1, <2>2, <2>3, <2>4 DEF ImgInv, ImageStrays
<1>9. QED
  BY <1>6, <1>7, <1>8 DEF ImgInv

\* The file of call c goes; nobody else names or holds its key.
LEMMA ImageGoes ==
  ASSUME Sound, ImgInv, NEW c \in Calls, NEW ok \in BOOLEAN, NEW k \in Images, Delete(k, ok),
         Moves(c), call'[c] = NoCall, slot' = slot, purge' = purge, drawn' = drawn,
         \A s \in Slots : slot[s] # k,
         \A d \in Calls : d # c /\ call[d].kind = "upload_image" /\ call[d].pc = "row" => call[d].new # k,
         \A j \in Images : j # k =>
           ~(\/ call[c].pc \in Unnamed /\ call[c].new = j
             \/ call[c].pc = "delete_old" /\ call[c].old = j)
  PROVE  ImgInv'
<1>1. /\ excused \subseteq excused' /\ (k \in excused' \/ files'[k] = "none")
      /\ \A j \in Keys : j # k => files'[j] = files[j]
  BY DeleteTyped, KeyFacts DEF Sound
<1>2. (\A d \in Calls : d # c => call'[d] = call[d]) /\ call'[c].kind \notin ImageKinds
  BY NoRows DEF Moves, ImageKinds
<1>3. ImageKeys'
  BY <1>2 DEF ImgInv, ImageKeys, ImageKinds
<1>4. ImageFiles'
  <2>1. \A s \in Slots : slot[s] # None => files'[slot[s]] = files[slot[s]]
    BY <1>1 DEF Sound, TypeOK
  <2>2. \A d \in Calls : d # c /\ call[d].kind = "upload_image" /\ call[d].pc = "row" =>
          files'[call[d].new] = files[call[d].new]
    BY <1>1, ImageCalls, KeyFacts DEF Unnamed, ImageKinds
  <2>3. QED
    BY <1>2, <2>1, <2>2 DEF ImgInv, ImageFiles, ImageKinds
<1>5. ImageStrays'
  <2>1. SUFFICES ASSUME NEW i \in ImageIds, files'[Image(i)] # "none"
                 PROVE  \/ \E s \in Slots : slot[s] = Image(i)
                        \/ Image(i) \in excused' \/ Holds(Image(i), ImageKinds)'
    BY DEF ImageStrays
  <2>2. CASE Image(i) = k
    BY <1>1, <2>1, <2>2
  <2>3. CASE Image(i) # k
    <3>1. Image(i) \in Images /\ Image(i) \in Keys
      BY KeyFacts DEF Images
    <3>2. Holds(Image(i), ImageKinds) => Holds(Image(i), ImageKinds)'
      BY <2>3, <3>1, OthersHold
    <3>3. QED
      BY <1>1, <2>1, <2>3, <3>1, <3>2 DEF ImgInv, ImageStrays
  <2>4. QED
    BY <2>2, <2>3
<1>6. QED
  BY <1>3, <1>4, <1>5 DEF ImgInv

LEMMA CleanupImg ==
  ASSUME Sound, ImgInv, NEW c \in Calls, NEW ok \in BOOLEAN, Cleanup(c, ok),
         call[c].kind = "upload_image"
  PROVE  ImgInv'
<1>1. Moves(c) /\ call[c].pc = "cleanup" /\ call'[c] = NoCall /\ Delete(call[c].new, ok)
  BY CleanupMoves
<1>2. slot' = slot /\ purge' = purge /\ drawn' = drawn
  BY DEF Cleanup, rows
<1>3. PICK k \in Images : k = call[c].new
  BY <1>1, ImageCalls DEF Unnamed, ImageKinds
<1>4. /\ \A s \in Slots : slot[s] # k
      /\ \A d \in Calls : d # c /\ call[d].kind = "upload_image" /\ call[d].pc = "row" => call[d].new # k
  BY <1>1, <1>3 DEF ImgInv, ImageKeys, Unnamed, ImageKinds
<1>5. \A j \in Images : j # k => ~(\/ call[c].pc \in Unnamed /\ call[c].new = j
                                   \/ call[c].pc = "delete_old" /\ call[c].old = j)
  BY <1>1, <1>3
<1>6. Delete(k, ok)
  BY <1>1, <1>3
<1>7. QED
  BY <1>1, <1>2, <1>4, <1>5, <1>6, ImageGoes

LEMMA DeleteOldImg ==
  ASSUME Sound, ImgInv, NEW c \in Calls, NEW ok \in BOOLEAN, DeleteOld(c, ok),
         call[c].kind \in ImageKinds
  PROVE  ImgInv'
<1>1. Moves(c) /\ call[c].pc = "delete_old" /\ call'[c] = NoCall /\ Delete(call[c].old, ok)
  BY DeleteOldMoves DEF ImageKinds
<1>2. slot' = slot /\ purge' = purge /\ drawn' = drawn
  BY DEF DeleteOld, rows
<1>3. call[c].old \in Images /\ call[c].arg \in Slots /\ call[c].old # None
  BY <1>1, ImageCalls, KeyFacts
<1>4. PICK k \in Images : k = call[c].old
  BY <1>3
<1>5. /\ \A s \in Slots : slot[s] # k
      /\ \A d \in Calls : d # c /\ call[d].kind = "upload_image" /\ call[d].pc = "row" => call[d].new # k
  BY <1>1, <1>3, <1>4 DEF ImgInv, ImageKeys, Unnamed, ImageKinds
<1>6. \A j \in Images : j # k => ~(\/ call[c].pc \in Unnamed /\ call[c].new = j
                                   \/ call[c].pc = "delete_old" /\ call[c].old = j)
  BY <1>1, <1>4 DEF Unnamed
<1>7. Delete(k, ok)
  BY <1>1, <1>4
<1>8. QED
  BY <1>1, <1>2, <1>5, <1>6, <1>7, ImageGoes

LEMMA WriteKeyImg ==
  ASSUME Sound, ImgInv, NEW c \in Calls, WriteKey(c)
  PROVE  ImgInv'
<1>1. /\ Moves(c) /\ call[c].kind \in ImageKinds /\ call[c].pc = "row" /\ call[c].arg \in Slots
  BY WriteKeyMoves
<1>2. files' = files /\ purge' = purge /\ drawn' = drawn
  BY DEF WriteKey, WriteUserKey, WriteServerKey
<1>3. \A d \in Calls : d # c => call'[d] = call[d]
  BY <1>1 DEF Moves
<1>4. CASE /\ slot' = slot /\ excused' = excused
           /\ call[c].kind = "upload_image" =>
                /\ call'[c].kind = "upload_image" /\ call'[c].pc = "cleanup"
                /\ call'[c].new = call[c].new /\ call'[c].old = call[c].old
                /\ call'[c].arg = call[c].arg
           /\ call[c].kind = "delete_image" => call'[c] = NoCall
  <2>1. call'[c].kind \in ImageKinds =>
          /\ call[c].kind = "upload_image" /\ call'[c].kind = "upload_image" /\ call'[c].pc = "cleanup"
          /\ call'[c].new = call[c].new /\ call'[c].old = call[c].old /\ call'[c].arg = call[c].arg
    BY <1>1, <1>4, NoRows DEF ImageKinds
  <2>2. ImageKeys'
    BY <1>1, <1>2, <1>3, <1>4, <2>1 DEF ImgInv, ImageKeys, Unnamed, ImageKinds
  <2>3. ImageFiles'
    BY <1>2, <1>3, <1>4, <2>1 DEF ImgInv, ImageFiles, ImageKinds
  <2>4. ImageStrays'
    <3>1. ASSUME NEW i \in ImageIds, Holds(Image(i), ImageKinds) PROVE Holds(Image(i), ImageKinds)'
      <4>1. CASE call[c].kind = "upload_image" /\ call[c].new = Image(i)
        BY <1>4, <4>1 DEF Holds, Unnamed, ImageKinds
      <4>2. CASE ~(call[c].kind = "upload_image" /\ call[c].new = Image(i))
        <5>1. Image(i) # None
          BY KeyFacts
        <5>2. call[c].new # Image(i)
          BY <1>1, <4>2, <5>1, ImageCalls DEF ImageKinds
        <5>3. QED
          BY <1>1, <3>1, <5>2, OthersHold
      <4>3. QED
        BY <4>1, <4>2
    <3>2. QED
      BY <1>2, <1>4, <3>1 DEF ImgInv, ImageStrays
  <2>5. QED
    BY <2>2, <2>3, <2>4 DEF ImgInv
<1>5. CASE /\ slot'[call[c].arg] = call[c].new
           /\ \A t \in Slots : t # call[c].arg => slot'[t] = slot[t]
           /\ excused' = excused \cup ({slot[call[c].arg]} \ {call[c].old, None})
           /\ call[c].old = None => call'[c] = NoCall
           /\ call[c].old # None =>
                /\ call'[c].kind = call[c].kind /\ call'[c].pc = "delete_old"
                /\ call'[c].new = None /\ call'[c].old = call[c].old
                /\ call'[c].arg = call[c].arg
  <2>1. /\ call[c].new # None => call[c].kind = "upload_image" /\ call[c].new \in Images
        /\ call[c].old # None => call[c].old \in Images
    BY <1>1, ImageCalls DEF ImageKinds, Unnamed
  <2>2. call[c].new # None =>
          /\ call[c].new \in drawn /\ \A s \in Slots : slot[s] # call[c].new
          /\ files[call[c].new] = "whole"
          /\ \A d \in Calls : call[d].kind \in ImageKinds =>
               /\ call[d].old # call[c].new
               /\ d # c => call[d].new # call[c].new
    BY <1>1, <2>1 DEF ImgInv, ImageKeys, ImageFiles, Unnamed
  <2>3. call'[c].kind \in ImageKinds =>
          /\ call[c].old # None
          /\ call'[c].kind = call[c].kind /\ call'[c].pc = "delete_old"
          /\ call'[c].new = None /\ call'[c].old = call[c].old /\ call'[c].arg = call[c].arg
    BY <1>5, NoRows DEF ImageKinds
  <2>4. ImageKeys'
    <3>1. /\ \A s \in Slots : slot'[s] # None => slot'[s] \in Images /\ slot'[s] \in drawn
          /\ \A s, t \in Slots : slot'[s] # None /\ slot'[s] = slot'[t] => s = t
      BY <1>1, <1>5, <2>1, <2>2 DEF ImgInv, ImageKeys
    <3>2. \A d \in Calls : call'[d].kind = "upload_image" /\ call'[d].pc \in Unnamed =>
            d # c /\ call'[d] = call[d] /\ call[d].new # None /\ call[d].new # call[c].new
      BY <1>1, <1>3, <2>3, ImageCalls, KeyFacts DEF ImgInv, ImageKeys, Unnamed, ImageKinds
    <3>3. \A d \in Calls : call'[d].kind = "upload_image" /\ call'[d].pc \in Unnamed =>
            /\ call'[d].new \in drawn' /\ \A s \in Slots : slot'[s] # call'[d].new
            /\ \A f \in Calls : call'[f].kind \in ImageKinds =>
                 /\ call'[f].old # call'[d].new
                 /\ f # d => call'[f].new # call'[d].new
      BY <1>1, <1>2, <1>3, <1>5, <2>3, <3>2 DEF ImgInv, ImageKeys
    <3>4. \A d \in Calls : call'[d].kind \in ImageKinds /\ call'[d].old # None =>
            /\ call[d].kind \in ImageKinds /\ call'[d].old = call[d].old
            /\ call'[d].arg = call[d].arg /\ call[d].old # call[c].new /\ call[d].arg \in Slots
            /\ d # c => call'[d].pc = call[d].pc
      BY <1>1, <1>3, <2>2, <2>3, ImageCalls
    <3>5. \A d \in Calls : call'[d].kind \in ImageKinds /\ call'[d].old # None =>
            /\ call'[d].old \in drawn'
            /\ \A s \in Slots : s # call'[d].arg => slot'[s] # call'[d].old
            /\ call'[d].pc = "delete_old" => slot'[call'[d].arg] # call'[d].old
      BY <1>1, <1>2, <1>5, <3>4 DEF ImgInv, ImageKeys
    <3>6. QED
      BY <1>2, <3>1, <3>3, <3>5 DEF ImgInv, ImageKeys
  <2>5. ImageFiles'
    <3>1. \A s \in Slots : slot'[s] # None => files'[slot'[s]] = "whole"
      BY <1>1, <1>2, <1>5, <2>2 DEF ImgInv, ImageFiles
    <3>2. \A d \in Calls : call'[d].kind = "upload_image" /\ call'[d].pc = "row" => call'[d] = call[d]
      BY <1>3, <2>3 DEF ImageKinds
    <3>3. QED
      BY <1>2, <3>1, <3>2 DEF ImgInv, ImageFiles
  <2>6. ImageStrays'
    <3>1. SUFFICES ASSUME NEW i \in ImageIds, files[Image(i)] # "none"
                   PROVE  \/ \E s \in Slots : slot'[s] = Image(i)
                          \/ Image(i) \in excused' \/ Holds(Image(i), ImageKinds)'
      BY <1>2 DEF ImageStrays
    <3>2. Image(i) # None
      BY KeyFacts
    <3>3. ASSUME NEW s \in Slots, slot[s] = Image(i)
          PROVE  \/ \E t \in Slots : slot'[t] = Image(i)
                 \/ Image(i) \in excused' \/ Holds(Image(i), ImageKinds)'
      <4>1. CASE s # call[c].arg
        BY <1>5, <3>3, <4>1
      <4>2. CASE s = call[c].arg /\ slot[s] = call[c].old
        BY <1>1, <1>5, <3>2, <3>3, <4>2 DEF Holds
      <4>3. CASE s = call[c].arg /\ slot[s] # call[c].old
        BY <1>5, <3>2, <3>3, <4>3
      <4>4. QED
        BY <4>1, <4>2, <4>3
    <3>4. ASSUME Holds(Image(i), ImageKinds)
          PROVE  \/ \E t \in Slots : slot'[t] = Image(i)
                 \/ Holds(Image(i), ImageKinds)'
      <4>1. CASE call[c].new = Image(i)
        BY <1>1, <1>5, <4>1
      <4>2. CASE call[c].new # Image(i)
        BY <1>1, <3>4, <4>2, OthersHold
      <4>3. QED
        BY <4>1, <4>2
    <3>5. excused \subseteq excused'
      BY <1>5
    <3>6. QED
      BY <3>1, <3>3, <3>4, <3>5 DEF ImgInv, ImageStrays
  <2>7. QED
    BY <2>4, <2>5, <2>6 DEF ImgInv
<1>6. QED
  BY <1>4, <1>5, WriteKeyMoves

-----------------------------------------------------------------------------
(* Custom emoji.                                                           *)

LEMMA EmojiCalls ==
  ASSUME Sound, NEW d \in Calls
  PROVE  /\ call[d].kind = "create_emoji" => call[d].arg[1] \in EmojiIds
         /\ call[d].kind = "create_emoji" /\ call[d].pc \in Unnamed => call[d].new = Emoji(call[d].arg[1])
         /\ call[d].kind = "delete_emoji" =>
              call[d].arg \in EmojiIds /\ call[d].old = Emoji(call[d].arg) /\ call[d].new = None
<1>1. Carries(d)
  BY DEF Sound
<1>2. QED
  BY <1>1 DEF Carries

LEMMA CreateEmojiEmo ==
  ASSUME Sound, EmoInv, NEW c \in Calls, NEW u \in Users, NEW name \in Names, NEW e \in EmojiIds,
         CreateEmoji(c, u, name, e)
  PROVE  EmoInv'
<1>1. /\ Moves(c) /\ call[c].kind = "none" /\ call'[c].kind = "create_emoji"
      /\ call'[c].pc = "put" /\ call'[c].new = Emoji(e) /\ call'[c].arg[1] = e
      /\ Emoji(e) \notin drawn
  BY CreateEmojiMoves
<1>2. /\ emoji' = emoji /\ files' = files /\ purge' = purge /\ excused' = excused
      /\ drawn' = drawn \cup {Emoji(e)}
  BY DEF CreateEmoji, rows
<1>3. \A d \in Calls : d # c => call'[d] = call[d]
  BY <1>1 DEF Moves
<1>4. EmojiKeys'
  BY <1>1, <1>2, <1>3 DEF EmoInv, EmojiKeys
<1>5. EmojiFiles'
  BY <1>1, <1>2, <1>3 DEF EmoInv, EmojiFiles
<1>6. EmojiStrays'
  <2>1. \A f \in EmojiIds : Holds(Emoji(f), EmojiKinds) => Holds(Emoji(f), EmojiKinds)'
    BY <1>1, OthersHold DEF EmojiKinds
  <2>2. QED
    BY <1>2, <2>1 DEF EmoInv, EmojiStrays
<1>7. QED
  BY <1>4, <1>5, <1>6 DEF EmoInv

LEMMA DeleteEmojiEmo ==
  ASSUME Sound, EmoInv, NEW c \in Calls, NEW e \in EmojiIds, DeleteEmoji(c, e)
  PROVE  EmoInv'
<1>1. /\ Moves(c) /\ call[c].kind = "none" /\ call'[c].kind = "delete_emoji"
      /\ call'[c].pc = "row" /\ call'[c].arg = e /\ emoji[e] # NoEmoji
  BY DeleteEmojiMoves
<1>2. /\ emoji' = emoji /\ files' = files /\ purge' = purge /\ excused' = excused
      /\ drawn' = drawn
  BY DEF DeleteEmoji, rows
<1>3. \A d \in Calls : d # c => call'[d] = call[d]
  BY <1>1 DEF Moves
<1>4. EmojiKeys'
  BY <1>1, <1>2, <1>3 DEF EmoInv, EmojiKeys
<1>5. EmojiFiles'
  BY <1>1, <1>2, <1>3 DEF EmoInv, EmojiFiles
<1>6. EmojiStrays'
  <2>1. \A f \in EmojiIds : Holds(Emoji(f), EmojiKinds) => Holds(Emoji(f), EmojiKinds)'
    BY <1>1, OthersHold DEF EmojiKinds
  <2>2. QED
    BY <1>2, <2>1 DEF EmoInv, EmojiStrays
<1>7. QED
  BY <1>4, <1>5, <1>6 DEF EmoInv

LEMMA UpdateNameEmo ==
  ASSUME Sound, EmoInv, NEW c \in Calls, NEW e \in EmojiIds, NEW name \in Names, UpdateName(c, e, name)
  PROVE  EmoInv'
<1>1. /\ Moves(c) /\ call[c].kind = "none" /\ call'[c].kind = "update_emoji"
      /\ call'[c].pc = "list" /\ emoji[e] # NoEmoji /\ emoji'[e] # NoEmoji
      /\ \A f \in EmojiIds : f # e => emoji'[f] = emoji[f]
  BY UpdateNameMoves
<1>2. files' = files /\ purge' = purge /\ excused' = excused /\ drawn' = drawn
  BY DEF UpdateName
<1>3. \A d \in Calls : d # c => call'[d] = call[d]
  BY <1>1 DEF Moves
<1>4. \A f \in EmojiIds : /\ emoji[f] = NoEmoji => emoji'[f] = NoEmoji
                          /\ emoji[f] # NoEmoji => emoji'[f] # NoEmoji
  BY <1>1
<1>5. EmojiKeys'
  <2>1. \A d \in Calls : /\ call[d].kind = "create_emoji" => call[d].arg[1] \in EmojiIds
                         /\ call[d].kind = "delete_emoji" => call[d].arg \in EmojiIds
    BY EmojiCalls
  <2>2. QED
    BY <1>1, <1>2, <1>3, <1>4, <2>1 DEF EmoInv, EmojiKeys
<1>6. EmojiFiles'
  BY <1>1, <1>2, <1>3, <1>4 DEF EmoInv, EmojiFiles
<1>7. EmojiStrays'
  <2>1. \A f \in EmojiIds : Holds(Emoji(f), EmojiKinds) => Holds(Emoji(f), EmojiKinds)'
    BY <1>1, OthersHold DEF EmojiKinds
  <2>2. QED
    BY <1>2, <1>4, <2>1 DEF EmoInv, EmojiStrays
<1>8. QED
  BY <1>5, <1>6, <1>7 DEF EmoInv

LEMMA StoreEmojiEmo ==
  ASSUME Sound, EmoInv, NEW c \in Calls, StoreEmoji(c)
  PROVE  EmoInv'
<1>1. /\ Moves(c) /\ call[c].kind = "create_emoji" /\ call[c].pc = "row"
      /\ call[c].arg[1] \in EmojiIds
      /\ call'[c].kind = "create_emoji" /\ call'[c].arg = call[c].arg
      /\ \/ emoji' = emoji /\ call'[c].pc = "cleanup" /\ call'[c].new = call[c].new
         \/ /\ emoji'[call[c].arg[1]] # NoEmoji /\ call'[c].pc = "list"
            /\ \A f \in EmojiIds : f # call[c].arg[1] => emoji'[f] = emoji[f]
  BY StoreEmojiMoves
<1>2. files' = files /\ purge' = purge /\ excused' = excused /\ drawn' = drawn
  BY DEF StoreEmoji
<1>3. \A d \in Calls : d # c => call'[d] = call[d]
  BY <1>1 DEF Moves
<1>4. PICK e \in EmojiIds : e = call[c].arg[1] /\ call[c].new = Emoji(e)
  BY <1>1, EmojiCalls DEF Unnamed
<1>5. /\ Emoji(e) \in drawn /\ emoji[e] = NoEmoji /\ files[Emoji(e)] = "whole"
      /\ \A d \in Calls : d # c /\ call[d].kind = "create_emoji" /\ call[d].pc \in Unnamed => call[d].arg[1] # e
      /\ \A d \in Calls : call[d].kind = "delete_emoji" => call[d].arg # e
  BY <1>1, <1>4 DEF EmoInv, EmojiKeys, EmojiFiles, Unnamed
<1>6. \A d \in Calls : /\ call[d].kind = "create_emoji" => call[d].arg[1] \in EmojiIds
                       /\ call[d].kind = "delete_emoji" => call[d].arg \in EmojiIds
  BY EmojiCalls
<1>7. \A f \in EmojiIds : f # e /\ Holds(Emoji(f), EmojiKinds) => Holds(Emoji(f), EmojiKinds)'
  BY <1>1, <1>4, OthersHold, KeyFacts
<1>8. CASE emoji' = emoji /\ call'[c].pc = "cleanup" /\ call'[c].new = call[c].new
  <2>1. EmojiKeys'
    BY <1>1, <1>2, <1>3, <1>8 DEF EmoInv, EmojiKeys, Unnamed
  <2>2. EmojiFiles'
    BY <1>1, <1>2, <1>3, <1>8 DEF EmoInv, EmojiFiles
  <2>3. Holds(Emoji(e), EmojiKinds)'
    BY <1>1, <1>4, <1>8 DEF Holds, Unnamed, EmojiKinds
  <2>4. EmojiStrays'
    BY <1>2, <1>7, <1>8, <2>3 DEF EmoInv, EmojiStrays
  <2>5. QED
    BY <2>1, <2>2, <2>4 DEF EmoInv
<1>9. CASE /\ emoji'[e] # NoEmoji /\ call'[c].pc = "list"
           /\ \A f \in EmojiIds : f # e => emoji'[f] = emoji[f]
  <2>1. EmojiKeys'
    BY <1>1, <1>2, <1>3, <1>5, <1>6, <1>9 DEF EmoInv, EmojiKeys, Unnamed
  <2>2. EmojiFiles'
    BY <1>1, <1>2, <1>3, <1>5, <1>9 DEF EmoInv, EmojiFiles
  <2>3. EmojiStrays'
    BY <1>2, <1>7, <1>9 DEF EmoInv, EmojiStrays
  <2>4. QED
    BY <2>1, <2>2, <2>3 DEF EmoInv
<1>10. QED
  BY <1>1, <1>4, <1>8, <1>9

LEMMA RemoveEmojiEmo ==
  ASSUME Sound, EmoInv, NEW c \in Calls, RemoveEmoji(c)
  PROVE  EmoInv'
<1>1. /\ Moves(c) /\ call[c].kind = "delete_emoji" /\ call[c].pc = "row"
      /\ call[c].arg \in EmojiIds /\ emoji'[call[c].arg] = NoEmoji
      /\ \A f \in EmojiIds : f # call[c].arg => emoji'[f] = emoji[f]
      /\ emoji[call[c].arg] = NoEmoji => call'[c] = NoCall
      /\ emoji[call[c].arg] # NoEmoji =>
           /\ call'[c].kind = "delete_emoji" /\ call'[c].pc = "delete_old"
           /\ call'[c].arg = call[c].arg /\ call'[c].old = call[c].old
  BY RemoveEmojiMoves
<1>2. files' = files /\ purge' = purge /\ excused' = excused /\ drawn' = drawn
  BY DEF RemoveEmoji
<1>3. \A d \in Calls : d # c => call'[d] = call[d]
  BY <1>1 DEF Moves
<1>4. PICK e \in EmojiIds : e = call[c].arg /\ call[c].old = Emoji(e) /\ call[c].new = None
  BY <1>1, EmojiCalls
<1>5. \A d \in Calls : /\ call[d].kind = "create_emoji" => call[d].arg[1] \in EmojiIds
                       /\ call[d].kind = "delete_emoji" => call[d].arg \in EmojiIds
  BY EmojiCalls
<1>6. \A f \in EmojiIds : Holds(Emoji(f), EmojiKinds) => Holds(Emoji(f), EmojiKinds)'
  BY <1>1, <1>4, OthersHold, KeyFacts
<1>7. call'[c].kind \in EmojiKinds =>
        /\ emoji[e] # NoEmoji /\ call'[c].kind = "delete_emoji" /\ call'[c].pc = "delete_old"
        /\ call'[c].arg = e /\ call'[c].old = Emoji(e)
  BY <1>1, <1>4, NoRows DEF EmojiKinds
<1>8. \A f \in EmojiIds : /\ emoji[f] = NoEmoji => emoji'[f] = NoEmoji
                          /\ emoji'[f] # NoEmoji => emoji[f] # NoEmoji
  BY <1>1
<1>9. EmojiKeys'
  BY <1>1, <1>2, <1>3, <1>4, <1>5, <1>7, <1>8 DEF EmoInv, EmojiKeys, EmojiKinds
<1>10. EmojiFiles'
  BY <1>2, <1>3, <1>7, <1>8 DEF EmoInv, EmojiFiles, EmojiKinds
<1>11. EmojiStrays'
  <2>1. emoji[e] # NoEmoji => Holds(Emoji(e), EmojiKinds)'
    BY <1>1, <1>4 DEF Holds, EmojiKinds
  <2>2. QED
    BY <1>1, <1>2, <1>4, <1>6, <2>1 DEF EmoInv, EmojiStrays
<1>12. QED
  BY <1>9, <1>10, <1>11 DEF EmoInv

\* The announcement of the list touches no key.
LEMMA AnnounceEmo ==
  ASSUME Sound, EmoInv, NEW c \in Calls,
         (\E ok \in BOOLEAN : PublishEmojiUpdate(c, ok)) \/ EnqueueEmojiList(c)
  PROVE  EmoInv'
<1>1. /\ Moves(c) /\ call[c].kind \in EmojiKinds /\ call[c].pc \in {"list", "tell"}
      /\ \/ call'[c] = NoCall
         \/ call'[c].kind = call[c].kind /\ call'[c].pc = "tell" /\ call'[c].arg = call[c].arg
  BY PublishMoves, TellMoves
<1>2. /\ emoji' = emoji /\ files' = files /\ purge' = purge /\ excused' = excused
      /\ drawn' = drawn
  BY DEF PublishEmojiUpdate, EnqueueEmojiList, rows
<1>3. \A d \in Calls : d # c => call'[d] = call[d]
  BY <1>1 DEF Moves
<1>4. call'[c].kind \in EmojiKinds =>
        call'[c].kind = call[c].kind /\ call'[c].pc = "tell" /\ call'[c].arg = call[c].arg
  BY <1>1, NoRows DEF EmojiKinds
<1>5. EmojiKeys'
  BY <1>1, <1>2, <1>3, <1>4 DEF EmoInv, EmojiKeys, EmojiKinds, Unnamed
<1>6. EmojiFiles'
  BY <1>1, <1>2, <1>3, <1>4 DEF EmoInv, EmojiFiles, EmojiKinds
<1>7. EmojiStrays'
  <2>1. \A f \in EmojiIds : Holds(Emoji(f), EmojiKinds) => Holds(Emoji(f), EmojiKinds)'
    BY <1>1, OthersHold DEF Unnamed
  <2>2. QED
    BY <1>2, <2>1 DEF EmoInv, EmojiStrays
<1>8. QED
  BY <1>5, <1>6, <1>7 DEF EmoInv

LEMMA PutNewEmo ==
  ASSUME Sound, EmoInv, NEW c \in Calls, NEW result \in {"whole", "torn", "none"}, PutNew(c, result),
         call[c].kind = "create_emoji"
  PROVE  EmoInv'
<1>1. /\ Moves(c) /\ call[c].pc = "put" /\ call[c].new \in Keys
      /\ files'[call[c].new] = result
      /\ \A k \in Keys : k # call[c].new => files'[k] = files[k]
      /\ result = "whole" =>
           /\ call'[c].pc = "row" /\ call'[c].kind = call[c].kind /\ call'[c].new = call[c].new
           /\ call'[c].old = call[c].old /\ call'[c].arg = call[c].arg
      /\ result # "whole" => call'[c] = NoCall
      /\ excused \subseteq excused' /\ (result = "torn" => call[c].new \in excused')
  BY PutNewMoves
<1>2. emoji' = emoji /\ purge' = purge /\ drawn' = drawn
  BY DEF PutNew, rows
<1>3. PICK e \in EmojiIds : e = call[c].arg[1] /\ call[c].new = Emoji(e)
  BY <1>1, EmojiCalls DEF Unnamed
<1>4. \A d \in Calls : d # c => call'[d] = call[d]
  BY <1>1 DEF Moves
<1>5. call'[c].kind \in EmojiKinds => result = "whole"
  BY <1>1, NoRows DEF EmojiKinds
<1>6. EmojiKeys'
  BY <1>1, <1>2, <1>4, <1>5 DEF EmoInv, EmojiKeys, Unnamed, EmojiKinds
<1>7. /\ emoji[e] = NoEmoji
      /\ \A d \in Calls : d # c /\ call[d].kind = "create_emoji" /\ call[d].pc \in Unnamed =>
           call[d].arg[1] # e
  BY <1>1, <1>3 DEF EmoInv, EmojiKeys, Unnamed
<1>8. \A f \in EmojiIds : f # e => files'[Emoji(f)] = files[Emoji(f)]
  BY <1>1, <1>3, KeyFacts
<1>9. EmojiFiles'
  <2>1. \A d \in Calls : d # c /\ call[d].kind = "create_emoji" /\ call[d].pc = "row" =>
          files'[call[d].new] = files[call[d].new]
    BY <1>7, <1>8, EmojiCalls DEF Unnamed
  <2>2. QED
    BY <1>1, <1>2, <1>4, <1>5, <1>7, <1>8, <2>1 DEF EmoInv, EmojiFiles, EmojiKinds
<1>10. EmojiStrays'
  <2>1. \A f \in EmojiIds : f # e /\ Holds(Emoji(f), EmojiKinds) => Holds(Emoji(f), EmojiKinds)'
    BY <1>1, <1>3, OthersHold, KeyFacts DEF Unnamed
  <2>2. result = "whole" => Holds(Emoji(e), EmojiKinds)'
    BY <1>1, <1>3 DEF Holds, Unnamed, EmojiKinds
  <2>3. result # "whole" => files'[Emoji(e)] = "none" \/ Emoji(e) \in excused'
    BY <1>1, <1>3
  <2>4. QED
    BY <1>1, <1>2, <1>8, <2>1, <2>2, <2>3 DEF EmoInv, EmojiStrays
<1>11. QED
  BY <1>6, <1>9, <1>10 DEF EmoInv

\* The file of emoji e goes, and call c with it or on to tell.
LEMMA EmojiGoes ==
  ASSUME Sound, EmoInv, NEW c \in Calls, NEW ok \in BOOLEAN, NEW e \in EmojiIds,
         Delete(Emoji(e), ok), Moves(c), emoji' = emoji, purge' = purge, drawn' = drawn,
         \/ call'[c] = NoCall
         \/ /\ call'[c].kind = "delete_emoji" /\ call[c].kind = "delete_emoji"
            /\ call'[c].pc = "list" /\ call'[c].arg = call[c].arg,
         emoji[e] = NoEmoji,
         \A d \in Calls : d # c /\ call[d].kind = "create_emoji" /\ call[d].pc \in Unnamed =>
           call[d].arg[1] # e,
         \A f \in EmojiIds : f # e =>
           ~(\/ call[c].pc \in Unnamed /\ call[c].new = Emoji(f)
             \/ call[c].pc = "delete_old" /\ call[c].old = Emoji(f))
  PROVE  EmoInv'
<1>1. /\ excused \subseteq excused' /\ (Emoji(e) \in excused' \/ files'[Emoji(e)] = "none")
      /\ \A j \in Keys : j # Emoji(e) => files'[j] = files[j]
  BY DeleteTyped, KeyFacts DEF Sound
<1>2. \A d \in Calls : d # c => call'[d] = call[d]
  BY DEF Moves
<1>3. call'[c].kind \in EmojiKinds =>
        /\ call'[c].kind = "delete_emoji" /\ call[c].kind = "delete_emoji"
        /\ call'[c].pc = "list" /\ call'[c].arg = call[c].arg
  BY NoRows DEF EmojiKinds
<1>4. \A f \in EmojiIds : f # e => files'[Emoji(f)] = files[Emoji(f)]
  BY <1>1, KeyFacts
<1>5. EmojiKeys'
  BY <1>2, <1>3 DEF EmoInv, EmojiKeys, EmojiKinds
<1>6. EmojiFiles'
  <2>1. \A d \in Calls : d # c /\ call[d].kind = "create_emoji" /\ call[d].pc = "row" =>
          files'[call[d].new] = files[call[d].new]
    BY <1>4, EmojiCalls DEF Unnamed
  <2>2. QED
    BY <1>2, <1>3, <1>4, <2>1 DEF EmoInv, EmojiFiles, EmojiKinds
<1>7. EmojiStrays'
  <2>1. \A f \in EmojiIds : f # e /\ Holds(Emoji(f), EmojiKinds) => Holds(Emoji(f), EmojiKinds)'
    BY OthersHold
  <2>2. QED
    BY <1>1, <1>4, <2>1 DEF EmoInv, EmojiStrays
<1>8. QED
  BY <1>5, <1>6, <1>7 DEF EmoInv

LEMMA CleanupEmo ==
  ASSUME Sound, EmoInv, NEW c \in Calls, NEW ok \in BOOLEAN, Cleanup(c, ok),
         call[c].kind = "create_emoji"
  PROVE  EmoInv'
<1>1. Moves(c) /\ call[c].pc = "cleanup" /\ call'[c] = NoCall /\ Delete(call[c].new, ok)
  BY CleanupMoves
<1>2. emoji' = emoji /\ purge' = purge /\ drawn' = drawn
  BY DEF Cleanup, rows
<1>3. PICK e \in EmojiIds : e = call[c].arg[1] /\ call[c].new = Emoji(e)
  BY <1>1, EmojiCalls DEF Unnamed
<1>4. /\ emoji[e] = NoEmoji
      /\ \A d \in Calls : d # c /\ call[d].kind = "create_emoji" /\ call[d].pc \in Unnamed =>
           call[d].arg[1] # e
  BY <1>1, <1>3 DEF EmoInv, EmojiKeys, Unnamed
<1>5. \A f \in EmojiIds : f # e => ~(\/ call[c].pc \in Unnamed /\ call[c].new = Emoji(f)
                                     \/ call[c].pc = "delete_old" /\ call[c].old = Emoji(f))
  BY <1>1, <1>3, KeyFacts
<1>6. Delete(Emoji(e), ok)
  BY <1>1, <1>3
<1>7. QED
  BY <1>1, <1>2, <1>4, <1>5, <1>6, EmojiGoes

LEMMA DeleteOldEmo ==
  ASSUME Sound, EmoInv, NEW c \in Calls, NEW ok \in BOOLEAN, DeleteOld(c, ok),
         call[c].kind = "delete_emoji"
  PROVE  EmoInv'
<1>1. /\ Moves(c) /\ call[c].pc = "delete_old" /\ Delete(call[c].old, ok)
      /\ call'[c].kind = "delete_emoji" /\ call'[c].pc = "list" /\ call'[c].arg = call[c].arg
  BY DeleteOldMoves
<1>2. emoji' = emoji /\ purge' = purge /\ drawn' = drawn
  BY DEF DeleteOld, rows
<1>3. PICK e \in EmojiIds : e = call[c].arg /\ call[c].old = Emoji(e)
  BY <1>1, EmojiCalls
<1>4. /\ emoji[e] = NoEmoji
      /\ \A d \in Calls : d # c /\ call[d].kind = "create_emoji" /\ call[d].pc \in Unnamed =>
           call[d].arg[1] # e
  BY <1>1, <1>3 DEF EmoInv, EmojiKeys
<1>5. \A f \in EmojiIds : f # e => ~(\/ call[c].pc \in Unnamed /\ call[c].new = Emoji(f)
                                     \/ call[c].pc = "delete_old" /\ call[c].old = Emoji(f))
  BY <1>1, <1>3, KeyFacts DEF Unnamed
<1>6. Delete(Emoji(e), ok)
  BY <1>1, <1>3
<1>7. QED
  BY <1>1, <1>2, <1>4, <1>5, <1>6, EmojiGoes

-----------------------------------------------------------------------------
(* The invariant of the keys, through every step.                          *)

Inv == Sound /\ AttInv /\ ImgInv /\ EmoInv

\* The purge has keys of attachments only.
LEMMA PurgedKeys ==
  ASSUME Inv
  PROVE  /\ \A i \in ImageIds : Image(i) \notin purge
         /\ \A e \in EmojiIds : Emoji(e) \notin purge
BY DEF Inv, ImgInv, ImageKeys, EmoInv, EmojiKeys

LEMMA StillElsewhere ==
  ASSUME NEW c \in Calls, Moves(c)
  PROVE  /\ call[c].kind \notin {"upload"} /\ call'[c].kind \notin {"upload"} => Still({"upload"})
         /\ call[c].kind \notin ImageKinds /\ call'[c].kind \notin ImageKinds => Still(ImageKinds)
         /\ call[c].kind \notin EmojiKinds /\ call'[c].kind \notin EmojiKinds => Still(EmojiKinds)
BY OneMoves

LEMMA AttachmentCallsKeep ==
  ASSUME Inv, NEW c \in Calls,
         \/ \E u \in Users : AttachmentRequests(c, u)
         \/ CreateAttachment(c) \/ LinkToMessage(c) \/ \E ok \in BOOLEAN : EnqueueThumbnail(c, ok)
  PROVE  Inv'
<1>1. /\ Sound' /\ AttInv' /\ Moves(c)
      /\ call[c].kind \in {"none", "upload", "post"} /\ call'[c].kind \in {"none", "upload", "post"}
      /\ slot' = slot /\ emoji' = emoji /\ files' = files /\ purge' = purge
      /\ drawn \subseteq drawn' /\ excused' = excused
  <2>1. ASSUME NEW u \in Users, NEW a \in AttachmentIds, Upload(c, u, a) PROVE <1>1
    <3>1. Sound' /\ Moves(c) /\ call[c].kind = "none" /\ call'[c].kind = "upload" /\ AttInv'
      BY <2>1, UploadMoves, UploadAtt DEF Inv
    <3>2. /\ slot' = slot /\ emoji' = emoji /\ files' = files /\ purge' = purge
          /\ drawn \subseteq drawn' /\ excused' = excused
      BY <2>1 DEF Upload, rows
    <3>3. QED
      BY <3>1, <3>2
  <2>2. ASSUME NEW u \in Users, NEW p \in PostIds, NEW names \in SUBSET workload.attachments,
               SendWith(c, u, p, names)
        PROVE  <1>1
    <3>1. /\ Sound' /\ Moves(c) /\ call[c].kind = "none" /\ call'[c].kind = "post"
      BY <2>2, SendWithMoves DEF Inv
    <3>2. /\ attachment' = attachment /\ slot' = slot /\ emoji' = emoji /\ files' = files
          /\ job' = job /\ worker' = worker /\ purge' = purge /\ drawn' = drawn
          /\ excused' = excused
      BY <2>2 DEF SendWith, stream
    <3>3. AttFrame
      BY <3>1, <3>2, StillElsewhere DEF AttFrame
    <3>4. QED
      BY <3>1, <3>2, <3>3, AttFramed DEF Inv
  <2>3. CASE CreateAttachment(c)
    BY <2>3, CreateAttachmentMoves, CreateAttachmentAtt DEF Inv, CreateAttachment
  <2>4. CASE LinkToMessage(c)
    <3>1. Sound' /\ Moves(c) /\ call[c].kind = "post" /\ call'[c] = NoCall /\ AttInv'
      BY <2>4, LinkMoves, LinkAtt DEF Inv
    <3>2. /\ slot' = slot /\ emoji' = emoji /\ files' = files /\ purge' = purge
          /\ drawn' = drawn /\ excused' = excused
      BY <2>4 DEF LinkToMessage
    <3>3. QED
      BY <3>1, <3>2, NoRows
  <2>5. ASSUME NEW ok \in BOOLEAN, EnqueueThumbnail(c, ok) PROVE <1>1
    <3>1. Sound' /\ Moves(c) /\ call[c].kind = "upload" /\ call'[c] = NoCall /\ AttInv'
      BY <2>5, EnqueueMoves, EnqueueAtt DEF Inv
    <3>2. /\ slot' = slot /\ emoji' = emoji /\ files' = files /\ purge' = purge
          /\ drawn' = drawn /\ excused' = excused
      BY <2>5 DEF EnqueueThumbnail, rows
    <3>3. QED
      BY <3>1, <3>2, NoRows
  <2>6. QED
    BY <2>1, <2>2, <2>3, <2>4, <2>5 DEF AttachmentRequests
<1>2. Still(ImageKinds) /\ Still(EmojiKinds)
  BY <1>1, StillElsewhere DEF ImageKinds, EmojiKinds
<1>3. ImgFrame /\ EmoFrame
  BY <1>1, <1>2, PurgedKeys DEF ImgFrame, EmoFrame
<1>4. QED
  BY <1>1, <1>3, ImgFramed, EmoFramed DEF Inv

LEMMA PurgeKeeps ==
  ASSUME Inv,
         \/ \E a \in AttachmentIds : Age(a)
         \/ PurgeOrphans
         \/ \E k \in Keys, ok \in BOOLEAN : DeleteOrphan(k, ok)
  PROVE  Inv'
<1>1. ASSUME NEW k \in Keys, NEW ok \in BOOLEAN, DeleteOrphan(k, ok) PROVE Inv'
  BY <1>1, DeleteOrphanMoves, DeleteOrphanAtt, ImgFramed, EmoFramed DEF Inv
<1>2. ASSUME NEW a \in AttachmentIds, Age(a) PROVE Inv'
  <2>1. Sound' /\ AttInv' /\ call' = call
    BY <1>2, AgeMoves, AgeAtt DEF Inv
  <2>2. ImgFrame /\ EmoFrame
    BY <1>2, <2>1, CallsStay, PurgedKeys DEF Age, ImgFrame, EmoFrame
  <2>3. QED
    BY <2>1, <2>2, ImgFramed, EmoFramed DEF Inv
<1>3. CASE PurgeOrphans
  <2>1. Sound' /\ AttInv' /\ call' = call
    BY <1>3, PurgeMoves, PurgeAtt DEF Inv
  <2>2. PICK orphans \in SUBSET AttachmentIds :
          purge' = {Original(a) : a \in orphans}
                     \cup {Thumbnail(a) : a \in {b \in orphans : attachment[b].thumb}}
    BY <1>3, PurgeMoves DEF Inv
  <2>3. (\A i \in ImageIds : Image(i) \notin purge') /\ (\A e \in EmojiIds : Emoji(e) \notin purge')
    BY <2>2, KeyFacts
  <2>4. ImgFrame /\ EmoFrame
    BY <1>3, <2>1, <2>3, CallsStay DEF PurgeOrphans, ImgFrame, EmoFrame
  <2>5. QED
    BY <2>1, <2>4, ImgFramed, EmoFramed DEF Inv
<1>4. QED
  BY <1>1, <1>2, <1>3

LEMMA WorkerCases ==
  ASSUME Worker
  PROVE  \/ \E batch \in SUBSET AttachmentIds : Takes(batch)
         \/ Thinks \/ SetThumbnailKey
         \/ \E result \in {"whole", "torn", "none"} : PutThumbnail(result)
         \/ \E ok \in BOOLEAN : Ack(ok)
<1>1. \A batch \in SUBSET AttachmentIds : ReclaimStale(batch) => Takes(batch)
  BY DEF Takes
<1>2. \A a \in AttachmentIds : ReadJob(a) => Takes({a}) /\ {a} \in SUBSET AttachmentIds
  BY Zenon DEF Takes
<1>3. QED
  BY <1>1, <1>2, Zenon DEF Worker, Thinks

LEMMA WorkerKeeps ==
  ASSUME Inv, Worker
  PROVE  Inv'
<1>1. SlotsHoldImages
  BY ImageSlots DEF Inv, ImgInv
<1>2. /\ Sound' /\ AttInv' /\ call' = call /\ slot' = slot /\ emoji' = emoji /\ purge' = purge
      /\ drawn' = drawn /\ excused \subseteq excused'
      /\ \A k \in Keys : (\A a \in AttachmentIds : k # Thumbnail(a)) => files'[k] = files[k]
  <2>1. ASSUME NEW batch \in SUBSET AttachmentIds, Takes(batch) PROVE <1>2
    <3>1. Sound' /\ AttInv' /\ call' = call
      BY <2>1, TakesMoves, TakesAtt DEF Inv
    <3>2. /\ slot' = slot /\ emoji' = emoji /\ purge' = purge /\ drawn' = drawn
          /\ excused' = excused /\ files' = files
      BY <2>1, Zenon DEF Takes, ReclaimStale, ReadJob, rows
    <3>3. QED
      BY <3>1, <3>2
  <2>2. CASE Thinks
    <3>1. Sound' /\ AttInv' /\ call' = call
      BY <2>2, ThinksMoves, ThinksAtt DEF Inv, AttInv
    <3>2. /\ slot' = slot /\ emoji' = emoji /\ purge' = purge /\ drawn' = drawn
          /\ excused' = excused /\ files' = files
      BY <2>2, Zenon DEF Thinks, ReadFails, NextJob, ReadOriginal, JobFailed, rows
    <3>3. QED
      BY <3>1, <3>2
  <2>3. ASSUME NEW result \in {"whole", "torn", "none"}, PutThumbnail(result) PROVE <1>2
    <3>1. /\ Sound' /\ AttInv' /\ call' = call /\ worker.pc = "put"
          /\ \A k \in Keys : k # Thumbnail(worker.a) => files'[k] = files[k]
      BY <2>3, PutThumbnailMoves, PutThumbnailAtt DEF Inv, AttInv
    <3>2. /\ slot' = slot /\ emoji' = emoji /\ purge' = purge /\ drawn' = drawn
          /\ excused' = excused
      BY <2>3, Zenon DEF PutThumbnail, rows
    <3>3. worker.a \in AttachmentIds
      BY <3>1 DEF Inv, AttInv, WorkerInv
    <3>4. QED
      BY <3>1, <3>2, <3>3
  <2>4. CASE SetThumbnailKey
    <3>1. Sound' /\ AttInv' /\ call' = call
      BY <2>4, SetThumbnailMoves, SetThumbnailAtt DEF Inv, AttInv
    <3>2. QED
      BY <2>4, <3>1 DEF SetThumbnailKey
  <2>5. ASSUME NEW ok \in BOOLEAN, Ack(ok) PROVE <1>2
    <3>1. Sound' /\ AttInv' /\ call' = call /\ excused \subseteq excused'
      BY <1>1, <2>5, AckMoves, AckAtt DEF Inv, AttInv
    <3>2. slot' = slot /\ emoji' = emoji /\ purge' = purge /\ drawn' = drawn /\ files' = files
      BY <2>5 DEF Ack, rows
    <3>3. QED
      BY <3>1, <3>2
  <2>6. QED
    BY <2>1, <2>2, <2>3, <2>4, <2>5, WorkerCases
<1>3. /\ \A i \in ImageIds : files'[Image(i)] = files[Image(i)]
      /\ \A e \in EmojiIds : files'[Emoji(e)] = files[Emoji(e)]
  BY <1>2, KeyFacts
<1>4. ImgFrame /\ EmoFrame
  BY <1>2, <1>3, CallsStay, PurgedKeys DEF ImgFrame, EmoFrame
<1>5. QED
  BY <1>2, <1>4, ImgFramed, EmoFramed DEF Inv

LEMMA ImageCallsKeep ==
  ASSUME Inv, NEW c \in Calls, ImageRequests(c) \/ WriteKey(c)
  PROVE  Inv'
<1>1. /\ Sound' /\ ImgInv' /\ Moves(c)
      /\ call[c].kind \in ImageKinds \cup {"none"} /\ call'[c].kind \in ImageKinds \cup {"none"}
      /\ attachment' = attachment /\ emoji' = emoji /\ files' = files /\ purge' = purge
      /\ job' = job /\ worker' = worker
      /\ drawn \subseteq drawn' /\ excused \subseteq excused'
  <2>1. ASSUME NEW s \in Slots, NEW i \in ImageIds, UploadImage(c, s, i) PROVE <1>1
    <3>1. /\ Sound' /\ ImgInv' /\ Moves(c) /\ call[c].kind = "none"
          /\ call'[c].kind = "upload_image"
      BY <2>1, UploadImageMoves, UploadImageImg DEF Inv, ImgInv
    <3>2. QED
      BY <2>1, <3>1 DEF UploadImage, rows, stream, ImageKinds
  <2>2. ASSUME NEW s \in Slots, DeleteImage(c, s) PROVE <1>1
    <3>1. /\ Sound' /\ ImgInv' /\ Moves(c) /\ call[c].kind = "none"
          /\ call'[c].kind = "delete_image"
      BY <2>2, DeleteImageMoves, DeleteImageImg DEF Inv, ImgInv
    <3>2. QED
      BY <2>2, <3>1 DEF DeleteImage, rows, stream, ImageKinds
  <2>3. CASE WriteKey(c)
    <3>1. /\ Sound' /\ ImgInv' /\ Moves(c) /\ call[c].kind \in ImageKinds
      BY <2>3, WriteKeyMoves, WriteKeyImg DEF Inv
    <3>2. call'[c].kind \in ImageKinds \cup {"none"} /\ excused \subseteq excused'
      BY <2>3, WriteKeyMoves, NoRows DEF Inv, ImageKinds
    <3>3. /\ attachment' = attachment /\ emoji' = emoji /\ files' = files /\ purge' = purge
          /\ job' = job /\ worker' = worker /\ drawn' = drawn
      BY <2>3 DEF WriteKey, WriteUserKey, WriteServerKey, stream
    <3>4. QED
      BY <3>1, <3>2, <3>3
  <2>4. QED
    <3>1. CASE ImageRequests(c)
      <4>1. \A u \in Users : <<"avatar", u>> \in Slots /\ <<"banner", u>> \in Slots
        BY DEF Slots
      <4>2. <<"icon", None>> \in Slots /\ <<"server_banner", None>> \in Slots
        BY DEF Slots
      <4>3. \E s \in Slots : DeleteImage(c, s) \/ \E i \in ImageIds : UploadImage(c, s, i)
        BY <3>1, <4>1, <4>2, Zenon DEF ImageRequests, UserAvatarRoutes, UserBannerRoutes,
             ServerIconRoutes, ServerBannerRoutes
      <4>4. QED
        BY <2>1, <2>2, <4>3
    <3>2. QED
      BY <2>3, <3>1
<1>2. Still({"upload"}) /\ Still(EmojiKinds)
  BY <1>1, StillElsewhere DEF ImageKinds, EmojiKinds
<1>3. AttFrame /\ EmoFrame
  BY <1>1, <1>2, PurgedKeys DEF AttFrame, EmoFrame
<1>4. QED
  BY <1>1, <1>3, AttFramed, EmoFramed DEF Inv

LEMMA EmojiCallsKeep ==
  ASSUME Inv, NEW c \in Calls,
         \/ EmojiRequests(c) \/ StoreEmoji(c) \/ RemoveEmoji(c)
         \/ (\E ok \in BOOLEAN : PublishEmojiUpdate(c, ok)) \/ EnqueueEmojiList(c)
  PROVE  Inv'
<1>1. /\ Sound' /\ EmoInv' /\ Moves(c)
      /\ call[c].kind \in EmojiKinds \cup {"none"} /\ call'[c].kind \in EmojiKinds \cup {"none"}
      /\ attachment' = attachment /\ slot' = slot /\ files' = files /\ purge' = purge
      /\ job' = job /\ worker' = worker
      /\ drawn \subseteq drawn' /\ excused' = excused
  <2>1. ASSUME NEW u \in Users, NEW name \in Names, NEW e \in EmojiIds, CreateEmoji(c, u, name, e)
        PROVE  <1>1
    <3>1. /\ Sound' /\ EmoInv' /\ Moves(c) /\ call[c].kind = "none"
          /\ call'[c].kind = "create_emoji"
      BY <2>1, CreateEmojiMoves, CreateEmojiEmo DEF Inv
    <3>2. QED
      BY <2>1, <3>1 DEF CreateEmoji, rows, stream, EmojiKinds
  <2>2. ASSUME NEW e \in EmojiIds, NEW name \in Names, UpdateName(c, e, name) PROVE <1>1
    <3>1. /\ Sound' /\ EmoInv' /\ Moves(c) /\ call[c].kind = "none"
          /\ call'[c].kind = "update_emoji"
      BY <2>2, UpdateNameMoves, UpdateNameEmo DEF Inv
    <3>2. /\ attachment' = attachment /\ slot' = slot /\ files' = files /\ purge' = purge
          /\ job' = job /\ worker' = worker /\ drawn' = drawn /\ excused' = excused
      BY <2>2 DEF UpdateName, stream
    <3>3. QED
      BY <3>1, <3>2 DEF EmojiKinds
  <2>3. ASSUME NEW e \in EmojiIds, DeleteEmoji(c, e) PROVE <1>1
    <3>1. /\ Sound' /\ EmoInv' /\ Moves(c) /\ call[c].kind = "none"
          /\ call'[c].kind = "delete_emoji"
      BY <2>3, DeleteEmojiMoves, DeleteEmojiEmo DEF Inv
    <3>2. QED
      BY <2>3, <3>1 DEF DeleteEmoji, rows, stream, EmojiKinds
  <2>4. CASE StoreEmoji(c)
    <3>1. /\ Sound' /\ EmoInv' /\ Moves(c) /\ call[c].kind = "create_emoji"
          /\ call'[c].kind = "create_emoji"
      BY <2>4, StoreEmojiMoves, StoreEmojiEmo DEF Inv
    <3>2. /\ attachment' = attachment /\ slot' = slot /\ files' = files /\ purge' = purge
          /\ job' = job /\ worker' = worker /\ drawn' = drawn /\ excused' = excused
      BY <2>4 DEF StoreEmoji, stream
    <3>3. QED
      BY <3>1, <3>2 DEF EmojiKinds
  <2>5. CASE RemoveEmoji(c)
    <3>1. /\ Sound' /\ EmoInv' /\ Moves(c) /\ call[c].kind = "delete_emoji"
          /\ call'[c] = NoCall \/ call'[c].kind = "delete_emoji"
      BY <2>5, RemoveEmojiMoves, RemoveEmojiEmo DEF Inv
    <3>2. /\ attachment' = attachment /\ slot' = slot /\ files' = files /\ purge' = purge
          /\ job' = job /\ worker' = worker /\ drawn' = drawn /\ excused' = excused
      BY <2>5 DEF RemoveEmoji, stream
    <3>3. QED
      BY <3>1, <3>2, NoRows DEF EmojiKinds
  <2>6. CASE (\E ok \in BOOLEAN : PublishEmojiUpdate(c, ok)) \/ EnqueueEmojiList(c)
    <3>1. /\ Sound' /\ EmoInv' /\ Moves(c) /\ call[c].kind \in EmojiKinds
          /\ call'[c] = NoCall \/ call'[c].kind \in EmojiKinds
      BY <2>6, PublishMoves, TellMoves, AnnounceEmo DEF Inv
    <3>2. /\ attachment' = attachment /\ slot' = slot /\ files' = files /\ purge' = purge
          /\ job' = job /\ worker' = worker /\ drawn' = drawn /\ excused' = excused
      BY <2>6 DEF PublishEmojiUpdate, EnqueueEmojiList, rows, stream
    <3>3. QED
      BY <3>1, <3>2, NoRows
  <2>7. QED
    BY <2>1, <2>2, <2>3, <2>4, <2>5, <2>6 DEF EmojiRequests
<1>2. Still({"upload"}) /\ Still(ImageKinds)
  BY <1>1, StillElsewhere DEF ImageKinds, EmojiKinds
<1>3. AttFrame /\ ImgFrame
  BY <1>1, <1>2, PurgedKeys DEF AttFrame, ImgFrame
<1>4. QED
  BY <1>1, <1>3, AttFramed, ImgFramed DEF Inv

\* A step on the key of one call, of whichever kind.
LEMMA FileStepsKeep ==
  ASSUME Inv, NEW c \in Calls, NEW ok \in BOOLEAN, NEW result \in {"whole", "torn", "none"},
         PutNew(c, result) \/ Cleanup(c, ok) \/ DeleteOld(c, ok)
  PROVE  Inv'
<1>1. PICK k \in Keys :
        /\ \A j \in Keys : j # k => files'[j] = files[j]
        /\ k = call[c].new \/ k = call[c].old
        /\ PutNew(c, result) \/ Cleanup(c, ok) => k = call[c].new /\ call[c].pc \in {"put", "cleanup"}
        /\ DeleteOld(c, ok) => k = call[c].old /\ call[c].pc = "delete_old"
        /\ excused \subseteq excused'
  <2>1. CASE PutNew(c, result)
    <3>1. /\ call[c].new \in Keys /\ call[c].pc = "put" /\ excused \subseteq excused'
          /\ \A j \in Keys : j # call[c].new => files'[j] = files[j]
      BY <2>1, PutNewMoves DEF Inv
    <3>2. ~DeleteOld(c, ok)
      BY <3>1 DEF DeleteOld, At
    <3>3. QED
      BY <3>1, <3>2
  <2>2. CASE Cleanup(c, ok)
    <3>1. call[c].new \in Keys /\ call[c].pc = "cleanup" /\ Delete(call[c].new, ok)
      BY <2>2, CleanupMoves DEF Inv
    <3>2. excused \subseteq excused' /\ \A j \in Keys : j # call[c].new => files'[j] = files[j]
      BY <3>1, DeleteTyped DEF Inv, Sound
    <3>3. ~DeleteOld(c, ok)
      BY <3>1 DEF DeleteOld, At
    <3>4. QED
      BY <3>1, <3>2, <3>3
  <2>3. CASE DeleteOld(c, ok)
    <3>1. call[c].old \in Keys /\ call[c].pc = "delete_old" /\ Delete(call[c].old, ok)
      BY <2>3, DeleteOldMoves DEF Inv
    <3>2. excused \subseteq excused' /\ \A j \in Keys : j # call[c].old => files'[j] = files[j]
      BY <3>1, DeleteTyped DEF Inv, Sound
    <3>3. ~PutNew(c, result) /\ ~Cleanup(c, ok)
      BY <3>1 DEF PutNew, Cleanup, At
    <3>4. QED
      BY <3>1, <3>2, <3>3
  <2>4. QED
    BY <2>1, <2>2, <2>3
<1>2. /\ attachment' = attachment /\ slot' = slot /\ emoji' = emoji /\ job' = job
      /\ worker' = worker /\ purge' = purge /\ drawn' = drawn
  BY DEF PutNew, Cleanup, DeleteOld, rows, stream
<1>3. /\ Sound' /\ Moves(c)
      /\ call'[c].kind = call[c].kind \/ call'[c] = NoCall
      /\ call[c].kind \in {"upload", "create_emoji", "delete_emoji"} \cup ImageKinds
      /\ call[c].kind \in {"upload", "create_emoji"} => PutNew(c, result) \/ Cleanup(c, ok)
      /\ call[c].kind = "delete_emoji" => DeleteOld(c, ok)
      /\ call[c].kind \in ImageKinds /\ ~DeleteOld(c, ok) => call[c].kind = "upload_image"
  BY PutNewMoves, CleanupMoves, DeleteOldMoves DEF Inv, ImageKinds
<1>4. Carries(c)
  BY DEF Inv, Sound
<1>5. CASE call[c].kind = "upload"
  <2>1. call[c].arg \in AttachmentIds /\ k = Original(call[c].arg)
    BY <1>1, <1>3, <1>4, <1>5 DEF Carries
  <2>2. AttInv'
    BY <1>3, <1>5, PutNewAtt, CleanupAtt DEF Inv
  <2>3. Still(ImageKinds) /\ Still(EmojiKinds)
    BY <1>3, <1>5, StillElsewhere, NoRows DEF ImageKinds, EmojiKinds
  <2>4. /\ \A i \in ImageIds : files'[Image(i)] = files[Image(i)]
        /\ \A e \in EmojiIds : files'[Emoji(e)] = files[Emoji(e)]
    BY <1>1, <2>1, KeyFacts
  <2>5. ImgFrame /\ EmoFrame
    BY <1>1, <1>2, <2>3, <2>4, PurgedKeys DEF ImgFrame, EmoFrame
  <2>6. QED
    BY <1>3, <2>2, <2>5, ImgFramed, EmoFramed DEF Inv
<1>6. CASE call[c].kind \in ImageKinds
  <2>1. PICK i \in ImageIds : k = Image(i)
    <3>1. call[c].pc = "delete_old" => call[c].old \in Images
      BY <1>6, ImageCalls DEF Inv
    <3>2. call[c].kind = "upload_image" /\ call[c].pc \in {"put", "cleanup"} => call[c].new \in Images
      BY <1>6, ImageCalls DEF Inv, Unnamed
    <3>3. QED
      BY <1>1, <1>3, <1>6, <3>1, <3>2 DEF Images
  <2>2. ImgInv'
    BY <1>3, <1>6, PutNewImg, CleanupImg, DeleteOldImg DEF Inv
  <2>3. Still({"upload"}) /\ Still(EmojiKinds)
    BY <1>3, <1>6, StillElsewhere, NoRows DEF ImageKinds, EmojiKinds
  <2>4. /\ \A a \in AttachmentIds : /\ files'[Original(a)] = files[Original(a)]
                                    /\ files'[Thumbnail(a)] = files[Thumbnail(a)]
        /\ \A e \in EmojiIds : files'[Emoji(e)] = files[Emoji(e)]
    BY <1>1, <2>1, KeyFacts
  <2>5. AttFrame /\ EmoFrame
    BY <1>1, <1>2, <2>3, <2>4, PurgedKeys DEF AttFrame, EmoFrame
  <2>6. QED
    BY <1>3, <2>2, <2>5, AttFramed, EmoFramed DEF Inv
<1>7. CASE call[c].kind \in {"create_emoji", "delete_emoji"}
  <2>1. PICK e \in EmojiIds : k = Emoji(e)
    BY <1>1, <1>3, <1>7, EmojiCalls DEF Inv, Unnamed
  <2>2. EmoInv'
    BY <1>3, <1>7, PutNewEmo, CleanupEmo, DeleteOldEmo DEF Inv
  <2>3. Still({"upload"}) /\ Still(ImageKinds)
    BY <1>3, <1>7, StillElsewhere, NoRows DEF ImageKinds, EmojiKinds
  <2>4. /\ \A a \in AttachmentIds : /\ files'[Original(a)] = files[Original(a)]
                                    /\ files'[Thumbnail(a)] = files[Thumbnail(a)]
        /\ \A i \in ImageIds : files'[Image(i)] = files[Image(i)]
    BY <1>1, <2>1, KeyFacts
  <2>5. AttFrame /\ ImgFrame
    BY <1>1, <1>2, <2>3, <2>4, PurgedKeys DEF AttFrame, ImgFrame
  <2>6. QED
    BY <1>3, <2>2, <2>5, AttFramed, ImgFramed DEF Inv
<1>8. QED
  BY <1>3, <1>5, <1>6, <1>7

LEMMA InvInit == Init => Inv
<1> SUFFICES ASSUME Init PROVE Inv
  OBVIOUS
<1>1. [at |-> "none", deliveries |-> 0] \in Job
  BY DEF Job
<1>2. TypeOK
  BY <1>1, NoRows DEF Init, TypeOK
<1>3. \A c \in Calls : call[c] = NoCall /\ call[c].kind = "none"
  BY NoRows DEF Init
<1>4. Sound
  BY <1>2, <1>3, NoRows DEF Sound, Carries
<1>5. /\ \A a \in AttachmentIds : /\ attachment[a] = NoAttachment /\ job[a].at = "none"
                                  /\ job[a].deliveries = 0
      /\ \A k \in Keys : files[k] = "none"
      /\ purge = {} /\ worker = Idle
      /\ \A s \in Slots : slot[s] = None
      /\ \A e \in EmojiIds : emoji[e] = NoEmoji
  BY DEF Init
<1>6. AttachmentKeys /\ WorkerInv
  BY <1>3, <1>5, NoRows DEF AttachmentKeys, WorkerInv
<1>7. AttachmentFiles
  BY <1>3, <1>5, NoRows DEF AttachmentFiles
<1>8. AttachmentStrays
  BY <1>5, KeyFacts DEF AttachmentStrays
<1>9. ImgInv
  BY <1>3, <1>5, KeyFacts DEF ImgInv, ImageKeys, ImageFiles, ImageStrays, ImageKinds
<1>10. EmoInv
  BY <1>3, <1>5, KeyFacts DEF EmoInv, EmojiKeys, EmojiFiles, EmojiStrays
<1>11. QED
  BY <1>4, <1>6, <1>7, <1>8, <1>9, <1>10 DEF Inv, AttInv

LEMMA InvStutters ==
  ASSUME Inv, UNCHANGED vars
  PROVE  Inv'
<1>1. /\ TypeOK' /\ AuthorsStay /\ call' = call /\ attachment' = attachment /\ slot' = slot
      /\ emoji' = emoji /\ files' = files /\ purge' = purge /\ job' = job /\ worker' = worker
      /\ drawn' = drawn /\ excused' = excused
  BY DEF vars, rows, stream, list, Inv, Sound, TypeOK, AuthorsStay
<1>2. Sound'
  BY <1>1, CallsStayCarry DEF Inv
<1>3. AttFrame /\ ImgFrame /\ EmoFrame
  BY <1>1, CallsStay, PurgedKeys DEF AttFrame, ImgFrame, EmoFrame
<1>4. QED
  BY <1>2, <1>3, AttFramed, ImgFramed, EmoFramed DEF Inv

LEMMA InvStep == Inv /\ [Next]_vars => Inv'
<1> SUFFICES ASSUME Inv, [Next]_vars PROVE Inv'
  OBVIOUS
<1>1. SlotsHoldImages /\ WorkerInv
  BY ImageSlots DEF Inv, ImgInv, AttInv
<1>2. ASSUME NEW u \in Users, DeleteUser(u) PROVE Inv'
  BY <1>1, <1>2, DeleteUserMoves, DeleteUserAtt, DeleteUserImg, DeleteUserEmo DEF Inv
<1>3. ASSUME NEW torn \in SUBSET Writing, Crash(torn) PROVE Inv'
  BY <1>1, <1>3, CrashMoves, CrashAtt, CrashImg, CrashEmo DEF Inv
<1>4. ASSUME NEW c \in Calls, NEW u \in Users, AttachmentRequests(c, u) PROVE Inv'
  BY <1>4, AttachmentCallsKeep
<1>5. ASSUME NEW c \in Calls, ImageRequests(c) \/ EmojiRequests(c) PROVE Inv'
  BY <1>5, ImageCallsKeep, EmojiCallsKeep
<1>6. ASSUME NEW c \in Calls, Continue(c) PROVE Inv'
  <2>1. ASSUME NEW ok \in BOOLEAN, NEW result \in {"whole", "torn", "none"},
               PutNew(c, result) \/ Cleanup(c, ok) \/ DeleteOld(c, ok)
        PROVE  Inv'
    BY <2>1, FileStepsKeep
  <2>2. ASSUME NEW ok \in BOOLEAN, EnqueueThumbnail(c, ok) PROVE Inv'
    BY <2>2, AttachmentCallsKeep
  <2>3. CASE CreateAttachment(c) \/ LinkToMessage(c)
    BY <2>3, AttachmentCallsKeep
  <2>4. CASE WriteUserKey(c) \/ WriteServerKey(c)
    BY <2>4, ImageCallsKeep DEF WriteKey
  <2>5. CASE \/ StoreEmoji(c) \/ RemoveEmoji(c) \/ EnqueueEmojiList(c)
             \/ \E ok \in BOOLEAN : PublishEmojiUpdate(c, ok)
    BY <2>5, EmojiCallsKeep
  <2>6. QED
    BY <1>6, <2>1, <2>2, <2>3, <2>4, <2>5 DEF Continue
<1>7. CASE Worker
  BY <1>7, WorkerKeeps
<1>8. CASE \/ \E a \in AttachmentIds : Age(a)
           \/ PurgeOrphans
           \/ \E k \in Keys, ok \in BOOLEAN : DeleteOrphan(k, ok)
  BY <1>8, PurgeKeeps
<1>9. CASE UNCHANGED vars
  BY <1>9, InvStutters
<1>10. QED
  BY <1>2, <1>3, <1>4, <1>5, <1>6, <1>7, <1>8, <1>9 DEF Next

\* Whatever happens, a key is drawn once, held by one request until a row
\* names it, never deleted while a row names it, and on record when it is let
\* go without being deleted; with the types and what each request carries.
THEOREM FilesSound == Spec => []Inv
BY InvInit, InvStep, PTL DEF Spec

\* The type invariant holds in every behaviour.
THEOREM TypeCorrect == Spec => []TypeOK
<1>1. Inv => TypeOK
  BY DEF Inv, Sound
<1>2. QED
  BY <1>1, FilesSound, PTL

-----------------------------------------------------------------------------
(* What the invariant says of the files.                                   *)

\* A row never names a file that is missing or half written, whatever
\* uploads, cleanups, replacements, purges and crashes interleave; only a
\* thumbnail delivered again may be (LocalStorage.Put truncates in place).
THEOREM RowsNameWholeFiles == Spec => []NamedFilesExist
<1>1. Inv => NamedFilesExist
  <2> SUFFICES ASSUME Inv, NEW k \in NamedKeys
               PROVE  \/ files[k] = "whole"
                      \/ \E a \in AttachmentIds : k = Thumbnail(a) /\ job[a].deliveries > 1
    BY DEF NamedFilesExist
  <2>2. NamedSplit
    BY NamedSplits, ImageSlots DEF Inv, ImgInv
  <2>3. k \in Keys
    BY <2>2 DEF NamedSplit
  <2>4. CASE \E a \in AttachmentIds : k = Original(a) \/ k = Thumbnail(a)
    <3>1. PICK a \in AttachmentIds : k = Original(a) \/ k = Thumbnail(a)
      BY <2>4
    <3>2. CASE k = Original(a)
      BY <2>2, <3>2 DEF NamedSplit, Inv, AttInv, AttachmentFiles
    <3>3. CASE k = Thumbnail(a)
      <4>1. attachment[a].at = "live" /\ attachment[a].thumb
        BY <2>2, <3>3 DEF NamedSplit
      <4>2. job[a].deliveries \in Nat
        BY DEF Inv, Sound, TypeOK, Job
      <4>3. job[a].deliveries > 1 \/ job[a].deliveries <= 1
        BY <4>2
      <4>4. job[a].deliveries <= 1 => files[k] = "whole"
        BY <3>3, <4>1 DEF Inv, AttInv, AttachmentFiles
      <4>5. QED
        BY <3>3, <4>3, <4>4
    <3>4. QED
      BY <3>1, <3>2, <3>3
  <2>5. CASE \E i \in ImageIds : k = Image(i)
    <3>1. PICK i \in ImageIds : k = Image(i)
      BY <2>5
    <3>2. PICK s \in Slots : slot[s] = k
      BY <2>2, <3>1 DEF NamedSplit
    <3>3. k # None
      BY <2>3, KeyFacts
    <3>4. QED
      BY <3>2, <3>3 DEF Inv, ImgInv, ImageFiles
  <2>6. CASE \E e \in EmojiIds : k = Emoji(e)
    BY <2>2, <2>6 DEF NamedSplit, Inv, EmoInv, EmojiFiles
  <2>7. QED
    BY <2>3, <2>4, <2>5, <2>6, KeyCases
<1>2. QED
  BY <1>1, FilesSound, PTL

\* A file no row names, and that nothing under way will see to, was left by
\* one of the causes on record: no interleaving of the handlers, the purge
\* and the worker leaks one in another way.
THEOREM StraysAreExplained == Spec => []StrandedFilesExplained
<1>1. Inv => StrandedFilesExplained
  <2> SUFFICES ASSUME Inv, NEW k \in Keys, files[k] # "none", k \notin NamedKeys \cup HeldKeys
               PROVE  \/ k \in excused
                        \/ \E a \in AttachmentIds : k = Thumbnail(a) /\ job[a].at = "pending"
    BY DEF StrandedFilesExplained
  <2>2. NamedSplit
    BY NamedSplits, ImageSlots DEF Inv, ImgInv
  <2>3. k # None /\ k \notin purge
    BY KeyFacts, HeldFacts
  <2>4. \A kinds : ~Holds(k, kinds)
    BY <2>3, HoldsHeld
  <2>5. CASE \E a \in AttachmentIds : k = Original(a) \/ k = Thumbnail(a)
    <3>1. PICK a \in AttachmentIds : k = Original(a) \/ k = Thumbnail(a)
      BY <2>5
    <3>2. CASE k = Original(a)
      BY <2>2, <2>3, <2>4, <3>2 DEF NamedSplit, Inv, AttInv, AttachmentStrays
    <3>3. CASE k = Thumbnail(a)
      BY <2>2, <2>3, <3>3 DEF NamedSplit, Inv, AttInv, AttachmentStrays
    <3>4. QED
      BY <3>1, <3>2, <3>3
  <2>6. CASE \E i \in ImageIds : k = Image(i)
    BY <2>2, <2>4, <2>6 DEF NamedSplit, Inv, ImgInv, ImageStrays
  <2>7. CASE \E e \in EmojiIds : k = Emoji(e)
    BY <2>2, <2>4, <2>7 DEF NamedSplit, Inv, EmoInv, EmojiStrays
  <2>8. QED
    BY <2>5, <2>6, <2>7, KeyCases
<1>2. QED
  BY <1>1, FilesSound, PTL

-----------------------------------------------------------------------------
(* Thumbnail jobs.                                                         *)

\* A pending job that the worker does not have, and that was delivered often
\* enough.
Dropped(a) ==
  /\ job[a].at = "pending" /\ a \notin worker.batch
  /\ worker.a = a => worker.pc = "next"
  /\ job[a].deliveries >= MaxRetries

LEMMA DroppedJobs == JobsGiveUp <=> \A a \in AttachmentIds : Dropped(a) => a \in cut
BY DEF JobsGiveUp, Dropped, Pending

LEMMA WorkerGivesUp ==
  ASSUME Inv, \A a \in AttachmentIds : Dropped(a) => a \in cut, Worker,
         NEW a \in AttachmentIds, Dropped(a)'
  PROVE  a \in cut'
<1>1. WorkerInv /\ Sound
  BY DEF Inv, AttInv
<1>2. ASSUME NEW batch \in SUBSET AttachmentIds, Takes(batch) PROVE a \in cut'
  <2>1. /\ worker.pc \in {"reclaim", "read"} /\ worker'.batch = batch /\ Deliver(batch)
    BY <1>1, <1>2, TakesMoves
  <2>2. a \notin batch /\ job'[a] = job[a] /\ cut' = cut \ batch
    BY <1>1, <2>1, DeliverMoves DEF Dropped, Deliver
  <2>3. worker.batch = {} /\ worker.a = None /\ a # None
    BY <1>1, <2>1, FilesAssumption DEF WorkerInv
  <2>4. Dropped(a)
    BY <2>2, <2>3 DEF Dropped
  <2>5. QED
    BY <2>2, <2>4
<1>3. CASE Thinks
  <2>1. job' = job /\ cut' = cut
    BY <1>3, Zenon DEF Thinks, ReadFails, NextJob, ReadOriginal, JobFailed
  <2>2. a # None
    BY FilesAssumption
  <2>3. Dropped(a)
    <3>1. job[a].at = "pending" /\ job[a].deliveries >= MaxRetries
      BY <2>1 DEF Dropped
    <3>2. CASE /\ worker.pc \in {"read", "next"} /\ worker.batch = {}
      BY <1>1, <2>2, <3>1, <3>2 DEF Dropped, WorkerInv
    <3>3. CASE /\ worker.pc = "next" /\ worker'.pc = "get" /\ worker'.a \in worker.batch
               /\ worker'.batch = worker.batch \ {worker'.a}
      BY <3>1, <3>3 DEF Dropped
    <3>4. CASE /\ worker.pc = "get" /\ worker'.pc \in {"put", "failed", "ack"}
               /\ worker'.a = worker.a /\ worker'.batch = worker.batch
      BY <3>1, <3>4 DEF Dropped
    <3>5. CASE /\ worker.pc = "failed" /\ worker'.a = worker.a /\ worker'.batch = worker.batch
               /\ worker'.pc = "ack"
      BY <3>1, <3>5 DEF Dropped
    <3>6. CASE /\ worker.pc = "failed" /\ worker'.a = worker.a /\ worker'.batch = worker.batch
               /\ worker'.pc = "next" /\ ~(job[worker.a].deliveries >= MaxRetries)
      BY <3>1, <3>6 DEF Dropped
    <3>7. QED
      BY <1>1, <1>3, <3>2, <3>3, <3>4, <3>5, <3>6, ThinksMoves
  <2>4. QED
    BY <2>1, <2>3
<1>4. CASE SetThumbnailKey \/ \E result \in {"whole", "torn", "none"} : PutThumbnail(result)
  <2>1. job' = job /\ cut' = cut
    BY <1>4, Zenon DEF SetThumbnailKey, PutThumbnail
  <2>2. /\ worker.pc \in {"set", "put"} /\ worker'.pc \in {"ack", "set", "failed"}
        /\ worker'.a = worker.a /\ worker'.batch = worker.batch
    <3>1. ASSUME NEW result \in {"whole", "torn", "none"}, PutThumbnail(result) PROVE <2>2
      BY <1>1, <3>1, PutThumbnailMoves
    <3>2. CASE SetThumbnailKey
      BY <1>1, <3>2, SetThumbnailMoves
    <3>3. QED
      BY <1>4, <3>1, <3>2
  <2>3. QED
    BY <2>1, <2>2 DEF Dropped
<1>5. ASSUME NEW ok \in BOOLEAN, Ack(ok) PROVE a \in cut'
  <2>1. /\ worker'.a = worker.a /\ worker'.batch = worker.batch
        /\ \A b \in AttachmentIds : b # worker.a => job'[b] = job[b]
        /\ ok => job'[worker.a].at = "done" /\ cut' = cut
        /\ ~ok => job' = job /\ cut' = cut \cup {worker.a}
    BY <1>1, <1>5, AckMoves
  <2>2. CASE a = worker.a
    BY <2>1, <2>2 DEF Dropped
  <2>3. CASE a # worker.a
    <3>1. Dropped(a)
      BY <2>1, <2>3 DEF Dropped
    <3>2. QED
      BY <2>1, <3>1
  <2>4. QED
    BY <2>2, <2>3
<1>6. QED
  BY <1>2, <1>3, <1>4, <1>5, WorkerCases

\* Who else touches the stream
LEMMA StreamSteps ==
  ASSUME Next, ~Worker, \A torn \in SUBSET Writing : ~Crash(torn),
         \A c \in Calls, ok \in BOOLEAN : ~EnqueueThumbnail(c, ok)
  PROVE  UNCHANGED stream
<1>1. ASSUME NEW c \in Calls, NEW u \in Users, AttachmentRequests(c, u) PROVE UNCHANGED stream
  BY <1>1, Zenon DEF AttachmentRequests, Upload, SendWith
<1>2. ASSUME NEW c \in Calls, ImageRequests(c) PROVE UNCHANGED stream
  BY <1>2, Zenon DEF ImageRequests, UserAvatarRoutes, UserBannerRoutes, ServerIconRoutes,
                     ServerBannerRoutes, UploadImage, DeleteImage
<1>3. ASSUME NEW c \in Calls, EmojiRequests(c) PROVE UNCHANGED stream
  BY <1>3, Zenon DEF EmojiRequests, CreateEmoji, UpdateName, DeleteEmoji
<1>4. ASSUME NEW c \in Calls, Continue(c) PROVE UNCHANGED stream
  BY <1>4, Zenon DEF Continue, PutNew, Cleanup, DeleteOld, CreateAttachment, LinkToMessage,
                     WriteUserKey, WriteServerKey, StoreEmoji, RemoveEmoji, PublishEmojiUpdate,
                     EnqueueEmojiList
<1>5. ASSUME \/ \E a \in AttachmentIds : Age(a)
             \/ PurgeOrphans
             \/ \E k \in Keys, ok \in BOOLEAN : DeleteOrphan(k, ok)
             \/ \E u \in Users : DeleteUser(u)
      PROVE  UNCHANGED stream
  BY <1>5, Zenon DEF Age, PurgeOrphans, DeleteOrphan, DeleteUser
<1>6. QED
  BY <1>1, <1>2, <1>3, <1>4, <1>5, Zenon DEF Next

\* However deliveries fail, workers die and acknowledgements are lost, a job
\* is given up after MaxRetries deliveries (processJob), but for one whose
\* last delivery was cut short.
THEOREM JobsAreGivenUp == Spec => []JobsGiveUp
<1> DEFINE Given == \A a \in AttachmentIds : Dropped(a) => a \in cut
<1>1. Init => Given
  BY NoRows DEF Init, Dropped
<1>2. Inv /\ Given /\ [Next]_vars => Given'
  <2> SUFFICES ASSUME Inv, Given, [Next]_vars, NEW a \in AttachmentIds, Dropped(a)'
               PROVE  a \in cut'
    OBVIOUS
  <2>1. CASE Worker
    BY <2>1, WorkerGivesUp
  <2>2. ASSUME NEW torn \in SUBSET Writing, Crash(torn) PROVE a \in cut'
    <3>1. /\ job' = job
          /\ cut' = cut \cup worker.batch
                      \cup (IF worker.a = None \/ worker.pc = "next" THEN {} ELSE {worker.a})
      BY <2>2 DEF Crash
    <3>2. a # None
      BY FilesAssumption
    <3>3. CASE a \in worker.batch \/ (worker.a = a /\ worker.pc # "next")
      BY <3>1, <3>2, <3>3
    <3>4. CASE a \notin worker.batch /\ (worker.a = a => worker.pc = "next")
      <4>1. Dropped(a)
        BY <3>1, <3>4 DEF Dropped
      <4>2. QED
        BY <3>1, <4>1
    <3>5. QED
      BY <3>3, <3>4
  <2>3. ASSUME NEW c \in Calls, NEW ok \in BOOLEAN, EnqueueThumbnail(c, ok) PROVE a \in cut'
    <3>1. worker' = worker /\ cut' = cut
      BY <2>3 DEF EnqueueThumbnail
    <3>2. /\ call[c].kind = "upload" /\ call[c].arg \in AttachmentIds
          /\ \A b \in AttachmentIds : b # call[c].arg => job'[b] = job[b]
          /\ job'[call[c].arg].at \in {job[call[c].arg].at, "queued"}
      BY <2>3, EnqueueMoves DEF Inv
    <3>3. job[call[c].arg].at = "none"
      BY <3>2 DEF Inv, AttInv, AttachmentKeys
    <3>4. Dropped(a)
      BY <3>1, <3>2, <3>3 DEF Dropped
    <3>5. QED
      BY <3>1, <3>4
  <2>4. CASE UNCHANGED stream
    <3>1. Dropped(a) /\ cut' = cut
      BY <2>4 DEF stream, Dropped
    <3>2. QED
      BY <3>1
  <2>5. QED
    BY <2>1, <2>2, <2>3, <2>4, StreamSteps DEF vars
<1>3. Given => JobsGiveUp
  BY DroppedJobs
<1> HIDE DEF Given
<1>4. QED
  BY <1>1, <1>2, <1>3, FilesSound, PTL DEF Spec

-----------------------------------------------------------------------------
(* Messages and their attachments.                                         *)

\* A row that stays what it is for the message that has it
KeepsLink(a) == /\ attachment'[a].at = attachment[a].at
                /\ attachment'[a].post = attachment[a].post
                /\ attachment'[a].uploader = attachment[a].uploader

LEMMA PostsFramed ==
  ASSUME Sound, PostInv,
         \A p \in PostIds : post'[p].sent => post'[p] = post[p],
         \A p \in PostIds : post'[p].sent => \A a \in post[p].names :
            attachment[a].at = "live" /\ attachment[a].post = p
              /\ attachment[a].uploader = post[p].author => KeepsLink(a)
  PROVE  PostInv'
<1> SUFFICES ASSUME NEW p \in PostIds, post'[p].sent, NEW a \in post'[p].names
             PROVE  /\ attachment'[a].at = "live" /\ attachment'[a].post = p
                    /\ attachment'[a].uploader = post'[p].author
  BY DEF PostInv
<1>1. post'[p] = post[p]
  OBVIOUS
<1>2. attachment[a].at = "live" /\ attachment[a].post = p /\ attachment[a].uploader = post[p].author
  BY <1>1 DEF PostInv
<1>3. KeepsLink(a)
  BY <1>1, <1>2
<1>4. QED
  BY <1>1, <1>2, <1>3 DEF KeepsLink

\* Who touches the rows of attachments and messages
LEMMA PostSteps ==
  ASSUME Next, ~Worker, \A u \in Users : ~DeleteUser(u), ~PurgeOrphans,
         \A a \in AttachmentIds : ~Age(a),
         \A c \in Calls : ~CreateAttachment(c) /\ ~LinkToMessage(c),
         \A c \in Calls, u \in Users, p \in PostIds, names \in SUBSET workload.attachments :
           ~SendWith(c, u, p, names)
  PROVE  attachment' = attachment /\ post' = post
<1> DEFINE Same == attachment' = attachment /\ post' = post
<1>1. ASSUME NEW c \in Calls, NEW u \in Users, AttachmentRequests(c, u) PROVE Same
  BY <1>1, Zenon DEF AttachmentRequests, Upload, rows
<1>2. ASSUME NEW c \in Calls, ImageRequests(c) PROVE Same
  BY <1>2, Zenon DEF ImageRequests, UserAvatarRoutes, UserBannerRoutes, ServerIconRoutes,
                     ServerBannerRoutes, UploadImage, DeleteImage, rows
<1>3. ASSUME NEW c \in Calls, EmojiRequests(c) PROVE Same
  BY <1>3, Zenon DEF EmojiRequests, CreateEmoji, UpdateName, DeleteEmoji, rows
<1>4. ASSUME NEW c \in Calls, Continue(c) PROVE Same
  BY <1>4, Zenon DEF Continue, PutNew, Cleanup, DeleteOld, EnqueueThumbnail,
                     WriteUserKey, WriteServerKey, StoreEmoji, RemoveEmoji, PublishEmojiUpdate,
                     EnqueueEmojiList, rows
<1>5. ASSUME \/ \E k \in Keys, ok \in BOOLEAN : DeleteOrphan(k, ok)
             \/ \E torn \in SUBSET Writing : Crash(torn)
      PROVE  Same
  BY <1>5, Zenon DEF DeleteOrphan, Crash, rows
<1>6. QED
  BY <1>1, <1>2, <1>3, <1>4, <1>5, Zenon DEF Next

LEMMA PostStep ==
  ASSUME Inv, PostInv, [Next]_vars
  PROVE  PostInv'
<1>1. Sound /\ AttachmentKeys /\ WorkerInv /\ SlotsHoldImages
  BY ImageSlots DEF Inv, AttInv, ImgInv
<1>2. \A p \in PostIds : post[p].names \subseteq AttachmentIds
  BY <1>1 DEF Sound, TypeOK, Post
<1>3. \A a : attachment'[a] = attachment[a] => KeepsLink(a)
  BY DEF KeepsLink
<1>4. CASE attachment' = attachment /\ post' = post
  BY <1>1, <1>3, <1>4, PostsFramed
<1>5. CASE Worker
  <2>1. post' = post
    BY <1>5, Zenon DEF Worker, ReclaimStale, ReadJob, ReadFails, NextJob, SetThumbnailKey,
                       ReadOriginal, PutThumbnail, JobFailed, Ack, rows
  <2>2. CASE SetThumbnailKey
    <3>1. /\ \A b \in AttachmentIds : b # worker.a => attachment'[b] = attachment[b]
          /\ \/ attachment' = attachment
             \/ /\ attachment[worker.a].at = "live" /\ attachment'[worker.a].at = "live"
                /\ attachment'[worker.a].post = attachment[worker.a].post
                /\ attachment'[worker.a].uploader = attachment[worker.a].uploader
      BY <1>1, <2>2, SetThumbnailMoves
    <3>2. \A b \in AttachmentIds : KeepsLink(b)
      BY <3>1 DEF KeepsLink
    <3>3. QED
      BY <1>1, <1>2, <2>1, <3>2, PostsFramed
  <2>3. CASE ~SetThumbnailKey
    <3>1. attachment' = attachment
      BY <1>5, <2>3, Zenon DEF Worker, ReclaimStale, ReadJob, ReadFails, NextJob,
                       ReadOriginal, PutThumbnail, JobFailed, Ack, rows
    <3>2. QED
      BY <1>4, <2>1, <3>1
  <2>4. QED
    BY <2>2, <2>3
<1>6. ASSUME NEW u \in Users, DeleteUser(u) PROVE PostInv'
  <2>1. /\ \A a \in AttachmentIds :
             \/ attachment'[a] = attachment[a] /\ attachment[a].uploader # u
             \/ attachment[a].uploader = u
        /\ \A p \in PostIds : post'[p].sent => post'[p] = post[p] /\ post[p].author # u
    BY <1>1, <1>6, DeleteUserMoves
  <2>2. QED
    BY <1>1, <1>2, <1>3, <2>1, PostsFramed
<1>7. CASE PurgeOrphans
  <2>1. post' = post
    BY <1>7 DEF PurgeOrphans
  <2>2. PICK orphans \in SUBSET AttachmentIds :
          /\ \A a \in orphans : attachment[a].post = None
          /\ \A a \in AttachmentIds \ orphans : attachment'[a] = attachment[a]
    BY <1>1, <1>7, PurgeMoves
  <2>3. \A p \in PostIds : p # None
    BY FilesAssumption
  <2>4. QED
    BY <1>1, <1>2, <1>3, <2>1, <2>2, <2>3, PostsFramed
<1>8. ASSUME NEW a \in AttachmentIds, Age(a) PROVE PostInv'
  <2>1. post' = post
    BY <1>8 DEF Age
  <2>2. /\ Relinked(a, attachment[a].post)
        /\ \A b \in AttachmentIds : b # a => attachment'[b] = attachment[b]
    BY <1>1, <1>8, AgeMoves
  <2>3. \A b \in AttachmentIds : KeepsLink(b)
    BY <2>2 DEF Relinked, KeepsLink
  <2>4. QED
    BY <1>1, <1>2, <2>1, <2>3, PostsFramed
<1>9. ASSUME NEW c \in Calls, CreateAttachment(c) PROVE PostInv'
  <2>1. post' = post
    BY <1>9 DEF CreateAttachment
  <2>2. /\ call[c].kind = "upload" /\ call[c].pc = "row"
        /\ \A a \in AttachmentIds : a # call[c].arg => attachment'[a] = attachment[a]
    BY <1>1, <1>9, CreateAttachmentMoves
  <2>3. attachment[call[c].arg].at = "none"
    BY <1>1, <2>2 DEF AttachmentKeys, Unnamed
  <2>4. QED
    BY <1>1, <1>2, <1>3, <2>1, <2>2, <2>3, PostsFramed
<1>10. ASSUME NEW c \in Calls, LinkToMessage(c) PROVE PostInv'
  <2>1. PICK p \in PostIds, linked \in SUBSET AttachmentIds :
          /\ linked \subseteq post[p].names
          /\ \A a \in AttachmentIds \ linked : attachment'[a] = attachment[a]
          /\ \A a \in linked : /\ Relinked(a, p) /\ attachment[a].at = "live"
                               /\ attachment[a].post = None
                               /\ attachment[a].uploader = post[p].author
          /\ \A q \in PostIds : /\ q # p => post'[q] = post[q]
                                /\ post'[q].author = post[q].author
                                /\ post'[q].names = post[q].names
          /\ post'[p].sent => linked = post[p].names
    BY <1>1, <1>10, LinkMoves
  <2>2. SUFFICES ASSUME NEW q \in PostIds, post'[q].sent, NEW a \in post'[q].names
                 PROVE  /\ attachment'[a].at = "live" /\ attachment'[a].post = q
                        /\ attachment'[a].uploader = post'[q].author
    BY DEF PostInv
  <2>3. a \in AttachmentIds /\ a \in post[q].names /\ post'[q].author = post[q].author
    BY <1>2, <2>1, <2>2
  <2>4. CASE q = p
    BY <2>1, <2>2, <2>3, <2>4 DEF Relinked
  <2>5. CASE q # p
    <3>1. attachment[a].at = "live" /\ attachment[a].post = q /\ attachment[a].uploader = post[q].author
      BY <2>1, <2>2, <2>3, <2>5 DEF PostInv
    <3>2. a \notin linked
      BY <2>1, <3>1, FilesAssumption
    <3>3. QED
      BY <2>1, <2>3, <3>1, <3>2
  <2>6. QED
    BY <2>4, <2>5
<1>11. ASSUME NEW c \in Calls, NEW u \in Users, NEW p \in PostIds,
              NEW names \in SUBSET workload.attachments, SendWith(c, u, p, names)
       PROVE  PostInv'
  <2>1. attachment' = attachment
    BY <1>11 DEF SendWith
  <2>2. ~post'[p].sent /\ \A q \in PostIds : q # p => post'[q] = post[q]
    BY <1>1, <1>11, SendWithMoves
  <2>3. QED
    BY <1>1, <1>3, <2>1, <2>2, PostsFramed
<1>12. CASE UNCHANGED vars
  BY <1>4, <1>12 DEF vars, rows
<1>13. QED
  BY <1>4, <1>5, <1>6, <1>7, <1>8, <1>9, <1>10, <1>11, <1>12, PostSteps

\* A message that was sent keeps every attachment it was sent with: no other
\* request links one (LinkToMessage takes free ones of the author only) and no
\* purge removes one, while its author has an account.
THEOREM SentAttachmentsStay == Spec => []SentMessagesKeepAttachments
<1>1. Init => PostInv
  BY NoRows DEF Init, PostInv
<1>2. Inv /\ PostInv /\ [Next]_vars => PostInv'
  BY PostStep
<1>3. PostInv => SentMessagesKeepAttachments
  BY DEF PostInv, SentMessagesKeepAttachments
<1>4. QED
  BY <1>1, <1>2, <1>3, FilesSound, PTL DEF Spec

-----------------------------------------------------------------------------
(* The list of emoji, and its limit.                                       *)

\* A call that has changed the list and has not told yet
Announcing(c) == call[c].kind \in EmojiKinds /\ call[c].pc \in {"delete_old", "list", "tell"}

\* A call that was let past the limit and has no row yet
Counts(c) == call[c].kind = "create_emoji" /\ call[c].pc \in {"put", "row"}

\* A step that has nothing to do with the list
EmojiQuiet ==
  /\ emoji' = emoji /\ told' = told /\ newest' = newest /\ untold' = untold
  /\ \A d \in Calls : \/ call'[d] = call[d]
                      \/ ~Announcing(d) /\ ~Announcing(d)' /\ (Counts(d)' => Counts(d))

LEMMA QuietMoves ==
  ASSUME emoji' = emoji, told' = told, newest' = newest, untold' = untold, NEW c \in Calls, Moves(c),
         call[c].kind \notin EmojiKinds, call'[c].kind \notin EmojiKinds
  PROVE  EmojiQuiet
BY DEF EmojiQuiet, Moves, Announcing, Counts, EmojiKinds

\* The uploads of files other than emoji, and their removals
LEMMA QuietCalls ==
  ASSUME Inv, NEW c \in Calls,
         \/ \E u \in Users : AttachmentRequests(c, u)
         \/ CreateAttachment(c) \/ LinkToMessage(c) \/ ImageRequests(c) \/ WriteKey(c)
         \/ \E ok \in BOOLEAN : \/ EnqueueThumbnail(c, ok)
                                \/ DeleteOld(c, ok) /\ call[c].kind # "delete_emoji"
  PROVE  EmojiQuiet
<1> USE NoRows DEF EmojiKinds
<1>1. Sound /\ ImageKeys
  BY DEF Inv, ImgInv
<1>2. ASSUME NEW u \in Users, NEW a \in AttachmentIds, Upload(c, u, a) PROVE EmojiQuiet
  <2>1. Moves(c) /\ call[c].kind = "none" /\ call'[c].kind = "upload"
    BY <1>1, <1>2, UploadMoves
  <2>2. emoji' = emoji /\ told' = told /\ newest' = newest /\ untold' = untold
    BY <1>2 DEF Upload, rows, list
  <2>3. QED
    BY <2>1, <2>2, QuietMoves
<1>3. ASSUME NEW u \in Users, NEW p \in PostIds, NEW names \in SUBSET workload.attachments,
             SendWith(c, u, p, names)
      PROVE  EmojiQuiet
  <2>1. Moves(c) /\ call[c].kind = "none" /\ call'[c].kind = "post"
    BY <1>1, <1>3, SendWithMoves
  <2>2. emoji' = emoji /\ told' = told /\ newest' = newest /\ untold' = untold
    BY <1>3 DEF SendWith, list
  <2>3. QED
    BY <2>1, <2>2, QuietMoves
<1>4. CASE CreateAttachment(c)
  <2>1. Moves(c) /\ call[c].kind = "upload" /\ call'[c].kind = "upload"
    BY <1>1, <1>4, CreateAttachmentMoves
  <2>2. emoji' = emoji /\ told' = told /\ newest' = newest /\ untold' = untold
    BY <1>4 DEF CreateAttachment, list
  <2>3. QED
    BY <2>1, <2>2, QuietMoves
<1>5. CASE LinkToMessage(c)
  <2>1. Moves(c) /\ call[c].kind = "post" /\ call'[c] = NoCall
    BY <1>1, <1>5, LinkMoves
  <2>2. emoji' = emoji /\ told' = told /\ newest' = newest /\ untold' = untold
    BY <1>5 DEF LinkToMessage, list
  <2>3. QED
    BY <2>1, <2>2, QuietMoves
<1>6. ASSUME NEW ok \in BOOLEAN, EnqueueThumbnail(c, ok) PROVE EmojiQuiet
  <2>1. Moves(c) /\ call[c].kind = "upload" /\ call'[c] = NoCall
    BY <1>1, <1>6, EnqueueMoves
  <2>2. emoji' = emoji /\ told' = told /\ newest' = newest /\ untold' = untold
    BY <1>6 DEF EnqueueThumbnail, rows, list
  <2>3. QED
    BY <2>1, <2>2, QuietMoves
<1>7. ASSUME NEW ok \in BOOLEAN, DeleteOld(c, ok), call[c].kind # "delete_emoji" PROVE EmojiQuiet
  <2>1. /\ Moves(c) /\ call[c].kind \in {"upload_image", "delete_image", "delete_emoji"}
        /\ call'[c] = NoCall
    BY <1>1, <1>7, DeleteOldMoves
  <2>2. emoji' = emoji /\ told' = told /\ newest' = newest /\ untold' = untold
    BY <1>7 DEF DeleteOld, rows, list
  <2>3. QED
    BY <1>7, <2>1, <2>2, QuietMoves
<1>8. ASSUME NEW s \in Slots, NEW i \in ImageIds, UploadImage(c, s, i) PROVE EmojiQuiet
  <2>1. Moves(c) /\ call[c].kind = "none" /\ call'[c].kind = "upload_image"
    BY <1>1, <1>8, UploadImageMoves
  <2>2. emoji' = emoji /\ told' = told /\ newest' = newest /\ untold' = untold
    BY <1>8 DEF UploadImage, rows, list
  <2>3. QED
    BY <2>1, <2>2, QuietMoves
<1>9. ASSUME NEW s \in Slots, DeleteImage(c, s) PROVE EmojiQuiet
  <2>1. Moves(c) /\ call[c].kind = "none" /\ call'[c].kind = "delete_image"
    BY <1>1, <1>9, DeleteImageMoves
  <2>2. emoji' = emoji /\ told' = told /\ newest' = newest /\ untold' = untold
    BY <1>9 DEF DeleteImage, rows, list
  <2>3. QED
    BY <2>1, <2>2, QuietMoves
<1>10. CASE WriteKey(c)
  <2>1. /\ Moves(c) /\ call[c].kind \in ImageKinds
        /\ call'[c].kind \in ImageKinds \cup {"none"}
    BY <1>1, <1>10, WriteKeyMoves DEF ImageKinds
  <2>2. emoji' = emoji /\ told' = told /\ newest' = newest /\ untold' = untold
    BY <1>10 DEF WriteKey, WriteUserKey, WriteServerKey, list
  <2>3. QED
    BY <2>1, <2>2, QuietMoves DEF ImageKinds
<1>11. ASSUME ImageRequests(c) PROVE EmojiQuiet
  <2>1. /\ \A u \in Users : <<"avatar", u>> \in Slots /\ <<"banner", u>> \in Slots
        /\ <<"icon", None>> \in Slots /\ <<"server_banner", None>> \in Slots
    BY DEF Slots
  <2>2. QED
    BY <1>8, <1>9, <1>11, <2>1 DEF ImageRequests, UserAvatarRoutes, UserBannerRoutes,
                                   ServerIconRoutes, ServerBannerRoutes
<1>12. QED
  BY <1>2, <1>3, <1>4, <1>5, <1>6, <1>7, <1>10, <1>11 DEF AttachmentRequests

\* An upload under way, emoji included, changes no list.
LEMMA QuietFiles ==
  ASSUME Inv, NEW c \in Calls, NEW ok \in BOOLEAN, NEW result \in {"whole", "torn", "none"},
         PutNew(c, result) \/ Cleanup(c, ok)
  PROVE  EmojiQuiet
<1>1. emoji' = emoji /\ told' = told /\ newest' = newest /\ untold' = untold
  BY DEF PutNew, Cleanup, rows, list
<1>2. /\ Moves(c) /\ call[c].pc \in {"put", "cleanup"}
      /\ \/ call'[c] = NoCall
         \/ call'[c].kind = call[c].kind /\ call[c].pc = "put" /\ call'[c].pc = "row"
  <2>1. CASE PutNew(c, result)
    BY <2>1, PutNewMoves DEF Inv
  <2>2. CASE Cleanup(c, ok)
    BY <2>2, CleanupMoves DEF Inv
  <2>3. QED
    BY <2>1, <2>2
<1>3. ~Announcing(c) /\ ~Announcing(c)' /\ (Counts(c)' => Counts(c))
  BY <1>2, NoRows DEF Announcing, Counts, EmojiKinds
<1>4. QED
  BY <1>1, <1>2, <1>3 DEF EmojiQuiet, Moves

\* A request or its continuation that is about emoji
EmojiStep(c) ==
  \/ EmojiRequests(c) \/ StoreEmoji(c) \/ RemoveEmoji(c)
  \/ (\E ok \in BOOLEAN : PublishEmojiUpdate(c, ok)) \/ EnqueueEmojiList(c)
  \/ \E ok \in BOOLEAN : DeleteOld(c, ok) /\ call[c].kind = "delete_emoji"

LEMMA ListCases ==
  ASSUME Inv, [Next]_vars
  PROVE  \/ EmojiQuiet
         \/ \E c \in Calls : EmojiStep(c)
         \/ \E u \in Users : DeleteUser(u)
         \/ \E torn \in SUBSET Writing : Crash(torn)
<1>1. ASSUME NEW c \in Calls, NEW u \in Users, AttachmentRequests(c, u) PROVE EmojiQuiet
  BY <1>1, QuietCalls
<1>2. ASSUME NEW c \in Calls, ImageRequests(c) PROVE EmojiQuiet
  BY <1>2, QuietCalls
<1>3. ASSUME NEW c \in Calls, Continue(c) PROVE EmojiQuiet \/ EmojiStep(c)
  <2>1. ASSUME NEW ok \in BOOLEAN, NEW result \in {"whole", "torn", "none"},
               PutNew(c, result) \/ Cleanup(c, ok)
        PROVE  EmojiQuiet
    BY <2>1, QuietFiles
  <2>2. ASSUME NEW ok \in BOOLEAN, DeleteOld(c, ok) PROVE EmojiQuiet \/ EmojiStep(c)
    BY <2>2, QuietCalls DEF EmojiStep
  <2>3. ASSUME NEW ok \in BOOLEAN, EnqueueThumbnail(c, ok) PROVE EmojiQuiet
    BY <2>3, QuietCalls
  <2>4. CASE CreateAttachment(c) \/ LinkToMessage(c) \/ WriteUserKey(c) \/ WriteServerKey(c)
    BY <2>4, QuietCalls DEF WriteKey
  <2>5. CASE \/ StoreEmoji(c) \/ RemoveEmoji(c) \/ EnqueueEmojiList(c)
             \/ \E ok \in BOOLEAN : PublishEmojiUpdate(c, ok)
    BY <2>5 DEF EmojiStep
  <2>6. QED
    BY <1>3, <2>1, <2>2, <2>3, <2>4, <2>5 DEF Continue
<1>4. CASE Worker
  BY <1>4, Zenon DEF Worker, ReclaimStale, ReadJob, ReadFails, NextJob, SetThumbnailKey,
                     ReadOriginal, PutThumbnail, JobFailed, Ack, rows, list, EmojiQuiet
<1>5. CASE \/ \E a \in AttachmentIds : Age(a)
           \/ PurgeOrphans
           \/ \E k \in Keys, ok \in BOOLEAN : DeleteOrphan(k, ok)
  BY <1>5, Zenon DEF Age, PurgeOrphans, DeleteOrphan, rows, list, EmojiQuiet
<1>6. CASE UNCHANGED vars
  BY <1>6, Zenon DEF vars, rows, list, EmojiQuiet
<1>7. \A c \in Calls : EmojiRequests(c) => EmojiStep(c)
  BY DEF EmojiStep
<1>8. QED
  BY <1>1, <1>2, <1>3, <1>4, <1>5, <1>6, <1>7 DEF Next

Telling == \A c \in Calls : call[c].pc = "tell" => call[c].kind \in EmojiKinds

LEMMA TellingCalls == Sound => Telling
<1> SUFFICES ASSUME Sound, NEW c \in Calls, call[c].pc = "tell" PROVE call[c].kind \in EmojiKinds
  BY DEF Telling
<1>1. call[c].kind \in Kinds /\ Carries(c)
  BY DEF Sound, TypeOK, Call
<1>2. QED
  BY <1>1 DEF Carries, Kinds, EmojiKinds, Unnamed

\* Requests move to where they will tell, or have read the list as it is.
LEMMA ListQuiet ==
  ASSUME Sound, Sound', ListInv, EmojiQuiet
  PROVE  ListInv'
<1>1. \A d \in Calls : Announcing(d) \/ Announcing(d)' => call'[d] = call[d]
  BY DEF EmojiQuiet
<1>2. \A d \in Calls : /\ call[d].pc = "tell" => Announcing(d)
                       /\ call'[d].pc = "tell" => Announcing(d)'
  <2>1. (Sound => Telling) /\ (Sound => Telling)'
    BY TellingCalls, PTL
  <2>2. QED
    BY <2>1 DEF Telling, Announcing
<1>3. \A d \in Calls : call[d].kind \in EmojiKinds /\ call[d].pc \in {"delete_old", "list"} => Announcing(d)
  BY DEF Announcing
<1>4. QED
  BY <1>1, <1>2, <1>3 DEF ListInv, EmojiQuiet, At

LEMMA ListStep ==
  ASSUME Inv, Inv', ListInv, [Next]_vars
  PROVE  ListInv'
<1>1. Sound /\ Sound' /\ SlotsHoldImages
  BY ImageSlots DEF Inv, ImgInv
<1>2. ASSUME NEW c \in Calls, call'[c].kind \in EmojiKinds, call'[c].pc \in {"delete_old", "list"}
      PROVE  ListInv'
  BY <1>2 DEF ListInv
<1>3. ASSUME NEW u \in Users, DeleteUser(u) PROVE ListInv'
  <2>1. call' = call /\ told' = told /\ newest' = newest /\ untold' = (untold \/ emoji' # emoji)
    BY <1>1, <1>3, DeleteUserMoves DEF DeleteUser
  <2>2. CASE emoji' # emoji
    BY <2>1, <2>2 DEF ListInv
  <2>3. CASE emoji' = emoji
    <3>1. untold => untold'
      BY <2>1
    <3>2. QED
      BY <2>1, <2>3, <3>1 DEF ListInv, At
  <2>4. QED
    BY <2>2, <2>3
<1>4. ASSUME NEW torn \in SUBSET Writing, Crash(torn) PROVE ListInv'
  <2>1. /\ emoji' = emoji /\ told' = told /\ newest' = None
        /\ untold' = (untold \/ \E c \in Calls : Announcing(c))
    BY <1>4 DEF Crash, rows, Announcing
  <2>2. CASE untold \/ \E c \in Calls : Announcing(c)
    BY <2>1, <2>2 DEF ListInv
  <2>3. CASE ~untold /\ \A c \in Calls : ~Announcing(c)
    <3>1. ~(newest \in Calls /\ At(newest, "tell"))
      BY <1>1, <2>3, TellingCalls DEF Telling, Announcing, At
    <3>2. QED
      BY <2>1, <2>3, <3>1 DEF ListInv, Announcing
  <2>4. QED
    BY <2>2, <2>3
<1>5. ASSUME NEW c \in Calls, EmojiStep(c) PROVE ListInv'
  <2>1. ASSUME NEW u \in Users, NEW name \in Names, NEW e \in EmojiIds, CreateEmoji(c, u, name, e)
        PROVE  ListInv'
    <3>1. /\ Moves(c) /\ call[c].kind = "none" /\ call'[c].pc = "put"
      BY <1>1, <2>1, CreateEmojiMoves
    <3>2. emoji' = emoji /\ told' = told /\ newest' = newest /\ untold' = untold
      BY <2>1 DEF CreateEmoji, rows, list
    <3>3. \A d \in Calls : call'[d] # call[d] => d = c
      BY <3>1 DEF Moves
    <3>4. ~(call[c].kind \in EmojiKinds) /\ call[c].pc # "tell"
      BY <1>1, <3>1 DEF EmojiKinds, Sound, Carries
    <3>5. QED
      BY <3>1, <3>2, <3>3, <3>4 DEF ListInv, At
  <2>2. ASSUME NEW e \in EmojiIds, NEW name \in Names, UpdateName(c, e, name) PROVE ListInv'
    BY <1>1, <1>2, <2>2, UpdateNameMoves DEF EmojiKinds
  <2>3. ASSUME NEW e \in EmojiIds, DeleteEmoji(c, e) PROVE ListInv'
    <3>1. /\ Moves(c) /\ call[c].kind = "none" /\ call'[c].pc = "row"
      BY <1>1, <2>3, DeleteEmojiMoves
    <3>2. emoji' = emoji /\ told' = told /\ newest' = newest /\ untold' = untold
      BY <2>3 DEF DeleteEmoji, rows, list
    <3>3. \A d \in Calls : call'[d] # call[d] => d = c
      BY <3>1 DEF Moves
    <3>4. ~(call[c].kind \in EmojiKinds) /\ call[c].pc # "tell"
      BY <1>1, <3>1 DEF EmojiKinds, Sound, Carries
    <3>5. QED
      BY <3>1, <3>2, <3>3, <3>4 DEF ListInv, At
  <2>4. CASE StoreEmoji(c)
    <3>1. /\ Moves(c) /\ call[c].pc = "row" /\ call'[c].kind = "create_emoji"
          /\ (emoji' = emoji /\ call'[c].pc = "cleanup") \/ call'[c].pc = "list"
      BY <1>1, <2>4, StoreEmojiMoves
    <3>2. told' = told /\ newest' = newest /\ untold' = untold
      BY <2>4 DEF StoreEmoji, list
    <3>3. \A d \in Calls : call'[d] # call[d] => d = c
      BY <3>1 DEF Moves
    <3>4. CASE emoji' = emoji /\ call'[c].pc = "cleanup"
      BY <3>1, <3>2, <3>3, <3>4 DEF ListInv, At
    <3>5. QED
      BY <1>2, <3>1, <3>4 DEF EmojiKinds
  <2>5. CASE RemoveEmoji(c)
    <3>1. /\ Moves(c) /\ call[c].pc = "row" /\ call[c].arg \in EmojiIds
          /\ emoji'[call[c].arg] = NoEmoji
          /\ \A f \in EmojiIds : f # call[c].arg => emoji'[f] = emoji[f]
          /\ emoji[call[c].arg] = NoEmoji => call'[c] = NoCall
          /\ emoji[call[c].arg] # NoEmoji => call'[c].kind = "delete_emoji" /\ call'[c].pc = "delete_old"
      BY <1>1, <2>5, RemoveEmojiMoves
    <3>2. told' = told /\ newest' = newest /\ untold' = untold
      BY <2>5 DEF RemoveEmoji, list
    <3>3. \A d \in Calls : call'[d] # call[d] => d = c
      BY <3>1 DEF Moves
    <3>4. CASE emoji[call[c].arg] = NoEmoji
      <4>1. emoji' = emoji
        BY <1>1, <3>1, <3>4 DEF Sound, TypeOK
      <4>2. QED
        BY <3>1, <3>2, <3>3, <3>4, <4>1, NoRows DEF ListInv, At
    <3>5. QED
      BY <1>2, <3>1, <3>4 DEF EmojiKinds
  <2>6. ASSUME NEW ok \in BOOLEAN, PublishEmojiUpdate(c, ok) PROVE ListInv'
    <3>1. /\ ok => call'[c].pc = "tell" /\ call'[c].copy = emoji /\ newest' = c
          /\ ~ok => untold'
      BY <1>1, <2>6, PublishMoves
    <3>2. emoji' = emoji
      BY <2>6 DEF PublishEmojiUpdate, rows
    <3>3. QED
      BY <3>1, <3>2 DEF ListInv, At
  <2>7. CASE EnqueueEmojiList(c)
    <3>1. Moves(c) /\ call[c].pc = "tell" /\ call'[c] = NoCall /\ c # None
      BY <1>1, <2>7, TellMoves, FilesAssumption
    <3>2. /\ emoji' = emoji /\ told' = call[c].copy
          /\ newest' = IF newest = c THEN None ELSE newest
          /\ untold' = (untold \/ (newest = None /\ call[c].copy # told))
      BY <2>7 DEF EnqueueEmojiList, rows
    <3>3. CASE untold
      BY <3>2, <3>3 DEF ListInv
    <3>4. CASE \E d \in Calls : call[d].kind \in EmojiKinds /\ call[d].pc \in {"delete_old", "list"}
      BY <3>1, <3>4 DEF ListInv, Moves
    <3>5. CASE newest \in Calls /\ At(newest, "tell") /\ call[newest].copy = emoji
      <4>1. CASE newest = c
        BY <3>2, <3>5, <4>1 DEF ListInv
      <4>2. CASE newest # c
        BY <3>1, <3>2, <3>5, <4>2 DEF ListInv, At, Moves
      <4>3. QED
        BY <4>1, <4>2
    <3>6. CASE newest = None /\ told = emoji
      BY <3>1, <3>2, <3>6 DEF ListInv
    <3>7. QED
      BY <3>3, <3>4, <3>5, <3>6 DEF ListInv
  <2>8. ASSUME NEW ok \in BOOLEAN, DeleteOld(c, ok), call[c].kind = "delete_emoji" PROVE ListInv'
    BY <1>1, <1>2, <2>8, DeleteOldMoves DEF EmojiKinds
  <2>9. QED
    BY <1>5, <2>1, <2>2, <2>3, <2>4, <2>5, <2>6, <2>7, <2>8 DEF EmojiStep, EmojiRequests
<1>6. QED
  BY <1>1, <1>3, <1>4, <1>5, ListCases, ListQuiet

\* When no emoji request is under way the list last enqueued is the stored one,
\* unless since the last read of it that succeeded a List failed, a user's emoji
\* went with the account, the process died in between or a list read earlier was
\* enqueued later: publishEmojiUpdate reads the list after the change it announces.
THEOREM EmojiListIsTold == Spec => []EmojiListFollows
<1>1. Init => ListInv
  BY NoRows DEF Init, ListInv, At
<1>2. Inv /\ Inv' /\ ListInv /\ [Next]_vars => ListInv'
  BY ListStep
<1>3. Inv /\ ListInv => EmojiListFollows
  BY TellingCalls DEF Inv, ListInv, EmojiListFollows, At, EmojiKinds, Telling
<1>4. QED
  BY <1>1, <1>2, <1>3, FilesSound, PTL DEF Spec

\* The requests EmojiOverrunBounded counts
Counted == {c \in Calls : Counts(c)}

Overrun == Cardinality(EmojiRows) + Cardinality(Counted) < EmojiLimit + Cardinality(Calls)

LEMMA OverrunIs == Overrun <=> EmojiOverrunBounded
BY DEF Overrun, EmojiOverrunBounded, Counted, Counts

Finite == /\ IsFiniteSet(EmojiRows) /\ Cardinality(EmojiRows) \in Nat
          /\ IsFiniteSet(Counted) /\ Cardinality(Counted) \in Nat
          /\ Cardinality(Counted) <= Cardinality(Calls)
          /\ Cardinality(Calls) \in Nat

LEMMA FiniteSizes == Finite
<1>1. IsFiniteSet(EmojiIds) /\ IsFiniteSet(Calls)
  BY FilesAssumption
<1>2. EmojiRows \subseteq EmojiIds /\ Counted \subseteq Calls
  BY DEF EmojiRows, Counted
<1>3. /\ IsFiniteSet(EmojiRows) /\ IsFiniteSet(Counted)
      /\ Cardinality(Counted) <= Cardinality(Calls)
  BY <1>1, <1>2, FS_Subset
<1>4. QED
  BY <1>1, <1>3, FS_CardinalityType DEF Finite

\* Rows go and calls stop counting, and nothing else.
LEMMA OverrunShrinks ==
  ASSUME Finite, Finite', Overrun,
         \A e \in EmojiIds : emoji'[e] # NoEmoji => emoji[e] # NoEmoji,
         \A c \in Calls : Counts(c)' => Counts(c)
  PROVE  Overrun'
<1>1. EmojiRows' \subseteq EmojiRows /\ Counted' \subseteq Counted
  BY DEF EmojiRows, Counted
<1>2. /\ Cardinality(EmojiRows') <= Cardinality(EmojiRows)
      /\ Cardinality(Counted') <= Cardinality(Counted)
  BY <1>1, FS_Subset DEF Finite
<1>3. EmojiLimit \in Nat
  BY FilesAssumption
<1>4. QED
  BY <1>2, <1>3 DEF Finite, Overrun

LEMMA OverrunStep ==
  ASSUME Inv, Overrun, [Next]_vars
  PROVE  Overrun'
<1>1. Sound /\ SlotsHoldImages
  BY ImageSlots DEF Inv, ImgInv
<1>2. Finite /\ Finite' /\ EmojiLimit \in Nat
  <2>1. Finite /\ Finite'
    BY FiniteSizes, PTL
  <2>2. QED
    BY <2>1, FilesAssumption
<1>3. CASE EmojiQuiet
  BY <1>2, <1>3, OverrunShrinks DEF EmojiQuiet, Counts
<1>4. ASSUME NEW u \in Users, DeleteUser(u) PROVE Overrun'
  <2>1. call' = call /\ \A e \in EmojiIds : emoji'[e] \in {emoji[e], NoEmoji}
    BY <1>1, <1>4, DeleteUserMoves
  <2>2. QED
    BY <1>2, <2>1, OverrunShrinks DEF Counts
<1>5. ASSUME NEW torn \in SUBSET Writing, Crash(torn) PROVE Overrun'
  <2>1. emoji' = emoji /\ \A c \in Calls : call'[c].kind = "none"
    BY <1>1, <1>5, CrashMoves, NoRows DEF Crash, rows
  <2>2. QED
    BY <1>2, <2>1, OverrunShrinks DEF Counts
<1>6. ASSUME NEW c \in Calls, EmojiStep(c) PROVE Overrun'
  <2>1. ASSUME NEW u \in Users, NEW name \in Names, NEW e \in EmojiIds, CreateEmoji(c, u, name, e)
        PROVE  Overrun'
    <3>1. Cardinality(EmojiRows) < EmojiLimit /\ emoji' = emoji
      BY <2>1 DEF CreateEmoji, rows
    <3>2. EmojiRows' = EmojiRows
      BY <3>1 DEF EmojiRows
    <3>3. QED
      BY <1>2, <3>1, <3>2 DEF Finite, Overrun
  <2>2. ASSUME Moves(c), ~Counts(c)', \A e \in EmojiIds : emoji'[e] # NoEmoji => emoji[e] # NoEmoji
        PROVE  Overrun'
    <3>1. \A d \in Calls : Counts(d)' => Counts(d)
      BY <2>2 DEF Moves, Counts
    <3>2. QED
      BY <1>2, <2>2, <3>1, OverrunShrinks
  <2>3. ASSUME NEW e \in EmojiIds, NEW name \in Names, UpdateName(c, e, name) PROVE Overrun'
    BY <1>1, <2>2, <2>3, UpdateNameMoves DEF Counts
  <2>4. ASSUME NEW e \in EmojiIds, DeleteEmoji(c, e) PROVE Overrun'
    <3>1. emoji' = emoji
      BY <2>4 DEF DeleteEmoji, rows
    <3>2. QED
      BY <1>1, <2>2, <2>4, <3>1, DeleteEmojiMoves DEF Counts
  <2>5. CASE StoreEmoji(c)
    <3>1. PICK e \in EmojiIds :
            /\ Moves(c) /\ Counts(c) /\ ~Counts(c)'
            /\ emoji' = emoji \/ \A f \in EmojiIds : f # e => emoji'[f] = emoji[f]
      BY <1>1, <2>5, StoreEmojiMoves DEF Counts
    <3>2. CASE emoji' = emoji
      BY <2>2, <3>1, <3>2
    <3>3. CASE emoji' # emoji
      <4>1. EmojiRows' \subseteq EmojiRows \cup {e}
        BY <3>1, <3>3 DEF EmojiRows
      <4>2. Counted' \subseteq Counted \ {c} /\ c \in Counted
        BY <3>1 DEF Counted, Moves, Counts
      <4>3. /\ IsFiniteSet(EmojiRows \cup {e})
            /\ Cardinality(EmojiRows \cup {e}) \in Nat
            /\ Cardinality(EmojiRows \cup {e}) <= Cardinality(EmojiRows) + 1
        <5>1. /\ IsFiniteSet(EmojiRows \cup {e})
              /\ Cardinality(EmojiRows \cup {e}) =
                   IF e \in EmojiRows THEN Cardinality(EmojiRows) ELSE Cardinality(EmojiRows) + 1
          BY <1>2, FS_AddElement DEF Finite
        <5>2. QED
          BY <1>2, <5>1 DEF Finite
      <4>4. Cardinality(EmojiRows') <= Cardinality(EmojiRows \cup {e})
        BY <4>1, <4>3, FS_Subset
      <4>5. IsFiniteSet(Counted \ {c}) /\ Cardinality(Counted \ {c}) = Cardinality(Counted) - 1
        BY <1>2, <4>2, FS_RemoveElement DEF Finite
      <4>6. Cardinality(Counted') <= Cardinality(Counted \ {c})
        BY <4>2, <4>5, FS_Subset
      <4>7. QED
        BY <1>2, <4>3, <4>4, <4>5, <4>6 DEF Finite, Overrun
    <3>4. QED
      BY <3>2, <3>3
  <2>6. CASE RemoveEmoji(c)
    <3>1. /\ Moves(c)
          /\ call'[c] = NoCall \/ call'[c].pc = "delete_old"
          /\ emoji'[call[c].arg] = NoEmoji
          /\ \A f \in EmojiIds : f # call[c].arg => emoji'[f] = emoji[f]
      BY <1>1, <2>6, RemoveEmojiMoves
    <3>2. QED
      BY <2>2, <3>1, NoRows DEF Counts
  <2>7. ASSUME NEW ok \in BOOLEAN, PublishEmojiUpdate(c, ok) PROVE Overrun'
    <3>1. emoji' = emoji
      BY <2>7 DEF PublishEmojiUpdate, rows
    <3>2. ~Counts(c)'
      BY <1>1, <2>7, PublishMoves, NoRows DEF Counts
    <3>3. QED
      BY <1>1, <2>2, <2>7, <3>1, <3>2, PublishMoves
  <2>8. CASE EnqueueEmojiList(c)
    <3>1. emoji' = emoji
      BY <2>8 DEF EnqueueEmojiList, rows
    <3>2. QED
      BY <1>1, <2>2, <2>8, <3>1, TellMoves, NoRows DEF Counts
  <2>9. ASSUME NEW ok \in BOOLEAN, DeleteOld(c, ok), call[c].kind = "delete_emoji" PROVE Overrun'
    <3>1. emoji' = emoji
      BY <2>9 DEF DeleteOld, rows
    <3>2. QED
      BY <1>1, <2>2, <2>9, <3>1, DeleteOldMoves DEF Counts
  <2>10. QED
    BY <1>6, <2>1, <2>3, <2>4, <2>5, <2>6, <2>7, <2>8, <2>9 DEF EmojiStep, EmojiRequests
<1>7. QED
  BY <1>3, <1>4, <1>5, <1>6, ListCases

\* CreateEmoji counts before it stores, so requests that count together may
\* pass the limit together, by their number less one and never by more.
THEOREM EmojiOverrunIsBounded == Spec => []EmojiOverrunBounded
<1>1. Init => Overrun
  <2> SUFFICES ASSUME Init PROVE Overrun
    OBVIOUS
  <2>1. EmojiRows = {}
    BY DEF Init, EmojiRows
  <2>2. Counted = {}
    BY NoRows DEF Init, Counted, Counts
  <2>3. Cardinality(EmojiRows) = 0 /\ Cardinality(Counted) = 0
    BY <2>1, <2>2, FS_EmptySet
  <2>4. QED
    BY <2>3, FiniteSizes, FilesAssumption DEF Overrun, Finite
<1>2. Inv /\ Overrun /\ [Next]_vars => Overrun'
  BY OverrunStep
<1>3. QED
  BY <1>1, <1>2, FilesSound, OverrunIs, PTL DEF Spec

=============================================================================
