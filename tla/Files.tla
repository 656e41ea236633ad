------------------------------- MODULE Files ---------------------------------
(***************************************************************************)
(* Stored files and the rows that name them: attachments with their        *)
(* thumbnail jobs and orphan purge (internal/attachment, internal/media,   *)
(* cmd/uncord/main.go), avatars, banners and icons (api/image_upload.go),  *)
(* custom emoji (internal/emoji).                                          *)
(*                                                                         *)
(* No transaction spans the database, the storage and the Valkey stream: a *)
(* call is a request in progress and every access to one of the three is a *)
(* step.  The process may die between any two steps.  Storage calls fail,  *)
(* and so does the read of the emoji list; other database calls do only    *)
(* when a constraint or a missing row makes them.                          *)
(* Validation and resizing of what is uploaded are left out, and so are    *)
(* channels: all attachments are of one that stays.                        *)
(***************************************************************************)
EXTENDS Naturals, FiniteSets

CONSTANTS
  Users,
  AttachmentIds, ImageIds, EmojiIds, PostIds,
  Names,        \* emoji names
  EmojiLimit,   \* MaxEmoji of the configuration
  MaxRetries,   \* maxRetries of the thumbnail worker
  MaxFaults,    \* bound: times the process dies or an XACK is lost
  Calls,        \* requests in flight together
  Workloads,    \* mixes explored: request kinds, image slots and attachments
  None

\* Storage keys hold a random id; a thumbnail's is made from its attachment's.
Original(a) == <<"original", a>>
Thumbnail(a) == <<"thumbnail", a>>
Image(i) == <<"image", i>>
Emoji(e) == <<"emoji", e>>
Keys == {Original(a) : a \in AttachmentIds} \cup {Thumbnail(a) : a \in AttachmentIds}
          \cup {Image(i) : i \in ImageIds} \cup {Emoji(e) : e \in EmojiIds}

\* The columns that name an image: two of each user, two of the server.
Slots == ({"avatar", "banner"} \X Users) \cup ({"icon", "server_banner"} \X {None})

ASSUME FilesAssumption ==
  /\ EmojiLimit \in Nat \ {0} /\ MaxRetries \in Nat \ {0} /\ MaxFaults \in Nat
  /\ IsFiniteSet(EmojiIds) /\ IsFiniteSet(Calls)
  /\ None \notin Users \cup AttachmentIds \cup PostIds \cup Names \cup Keys \cup Calls
  /\ \A w \in Workloads : w.attachments \subseteq AttachmentIds

VARIABLES
  account,    \* the users that have a row
  files,      \* what the storage has under each key
  attachment, \* rows of message_attachments
  post,       \* messages with attachments: author, and the ids it was sent with
  slot,       \* the key in each image column
  emoji,      \* rows of custom_emoji
  job,        \* entries of the thumbnail stream, with their delivery count
  worker,     \* the thumbnail worker
  purge,      \* keys the orphan purge has still to delete
  call,       \* the requests in flight
  drawn,      \* keys given out
  workload,   \* the mix of this behaviour
  faults,     \* times the process died or an XACK was lost
  cut,        \* history: jobs whose last delivery ended in a crash or a lost XACK
  excused,    \* history: keys left behind by a race, a failed deletion, a crash, ...
  told,       \* history: the emoji list last enqueued
  newest,     \* history: the request that read the list last, until it enqueues it
  untold      \* history: since then, did the list change, or an older one replace it, unannounced?

rows == <<account, attachment, post, slot, emoji>>
stream == <<job, worker, cut>>
list == <<told, newest, untold>>
vars == <<rows, files, stream, purge, call, drawn, workload, faults, excused, list>>

NoAttachment == [at |-> "none", uploader |-> None, post |-> None, thumb |-> FALSE, old |-> FALSE]
NoPost == [author |-> None, names |-> {}, sent |-> FALSE]
NoEmoji == [name |-> None, uploader |-> None]
NoCall == [kind |-> "none", pc |-> "idle", user |-> None, new |-> None, old |-> None,
           arg |-> None, copy |-> None]
Idle == [pc |-> "reclaim", batch |-> {}, a |-> None, reading |-> FALSE]

Init ==
  /\ account = Users
  /\ files = [k \in Keys |-> "none"]
  /\ attachment = [a \in AttachmentIds |-> NoAttachment]
  /\ post = [p \in PostIds |-> NoPost]
  /\ slot = [s \in Slots |-> None]
  /\ emoji = [e \in EmojiIds |-> NoEmoji]
  /\ job = [a \in AttachmentIds |-> [at |-> "none", deliveries |-> 0]]
  /\ worker = Idle
  /\ purge = {} /\ drawn = {} /\ faults = 0
  /\ call = [c \in Calls |-> NoCall]
  /\ workload \in Workloads
  /\ cut = {} /\ excused = {} /\ untold = FALSE
  /\ told = emoji /\ newest = None

\* Ids are random: which unused one is drawn makes no difference.
Draw(unused) == IF unused = {} THEN {} ELSE {CHOOSE x \in unused : TRUE}

At(c, pc) == call[c].pc = pc
Goto(c, pc) == call' = [call EXCEPT ![c].pc = pc]
Return(c) == call' = [call EXCEPT ![c] = NoCall]

\* Begin(c, kind, r): request kind arrives as call c and continues as r.
Begin(c, kind, r) ==
  /\ At(c, "idle")
  /\ kind \in workload.kinds
  /\ call' = [call EXCEPT ![c] = [r EXCEPT !.kind = kind]]

\* Keys some row names
NamedKeys ==
  {Original(a) : a \in {b \in AttachmentIds : attachment[b].at = "live"}}
    \cup {Thumbnail(a) : a \in {b \in AttachmentIds : attachment[b].at = "live" /\ attachment[b].thumb}}
    \cup ({slot[s] : s \in Slots} \ {None})
    \cup {Emoji(e) : e \in {f \in EmojiIds : emoji[f] # NoEmoji}}

\* Keys a request or the purge will still name or delete
HeldKeys == ((UNION {{call[c].new, call[c].old} : c \in Calls}) \cup purge) \ {None}

-----------------------------------------------------------------------------
(* Storage: what LocalStorage.Put leaves under a key when it fails, and Delete. *)

\* Put creates or truncates the file, and removes what it could not write,
\* unless that fails too.
FailedPut(k) == {files[k], "none", "torn"}
Put(k, result) == files' = [files EXCEPT ![k] = result]

\* Delete of a key; a failure is logged and the file stays.
Delete(k, ok) ==
  /\ files' = IF ok THEN [files EXCEPT ![k] = "none"] ELSE files
  /\ excused' = IF ok THEN excused ELSE excused \cup {k}

\* The upload of call c, under the key it drew.
PutNew(c, result) ==
  LET k == call[c].new IN
  /\ At(c, "put")
  /\ \/ result = "whole" /\ Goto(c, "row") /\ UNCHANGED excused
     \/ /\ result \in FailedPut(k) \ {"whole"}
        /\ Return(c)
        /\ excused' = IF result = "torn" THEN excused \cup {k} ELSE excused
  /\ Put(k, result)
  /\ UNCHANGED <<rows, stream, purge, drawn, workload, faults, list>>

(* Every operator whose comment reads "Variant" stands, in mutation checks *)
(* only, for the definition that follows it; none is part of the model.    *)

\* Variant: no cleanup after a failed row.
NoCleanup(c, ok) ==
  /\ At(c, "cleanup")
  /\ Return(c)
  /\ UNCHANGED <<rows, files, stream, purge, drawn, workload, faults, excused, list>>

\* The row could not be made or changed: the new file goes.
Cleanup(c, ok) ==
  /\ At(c, "cleanup")
  /\ Delete(call[c].new, ok)
  /\ Return(c)
  /\ UNCHANGED <<rows, stream, purge, drawn, workload, faults, list>>

\* The row changed: the file it named before goes.
DeleteOld(c, ok) ==
  /\ At(c, "delete_old")
  /\ Delete(call[c].old, ok)
  /\ IF call[c].kind = "delete_emoji" THEN Goto(c, "list") ELSE Return(c)
  /\ UNCHANGED <<rows, stream, purge, drawn, workload, faults, list>>

-----------------------------------------------------------------------------
(* Attachments *)

\* Upload: the file first,
Upload(c, u, a) ==
  /\ u \in account
  /\ a \in Draw({b \in workload.attachments : Original(b) \notin drawn})
  /\ Begin(c, "upload", [NoCall EXCEPT !.pc = "put", !.user = u, !.new = Original(a), !.arg = a])
  /\ drawn' = drawn \cup {Original(a)}
  /\ UNCHANGED <<rows, files, stream, purge, workload, faults, excused, list>>

\* then the row, refused when the uploader is gone,
CreateAttachment(c) ==
  LET r == call[c] IN
  /\ At(c, "row") /\ r.kind = "upload"
  /\ IF r.user \in account
     THEN /\ attachment' = [attachment EXCEPT ![r.arg] =
                              [NoAttachment EXCEPT !.at = "live", !.uploader = r.user]]
          /\ Goto(c, "enqueue")
     ELSE UNCHANGED attachment /\ Goto(c, "cleanup")
  /\ UNCHANGED <<account, post, slot, emoji, files, stream, purge, drawn, workload, faults,
                 excused, list>>

\* then, in a goroutine and for images, the job; a failed XADD is only logged.
EnqueueThumbnail(c, added) ==
  /\ At(c, "enqueue")
  /\ added => "job" \in workload.kinds
  /\ job' = IF added THEN [job EXCEPT ![call[c].arg].at = "queued"] ELSE job
  /\ Return(c)
  /\ UNCHANGED <<rows, files, worker, cut, purge, drawn, workload, faults, excused, list>>

\* CreateMessage with attachments: the message row
SendWith(c, u, p, names) ==
  /\ u \in account /\ names # {}
  /\ p \in Draw({q \in PostIds : post[q] = NoPost})
  /\ Begin(c, "post", [NoCall EXCEPT !.pc = "link", !.user = u, !.arg = p])
  /\ post' = [post EXCEPT ![p] = [author |-> u, names |-> names, sent |-> FALSE]]
  /\ UNCHANGED <<account, attachment, slot, emoji, files, stream, purge, drawn, workload,
                 faults, excused, list>>

\* Variant: also takes attachments that another message has.
LinkTaken(c) ==
  LET p == call[c].arg
      linked == {a \in post[p].names : /\ attachment[a].at = "live"
                                       /\ attachment[a].uploader = call[c].user} IN
  /\ At(c, "link")
  /\ attachment' = [a \in AttachmentIds |->
                      IF a \in linked THEN [attachment[a] EXCEPT !.post = p] ELSE attachment[a]]
  /\ post' = [post EXCEPT ![p].sent = post[p].names # {} /\ linked = post[p].names]
  /\ Return(c)
  /\ UNCHANGED <<account, slot, emoji, files, stream, purge, drawn, workload, faults,
                 excused, list>>

\* and LinkToMessage.  The message is sent if all of them were there; if not,
\* the request fails, but the row and the links made stay.
LinkToMessage(c) ==
  LET p == call[c].arg
      linked == {a \in post[p].names : /\ attachment[a].at = "live" /\ attachment[a].post = None
                                       /\ attachment[a].uploader = call[c].user} IN
  /\ At(c, "link")
  /\ attachment' = [a \in AttachmentIds |->
                      IF a \in linked THEN [attachment[a] EXCEPT !.post = p] ELSE attachment[a]]
  /\ post' = [post EXCEPT ![p].sent = post[p].names # {} /\ linked = post[p].names]
  /\ Return(c)
  /\ UNCHANGED <<account, slot, emoji, files, stream, purge, drawn, workload, faults,
                 excused, list>>

\* AttachmentOrphanTTL passes for attachment a.
Age(a) ==
  /\ "purge" \in workload.kinds
  /\ attachment[a].at = "live" /\ ~attachment[a].old
  /\ attachment' = [attachment EXCEPT ![a].old = TRUE]
  /\ UNCHANGED <<account, post, slot, emoji, files, stream, purge, call, drawn, workload,
                 faults, excused, list>>

\* PurgeOrphans: one DELETE, which returns the keys the rows had,
PurgeOrphans ==
  LET orphans == {a \in AttachmentIds : /\ attachment[a].at = "live" /\ attachment[a].old
                                        /\ attachment[a].post = None} IN
  /\ purge = {} /\ orphans # {}
  /\ attachment' = [a \in AttachmentIds |->
                      IF a \in orphans THEN [NoAttachment EXCEPT !.at = "gone"] ELSE attachment[a]]
  /\ purge' = {Original(a) : a \in orphans} \cup {Thumbnail(a) : a \in {b \in orphans : attachment[b].thumb}}
  /\ UNCHANGED <<account, post, slot, emoji, files, stream, call, drawn, workload, faults,
                 excused, list>>

\* and purgeExpiredData's loop over them.
DeleteOrphan(k, ok) ==
  /\ k \in purge
  /\ Delete(k, ok)
  /\ purge' = purge \ {k}
  /\ UNCHANGED <<rows, stream, call, drawn, workload, faults, list>>

-----------------------------------------------------------------------------
(* The thumbnail worker *)

Pending == {a \in AttachmentIds : job[a].at = "pending"}

\* XREADGROUP and XAUTOCLAIM count the deliveries.
Deliver(batch) ==
  /\ job' = [a \in AttachmentIds |->
               IF a \in batch THEN [at |-> "pending", deliveries |-> job[a].deliveries + 1] ELSE job[a]]
  /\ cut' = cut \ batch

\* reclaimStale: the pending jobs that were idle for retryMinIdle, if any.
ReclaimStale(batch) ==
  /\ worker.pc = "reclaim"
  /\ batch \subseteq Pending
  /\ Deliver(batch)
  /\ worker' = [Idle EXCEPT !.pc = "next", !.batch = batch]
  /\ UNCHANGED <<rows, files, purge, call, drawn, workload, faults, excused, list>>

\* XREADGROUP waits, without a limit, for a job that nobody has read.
ReadJob(a) ==
  /\ worker.pc = "read"
  /\ job[a].at = "queued"
  /\ Deliver({a})
  /\ worker' = [Idle EXCEPT !.pc = "next", !.batch = {a}, !.reading = TRUE]
  /\ UNCHANGED <<rows, files, purge, call, drawn, workload, faults, excused, list>>

\* Run ends with an error and runWithBackoff starts it again.
ReadFails ==
  /\ worker.pc = "read"
  /\ worker' = Idle
  /\ UNCHANGED <<rows, files, job, cut, purge, call, drawn, workload, faults, excused, list>>

\* The loops over the messages of a reply
NextJob ==
  /\ worker.pc = "next"
  /\ IF worker.batch = {}
     THEN worker' = [Idle EXCEPT !.pc = IF worker.reading THEN "reclaim" ELSE "read"]
     ELSE \E a \in worker.batch :
            worker' = [worker EXCEPT !.pc = "get", !.a = a, !.batch = worker.batch \ {a}]
  /\ UNCHANGED <<rows, files, job, cut, purge, call, drawn, workload, faults, excused, list>>

\* generateThumbnail reads and decodes the original: a missing file or one
\* that is no image fails for good, other errors do not.
ReadOriginal(result) ==
  /\ worker.pc = "get"
  /\ files[Original(worker.a)] = "none" => result = "ack"
  /\ worker' = [worker EXCEPT !.pc = result]
  /\ UNCHANGED <<rows, files, job, cut, purge, call, drawn, workload, faults, excused, list>>

\* Variant: an error of Put is not looked at.
PutThumbnailBlindly(result) ==
  /\ worker.pc = "put"
  /\ result \in {"whole"} \cup FailedPut(Thumbnail(worker.a))
  /\ Put(Thumbnail(worker.a), result)
  /\ worker' = [worker EXCEPT !.pc = "set"]
  /\ UNCHANGED <<rows, job, cut, purge, call, drawn, workload, faults, excused, list>>

\* It writes the thumbnail
PutThumbnail(result) ==
  LET k == Thumbnail(worker.a) IN
  /\ worker.pc = "put"
  /\ \/ result = "whole" /\ worker' = [worker EXCEPT !.pc = "set"]
     \/ result \in FailedPut(k) /\ worker' = [worker EXCEPT !.pc = "failed"]
  /\ Put(k, result)
  /\ UNCHANGED <<rows, job, cut, purge, call, drawn, workload, faults, excused, list>>

\* and records its key; a row that is gone counts as a failure to retry.
SetThumbnailKey ==
  LET a == worker.a IN
  /\ worker.pc = "set"
  /\ IF attachment[a].at = "live"
     THEN attachment' = [attachment EXCEPT ![a].thumb = TRUE] /\ worker' = [worker EXCEPT !.pc = "ack"]
     ELSE UNCHANGED attachment /\ worker' = [worker EXCEPT !.pc = "failed"]
  /\ UNCHANGED <<account, post, slot, emoji, files, job, cut, purge, call, drawn, workload, faults,
                 excused, list>>

\* Variant: > for >=.
ExhaustedLate(a, unknown) == unknown \/ job[a].deliveries > MaxRetries

\* deliveryCount; a job XPENDING does not tell about counts as exhausted.
Exhausted(a, unknown) == unknown \/ job[a].deliveries >= MaxRetries

\* processJob leaves a failed job pending unless it is exhausted.
JobFailed(unknown) ==
  /\ worker.pc = "failed"
  /\ worker' = [worker EXCEPT !.pc = IF Exhausted(worker.a, unknown) THEN "ack" ELSE "next"]
  /\ UNCHANGED <<rows, files, job, cut, purge, call, drawn, workload, faults, excused, list>>

\* XACK; after it nobody writes or names this thumbnail any more.
Ack(ok) ==
  LET a == worker.a IN
  /\ worker.pc = "ack"
  /\ ~ok => faults < MaxFaults
  /\ faults' = IF ok THEN faults ELSE faults + 1
  /\ worker' = [worker EXCEPT !.pc = "next"]
  /\ job' = IF ok THEN [job EXCEPT ![a].at = "done"] ELSE job
  /\ cut' = IF ok THEN cut ELSE cut \cup {a}
  /\ excused' = IF ok /\ Thumbnail(a) \notin NamedKeys THEN excused \cup {Thumbnail(a)} ELSE excused
  /\ UNCHANGED <<rows, files, purge, call, drawn, workload, list>>

-----------------------------------------------------------------------------
(* Avatars, banners and icons *)

Owned(s) == s[2] = None \/ s[2] \in account

\* An upload for column s: the handler reads the key that is there now.
UploadImage(c, s, i) ==
  /\ Owned(s)
  /\ i \in Draw({j \in ImageIds : Image(j) \notin drawn})
  /\ Begin(c, "upload_image",
           [NoCall EXCEPT !.pc = "put", !.new = Image(i), !.old = slot[s], !.arg = s])
  /\ drawn' = drawn \cup {Image(i)}
  /\ UNCHANGED <<rows, files, stream, purge, workload, faults, excused, list>>

\* A removal reads it too.
DeleteImage(c, s) ==
  /\ Owned(s) /\ slot[s] # None
  /\ Begin(c, "delete_image", [NoCall EXCEPT !.pc = "row", !.old = slot[s], !.arg = s])
  /\ UNCHANGED <<rows, files, stream, purge, drawn, workload, faults, excused, list>>

\* The column gets the new key (none, for a removal); then the old file goes.
\* A key written since this call read the column is known to nobody any more.
ReplaceKey(c) ==
  LET r == call[c] IN
  /\ slot' = [slot EXCEPT ![r.arg] = r.new]
  /\ excused' = excused \cup ({slot[r.arg]} \ {r.old, None})
  /\ IF r.old = None THEN Return(c)
     ELSE call' = [call EXCEPT ![c].pc = "delete_old", ![c].new = None]

\* SetAvatarKey, ClearAvatarKey, SetBannerKey, ClearBannerKey of a user, who
\* may be gone
WriteUserKey(c) ==
  LET r == call[c] IN
  /\ At(c, "row") /\ r.kind \in {"upload_image", "delete_image"} /\ r.arg[2] # None
  /\ IF Owned(r.arg) THEN ReplaceKey(c)
     ELSE /\ UNCHANGED <<slot, excused>>
          /\ IF r.kind = "upload_image" THEN Goto(c, "cleanup") ELSE Return(c)
  /\ UNCHANGED <<account, attachment, post, emoji, files, stream, purge, drawn, workload,
                 faults, list>>

\* SetIconKey, ClearIconKey, SetBannerKey, ClearBannerKey of the server
WriteServerKey(c) ==
  /\ At(c, "row") /\ call[c].kind \in {"upload_image", "delete_image"} /\ call[c].arg[2] = None
  /\ ReplaceKey(c)
  /\ UNCHANGED <<account, attachment, post, emoji, files, stream, purge, drawn, workload,
                 faults, list>>

UserAvatarRoutes(c, u) ==
  \/ \E i \in ImageIds : UploadImage(c, <<"avatar", u>>, i)
  \/ DeleteImage(c, <<"avatar", u>>)
UserBannerRoutes(c, u) ==
  \/ \E i \in ImageIds : UploadImage(c, <<"banner", u>>, i)
  \/ DeleteImage(c, <<"banner", u>>)
ServerIconRoutes(c) ==
  \/ \E i \in ImageIds : UploadImage(c, <<"icon", None>>, i)
  \/ DeleteImage(c, <<"icon", None>>)
ServerBannerRoutes(c) ==
  \/ \E i \in ImageIds : UploadImage(c, <<"server_banner", None>>, i)
  \/ DeleteImage(c, <<"server_banner", None>>)

-----------------------------------------------------------------------------
(* Custom emoji *)

EmojiKinds == {"create_emoji", "update_emoji", "delete_emoji"}
EmojiRows == {e \in EmojiIds : emoji[e] # NoEmoji}
NameTaken(name) == \E e \in EmojiIds : emoji[e].name = name

\* Variant: the limit is not compared.
CreateEmojiUnlimited(c, u, name, e) ==
  /\ u \in account
  /\ e \in Draw({f \in EmojiIds : Emoji(f) \notin drawn})
  /\ Begin(c, "create_emoji",
           [NoCall EXCEPT !.pc = "put", !.user = u, !.new = Emoji(e), !.arg = <<e, name>>])
  /\ drawn' = drawn \cup {Emoji(e)}
  /\ UNCHANGED <<rows, files, stream, purge, workload, faults, excused, list>>

\* CreateEmoji counts, then stores the file;
CreateEmoji(c, u, name, e) ==
  /\ u \in account
  /\ Cardinality(EmojiRows) < EmojiLimit
  /\ e \in Draw({f \in EmojiIds : Emoji(f) \notin drawn})
  /\ Begin(c, "create_emoji",
           [NoCall EXCEPT !.pc = "put", !.user = u, !.new = Emoji(e), !.arg = <<e, name>>])
  /\ drawn' = drawn \cup {Emoji(e)}
  /\ UNCHANGED <<rows, files, stream, purge, workload, faults, excused, list>>

\* the row is refused for a name in use or an uploader that is gone.
StoreEmoji(c) ==
  LET r == call[c] IN
  /\ At(c, "row") /\ r.kind = "create_emoji"
  /\ IF r.user \in account /\ ~NameTaken(r.arg[2])
     THEN /\ emoji' = [emoji EXCEPT ![r.arg[1]] = [name |-> r.arg[2], uploader |-> r.user]]
          /\ call' = [call EXCEPT ![c].pc = "list", ![c].new = None]
     ELSE UNCHANGED emoji /\ Goto(c, "cleanup")
  /\ UNCHANGED <<account, attachment, post, slot, files, stream, purge, drawn, workload, faults,
                 excused, list>>

\* UpdateEmoji
UpdateName(c, e, name) ==
  /\ emoji[e] # NoEmoji /\ ~NameTaken(name)
  /\ Begin(c, "update_emoji", [NoCall EXCEPT !.pc = "list"])
  /\ emoji' = [emoji EXCEPT ![e].name = name]
  /\ UNCHANGED <<account, attachment, post, slot, files, stream, purge, drawn, workload, faults,
                 excused, list>>

\* DeleteEmoji reads the row,
DeleteEmoji(c, e) ==
  /\ emoji[e] # NoEmoji
  /\ Begin(c, "delete_emoji", [NoCall EXCEPT !.pc = "row", !.old = Emoji(e), !.arg = e])
  /\ UNCHANGED <<rows, files, stream, purge, drawn, workload, faults, excused, list>>

\* and deletes it, if nobody else did.
RemoveEmoji(c) ==
  LET e == call[c].arg IN
  /\ At(c, "row") /\ call[c].kind = "delete_emoji"
  /\ IF emoji[e] = NoEmoji THEN Return(c) ELSE Goto(c, "delete_old")
  /\ emoji' = [emoji EXCEPT ![e] = NoEmoji]
  /\ UNCHANGED <<account, attachment, post, slot, files, stream, purge, drawn, workload, faults,
                 excused, list>>

\* Variant: nothing is published.
PublishNothing(c, ok) ==
  /\ At(c, "list")
  /\ Return(c)
  /\ UNCHANGED <<rows, files, stream, purge, drawn, workload, faults, excused, list>>

\* publishEmojiUpdate: a goroutine reads the list, or gives up,
PublishEmojiUpdate(c, ok) ==
  /\ At(c, "list")
  /\ IF ok THEN /\ call' = [call EXCEPT ![c].pc = "tell", ![c].copy = emoji]
                /\ newest' = c
           ELSE Return(c) /\ UNCHANGED newest
  /\ untold' = ~ok
  /\ UNCHANGED <<rows, files, stream, purge, drawn, workload, faults, excused, told>>

\* and enqueues it, maybe after another that read later.
EnqueueEmojiList(c) ==
  LET copy == call[c].copy IN
  /\ At(c, "tell")
  /\ told' = copy
  /\ newest' = IF newest = c THEN None ELSE newest
  /\ untold' = (untold \/ (newest = None /\ copy # told))
  /\ Return(c)
  /\ UNCHANGED <<rows, files, stream, purge, drawn, workload, faults, excused>>

-----------------------------------------------------------------------------
(* What the rest of the system does to them *)

\* DeleteWithTombstones takes, by foreign keys, the rows of the user; the
\* files stay, and nobody is told about the emoji.
DeleteUser(u) ==
  LET mine == {a \in AttachmentIds : attachment[a].uploader = u} IN
  /\ "delete_user" \in workload.kinds
  /\ u \in account
  /\ account' = account \ {u}
  /\ attachment' = [a \in AttachmentIds |->
                      IF a \in mine THEN [NoAttachment EXCEPT !.at = "gone"] ELSE attachment[a]]
  /\ post' = [p \in PostIds |-> IF post[p].author = u THEN [NoPost EXCEPT !.author = u] ELSE post[p]]
  /\ slot' = [s \in Slots |-> IF s[2] = u THEN None ELSE slot[s]]
  /\ emoji' = [e \in EmojiIds |-> IF emoji[e].uploader = u THEN NoEmoji ELSE emoji[e]]
  /\ untold' = (untold \/ emoji' # emoji)
  /\ excused' = excused \cup (NamedKeys \ NamedKeys')
  /\ UNCHANGED <<files, stream, purge, call, drawn, workload, faults, told, newest>>

\* Keys that are being written
Writing == {call[c].new : c \in {d \in Calls : At(d, "put")}}
             \cup (IF worker.pc = "put" THEN {Thumbnail(worker.a)} ELSE {})

\* The process dies and starts again: what a Put had begun is half written,
\* the stream and its deliveries remain.
Crash(torn) ==
  /\ faults < MaxFaults
  /\ torn \subseteq Writing
  /\ faults' = faults + 1
  /\ files' = [k \in Keys |-> IF k \in torn THEN "torn" ELSE files[k]]
  /\ call' = [c \in Calls |-> NoCall]
  /\ purge' = {}
  /\ worker' = Idle
  /\ cut' = cut \cup worker.batch \cup (IF worker.a = None \/ worker.pc = "next" THEN {} ELSE {worker.a})
  /\ excused' = excused \cup (HeldKeys \ NamedKeys)
  /\ untold' = (untold \/ \E c \in Calls : /\ call[c].kind \in EmojiKinds
                                       /\ call[c].pc \in {"delete_old", "list", "tell"})
  /\ newest' = None
  /\ UNCHANGED <<rows, job, drawn, workload, told>>

-----------------------------------------------------------------------------
Worker ==
  \/ \E batch \in SUBSET AttachmentIds : ReclaimStale(batch)
  \/ \E a \in AttachmentIds : ReadJob(a)
  \/ ReadFails \/ NextJob \/ SetThumbnailKey
  \/ \E result \in {"put", "failed", "ack"} : ReadOriginal(result)
  \/ \E result \in {"whole", "torn", "none"} : PutThumbnail(result)
  \/ \E b \in BOOLEAN : JobFailed(b) \/ Ack(b)

AttachmentRequests(c, u) ==
  \/ \E a \in AttachmentIds : Upload(c, u, a)
  \/ \E p \in PostIds, names \in SUBSET workload.attachments : SendWith(c, u, p, names)

ImageRequests(c) ==
  \/ /\ "user" \in workload.slots
     /\ \E u \in Users : UserAvatarRoutes(c, u) \/ UserBannerRoutes(c, u)
  \/ /\ "server" \in workload.slots
     /\ ServerIconRoutes(c) \/ ServerBannerRoutes(c)

EmojiRequests(c) ==
  \/ \E u \in Users, name \in Names, e \in EmojiIds : CreateEmoji(c, u, name, e)
  \/ \E e \in EmojiIds, name \in Names : UpdateName(c, e, name)
  \/ \E e \in EmojiIds : DeleteEmoji(c, e)

Continue(c) ==
  \/ \E result \in {"whole", "torn", "none"} : PutNew(c, result)
  \/ \E ok \in BOOLEAN : Cleanup(c, ok) \/ DeleteOld(c, ok) \/ EnqueueThumbnail(c, ok) \/ PublishEmojiUpdate(c, ok)
  \/ CreateAttachment(c) \/ LinkToMessage(c) \/ WriteUserKey(c) \/ WriteServerKey(c) \/ StoreEmoji(c) \/ RemoveEmoji(c)
  \/ EnqueueEmojiList(c)

Next ==
  \/ \E c \in Calls, u \in Users : AttachmentRequests(c, u)
  \/ \E c \in Calls : ImageRequests(c) \/ EmojiRequests(c) \/ Continue(c)
  \/ "job" \in workload.kinds /\ Worker
  \/ \E a \in AttachmentIds : Age(a)
  \/ PurgeOrphans
  \/ \E k \in Keys, ok \in BOOLEAN : DeleteOrphan(k, ok)
  \/ \E u \in Users : DeleteUser(u)
  \/ \E torn \in SUBSET Writing : Crash(torn)

Spec == Init /\ [][Next]_vars

-----------------------------------------------------------------------------
(* Properties *)

Attachment == [at : {"none", "live", "gone"}, uploader : Users \cup {None},
               post : PostIds \cup {None}, thumb : BOOLEAN, old : BOOLEAN]
Post == [author : Users \cup {None}, names : SUBSET AttachmentIds, sent : BOOLEAN]
EmojiRow == [name : Names \cup {None}, uploader : Users \cup {None}]
Job == [at : {"none", "queued", "pending", "done"}, deliveries : Nat]
WorkerState == [pc : {"reclaim", "read", "next", "get", "put", "set", "failed", "ack"},
                batch : SUBSET AttachmentIds, a : AttachmentIds \cup {None}, reading : BOOLEAN]

Kinds == {"none", "upload", "post", "upload_image", "delete_image", "create_emoji",
          "update_emoji", "delete_emoji"}
Phases == {"idle", "put", "row", "cleanup", "enqueue", "link", "delete_old", "list", "tell"}
Args == AttachmentIds \cup PostIds \cup Slots \cup EmojiIds \cup (EmojiIds \X Names)
Call == [kind : Kinds, pc : Phases, user : Users \cup {None}, new : Keys \cup {None},
         old : Keys \cup {None}, arg : Args \cup {None},
         copy : [EmojiIds -> EmojiRow] \cup {None}]

TypeOK ==
  /\ account \subseteq Users
  /\ files \in [Keys -> {"none", "whole", "torn"}]
  /\ attachment \in [AttachmentIds -> Attachment]
  /\ post \in [PostIds -> Post]
  /\ slot \in [Slots -> Keys \cup {None}]
  /\ emoji \in [EmojiIds -> EmojiRow]
  /\ job \in [AttachmentIds -> Job]
  /\ worker \in WorkerState
  /\ call \in [Calls -> Call]
  /\ workload \in Workloads
  /\ purge \cup drawn \cup excused \subseteq Keys
  /\ faults \in Nat
  /\ cut \subseteq AttachmentIds
  /\ told \in [EmojiIds -> EmojiRow]
  /\ newest \in Calls \cup {None}
  /\ untold \in BOOLEAN

\* Every file a row names is there, and whole.  Exempt is the thumbnail of a
\* job that was delivered more than once: after a crash or a lost XACK it is
\* made again, and its second Put may spoil what the row names already
\* (LocalStorage.Put truncates the file and removes it when it fails).
NamedFilesExist ==
  \A k \in NamedKeys :
    \/ files[k] = "whole"
    \/ \E a \in AttachmentIds : k = Thumbnail(a) /\ job[a].deliveries > 1

\* A message that was sent keeps every attachment it was sent with: no other
\* message takes one and the purge removes none.
SentMessagesKeepAttachments ==
  \A p \in PostIds : post[p].sent =>
    \A a \in post[p].names : attachment[a].at = "live" /\ attachment[a].post = p

\* A file that no row names and no request, purge or job will see to was left
\* by one of: a failed deletion (Put's own, after a failed write, is one), a
\* crash, the cascade of an account's deletion, two image requests that read
\* the same key, or a thumbnail whose row went while it was made.
StrandedFilesExplained ==
  \A k \in Keys :
    files[k] # "none" /\ k \notin NamedKeys \cup HeldKeys =>
      k \in excused \/ \E a \in AttachmentIds : k = Thumbnail(a) /\ job[a].at = "pending"

\* A job is not left for another try once it was delivered MaxRetries times,
\* unless that delivery ended with the process or with a lost XACK.  (Of the
\* stream's replies only XACK's is lost here: a lost reply of XREADGROUP or
\* XAUTOCLAIM counts a delivery that no worker sees.)
JobsGiveUp ==
  \A a \in Pending :
    /\ a \notin worker.batch
    /\ worker.a = a => worker.pc = "next"
    /\ job[a].deliveries >= MaxRetries
    => a \in cut

\* Requests that counted together exceed the emoji limit by no more than
\* their number less one.
EmojiOverrunBounded ==
  LET counted == {c \in Calls : call[c].kind = "create_emoji" /\ call[c].pc \in {"put", "row"}} IN
  Cardinality(EmojiRows) + Cardinality(counted) < EmojiLimit + Cardinality(Calls)

\* When no emoji request is under way the list last enqueued is the stored one,
\* unless since the last read of the list that succeeded (publishEmojiUpdate)
\* one of these happened: a List failed, an account's deletion took emoji, the
\* process died before a request enqueued, or a list read earlier was enqueued
\* after it.
EmojiListFollows ==
  (\A c \in Calls : call[c].kind \notin EmojiKinds) => told = emoji \/ untold
=============================================================================
