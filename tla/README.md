# Verification of uncord-server

TLA+ models of the parts of uncord-server (a self-hosted chat server: Go, PostgreSQL,
Valkey, Typesense) whose correctness depends on interleavings, expiry, lost messages,
shutdown, or on an algorithm with many corner cases; TLC configurations that check them on
small instances; and TLAPS proofs of every safety property for every instance.
`PROJECT.json` maps each definition to the lines it models and lists runs, mutants, hazards
and theorems. Paths below are relative to `src/internal/` unless they start with `cmd/`.

To check a run: `tlc -config RefreshTokens.cfg MCRefreshTokens`. To check the proofs of a
component: `tlapm RefreshTokensProofs.tla`, and so for the other seven `...Proofs` modules.

## 1. Inventory

### How the parts interact

One process serves HTTP and WebSocket. Every HTTP request is a goroutine running a handler
of `api/`; it authenticates by an access token, asks `permission.Resolver` what the user may
do, changes PostgreSQL through a repository, and afterwards *enqueues* gateway events and
*publishes* cache invalidations, both best effort. Events go through `gateway.Publisher` (a
bounded channel and a worker pool) to a Valkey channel, to which `gateway.Hub` subscribes;
the hub filters by permission and hands them to the queues of the connections. Sessions,
replay buffers, presence, refresh tokens, one-time tickets and cached permissions live in
Valkey under their own TTLs. Nothing spans PostgreSQL and Valkey atomically, and most
handlers run several statements outside a common transaction.

### Components

| Component | State | Operations | What is hard | What makes it correct |
|---|---|---|---|---|
| Refresh tokens (`auth/refresh.go`, `auth/service.go`) | `refresh:{token}`, `user_refresh:{user}`, each with a TTL | issue, look up, rotate, revoke all (three Lua scripts), account deletion | races between lookup and rotation, expiry of two keys, lost replies | single use; a revocation reaches every token; nothing else loses one |
| Gateway sessions (`gateway/hub.go`, `client.go`, `session.go`) | registry, per-connection queue and counter, saved sessions, replay buffers | Identify, Resume, dispatch, disconnect, shutdown | three goroutines per connection sharing unlocked Valkey state | only the audience receives an event; usable counters; no leaked entry; dispatcher never waits |
| Publisher and shutdown (`gateway/publisher.go`, `cmd/uncord/main.go`) | bounded queue, closed flag, workers, shutdown stage | enqueue, publish, drain | close racing send, two shutdown timeouts | every event accounted for; drained on return; shutdown ends |
| Presence (`presence/presence.go`, `gateway/hub.go`) | `presence:{user}`, what others were last told | identify, resume, update, delayed offline | a delayed offline notice racing reconnection | whoever is shown present is connected or owed an offline notice |
| Permission resolution (`permission/resolver.go`) | none | owner bypass, role union, category and channel overrides | precedence of five layers | answers the layered reference |
| Permission cache (`permission/cache.go`, `invalidate.go`) | `perms:{user}:{channel}` with TTL, pub/sub | resolve (single, batches), invalidate, sweep | check-then-store, lossy pub/sub, partial sweeps | every stale entry has a known cause and goes away |
| Membership (`api/invite.go`, `onboarding.go`, `member.go`, `member/`, `invite/`) | members, member_roles, roles, bans, invites, onboarding_config | join, activate, kick, ban, timeout, leave, roles | checks and writes are separate statements | invite limits; owner safe; no climbing by assignment; one announcement |
| Accounts, verification, MFA, tickets (`auth/service.go`, `auth/mfa_*.go`, `auth/gateway_ticket.go`, `user/`) | users, tombstones, verification links, MFA secrets and recovery codes, pending secrets, attempt counters, tickets | register, log in, verify, resend, set up / confirm / disable MFA, regenerate codes, delete | values read and consumed in two steps, keys with separate TTLs, deletion in the middle of a login | a link or ticket serves once; guesses are bounded; a deleted identity stays taken; sessions end with the account unless the revocation fails |
| Messages, pins, reactions, threads, search (`api/message.go`, `message/`, `thread/`, `reaction/`, `typesense/`) | messages, threads, reactions, search documents | send, edit, delete, pin, react, thread, index | load, write and announce are three steps; index requests are unordered goroutines | deletion is final and the last thing told; clients and index follow the rows, or the cause is known |
| Direct messages (`dm/`) | dm channels, participants | open, send, leave | find-then-create | one channel per pair, but for a known race |
| Files (`attachment/`, `media/`, `api/image_upload.go`, `emoji/`) | rows, files, thumbnail stream, emoji list | upload, link, purge, thumbnail, image, emoji | database, storage and stream without a common transaction; the process dies | a row names a file that is there; sent messages keep theirs; leftovers have a reason |
| Channels, categories, roles (creation) | rows, positions | create, reorder | count-then-insert limits | limits |
| E2EE keys, read states, settings, audit, CSRF/JWT/cookies, configuration, HTTP helpers | none, append-only, or rows of one user | — | — | — |

The hazards, each at its line with the properties that cover it, are in `PROJECT.json`.

## 2. The modules

| Module | What it is |
|---|---|
| `TokenFamilies` | abstract specification: families of single-use tokens |
| `RefreshTokens` | the Valkey keys, the scripts and the service calls that use them; implements `TokenFamilies` |
| `RefreshTokensProofs` | inductive invariant, safety theorems and the refinement |
| `GatewayHub` | what the next module and `GatewayPresence` share: connections, users, the registry |
| `GatewaySession` | connections, sessions, replay, dispatch, shutdown, crash |
| `GatewayPublisher` | enqueue, worker pool, drain, the end of `run()` |
| `GatewayPublisherProofs` | safety of the publisher |
| `GatewayPresence` | presence keys and publications, delayed offline |
| `GatewayProofs` | safety of `GatewaySession` and of `GatewayPresence` |
| `Permissions` | the permission algorithm and a bit-by-bit reference, as operators |
| `PermissionResolution` | the algorithm run on every bounded database |
| `PermissionCache` | cache, pub/sub invalidation and every handler that changes permissions; uses `Permissions` |
| `PermissionsProofs` | the algorithm is the reference, for any database; stale cache entries are explained |
| `Membership` | joins, onboarding, moderation, role assignment |
| `MembershipProofs` | its safety |
| `OneTime` | abstract specification: credentials issued once and redeemed at most once |
| `Accounts` | accounts, verification, MFA, tickets, deletion; implements `OneTime` |
| `AccountsProofs` | its safety and the refinement |
| `Messages` | messages, pins, reactions, threads, direct messages, search index |
| `MessagesProofs` | its safety |
| `Files` | attachments, thumbnails, purge, images, emoji |
| `FilesProofs` | its safety |
| `MC...` | model-checking instances: symmetry, values of constants |

In the modules, an operator that stands directly before another and repeats it with one
slip (a dropped guard, a missing reset), or whose comment begins with "Variant", is a mutant: substituting it must break a property,
which shows that the property depends on that code. Mutants are no part of any specification.

### Refresh tokens

`refresh[t]` and `userRefresh[u]` carry values *and deadlines*: a key past its deadline
reads as missing but is not touched, as in Valkey. Each Lua script is one step
(`CreateScript`, `RotateScript`, `RevokeAllScript`), pruning of stale members included. A
service operation is a record in `call` whose `pc` is the gap it is in: `LookUp` and `Rotate`
are two steps of `Refresh`; `FinishRefresh` is the user query after the rotation;
`RevokeReused` follows a rotation that found nothing. `RotateReplyLost` is the Valkey client
sending the script again after a lost reply; `Fail` is any failed command. `family`,
`successors`, `revoked` and `delivered` are history. The UUIDs a store can mint are the
finite set `Tokens`; `Fresh` are those never issued.

### Gateway sessions

A client record is the Go struct and the locals of its reader goroutine. `reader` is its
program counter: Identify and Resume are several steps, because the dispatcher and other
connections run between their Valkey commands. The dispatcher takes a snapshot of the
registry (`DispatchBegin`), then per client draws a number, enqueues, and appends to the
replay buffer. Drop, a full queue, Shutdown and Crash can come anywhere. The permission filter
is the set of users an event is for; the READY payload and the wording of frames are left out.
A frame is a pair of sequence number and event. Session expiry is an action; presence calls
made by the same handlers are in `GatewayPresence`.

### Publisher and shutdown

`enqueue` is two steps (`EnqueueCheck`, `EnqueueSend`), as in the code: the flag is read
before the channel operation. `RunClose` and `RunCloseQueue` are the store and the close.
`Drained`/`DrainTimeout` and `Stop`/`GraceTimeout` are the two ways each of main's two waits
can end. `DrainTimeout` also stands for a request that the
timeout middleware answered while its handler goroutine goes on. Nothing in the repository
recovers a handler's panic, so a send on the closed channel ends the request or the process.

### Presence

`key` is the Valkey key, `shown` the last status others were told. Setting the key, registering
and publishing are separate steps; each `delayedOffline` is a timer per connection with a
check, a delete and a publish. Heartbeats renew the key of a connected user, so `ExpirePresence`
applies only without a connection. `dnd` behaves as `idle`.

### Permissions and their cache

A bitfield is the set of its bits. `Compute` is `compute` of `resolver.go`. In
`PermissionCache` a resolver reads role bits and override rows in separate steps and stores
afterwards; a handler commits its write and publishes in a later step; the subscriber turns a
message into a sweep that deletes key by key and can fail half-way; publishing can fail and
disconnection loses the inbox. A GET or MGET that fails counts as a miss (`Missed`). `why` is history: what made an entry stale
other than an invalidation still under way. Category rows stay empty: no handler writes them.

### Membership

Every statement or transaction is one step; a request record holds what a handler read so
far. The model lets any admitted member moderate, i.e. leaves out the permission bits a
caller needs and keeps the rank checks: it has more behaviours than the code, and the
properties hold in all of them. Not modelled: creating and reordering roles, nicknames,
invites without `max_uses`; so `Position` is a constant, and `UpdateRole`, which moves a role
(`api/role.go:155`), is not an action: `AssignedBelowTop` says nothing of roles moved after they were
assigned. A handler's check and its write are two steps wherever what was checked can change in between
(`CheckDeleteRole` and `DeleteRole`, `CheckCaller`, `CheckTarget` and the moderation, `CheckRole` and the
assignment). `ClearTimeout` and `Unban` check only that the caller is admitted; they are one step, which loses
no behaviour: the owner is always admitted, and what the step does depends on nothing else of its caller. JoinServer's configuration read and ban check are one step. Facts
found while translating and kept as they are: `expires_at` of a ban is never compared by
`IsBanned`, so bans do not end by themselves; an owner without explicit roles has the lowest
rank and is protected only by the explicit owner checks; `timed_out` members are admitted.
A behaviour starts with one of the servers in `Starts` (its roles, and codes already revoked).

### Accounts

A request is a record in `call` whose `pc` is the gap between two SQL statements or Valkey
commands. `users`, `codes` and `tombstones` are tables; `pending` and `attempts` the two keys
of an MFA setup; `credential` is the state of every verification link, MFA ticket and gateway
ticket (`new` within the resend cooldown, `open`, `expired` but not consumed, `gone`). The two statements of
`ReplaceVerificationToken` that another transaction can run between are steps of their own:
PostgreSQL's READ COMMITTED lets a second resend pass its check before the first commits.
`sessions` keeps of a refresh token only whether it was issued while the account existed; what
becomes of tokens is `RefreshTokens`. A request remembers in `past` what had been spent or
tombstoned when it began. Any statement may fail and the process may die between two (`Abandon`).
Two failures the code only logs and goes on after have actions of their own: `IncrementFails` (the guess counter;
`service.go:534-548` puts the secret back all the same, and the counter may or may not have moved) and
`RevocationFails` (`service.go:613-615`, `731-733`; the script may have been carried out, in part or not at all).
`uncounted` and `unrevoked` keep them. A retry of the INCR by the Valkey client, which would count a guess twice,
only ends a setup sooner and is left out. Names are compared in lower case (`service.go:173`, `717`), so a name of the
model is such a class of spellings. Passwords are right; the log of login attempts and mail are left out. `OneTimeTokens` maps the credentials to `OneTime`: the live ones are those
that can be redeemed.

### Messages and direct messages

A handler loads, writes and announces in separate steps and carries its `copy` between them.
`told` is what the people of its channel were last told of a message. Every index request is a goroutine
in `tasks`; `IndexRequest` lets it reach Typesense or not and the answer return or not, with the one retry of
`do`; a goroutine that dies with the process is one whose request does not reach it. `Abandon` ends a handler at any
gap: a failed read between the write and the event (`message.go:290-306`, `pin.go:212-229`), a failed link, the
process dying. An event for a direct-message channel counts as told only when it is targeted, that is when it
is sent (`Audience`): edits and deletions are enqueued without targets (`message.go:325`, `384`), and the hub filters
those by a channel permission on an id that is no channel (`hub.go:557-575`), which lets only the owner
and administrators through. `DeleteAccount` is the deletion of module `Accounts` with its cascade:
messages, threads under them, reactions and participants go, messages of others leave the deleted threads, and
nothing is announced or removed from the index. `crossed`, `silent` and `skewed` record what excuses a difference:
a row written while another request held an older copy; a last change that no event told the channel of; an
index request failed, refused, overtaken or never started. Check and insert of `message.Create` and of `thread.Create` are one
step: nothing the insert depends on can leave between them without its foreign key refusing it, but for a reply or a parent
deleted in that gap, which is the same as deleted just after. Permissions are left out, so any user
may do what some permission allows. Facts kept as they are: messages of threads and of direct messages are not indexed when
posted, but an edit upserts them; the partial document of an edit lacks required fields, which
Typesense may refuse, so `UpsertMessage` has both outcomes; a reaction is stored on a message deleted since
it was looked up, and `RemoveReaction` does not look at the message at all; when a read of `fullMessageModel` fails,
`httputil.Fail` has written the answer and returns nil, so `PinMessage` goes on and enqueues an event with an
empty message, which tells nobody of this one (`silent`); `AddParticipant` cannot succeed (below).

### Files

`files[k]` is `none`, `torn` or `whole`: `LocalStorage.Put` creates the file and removes
it when a write fails; when that removal fails too, or the process dies in between, a torn one is left. A row, a file and a stream entry are never
changed together. `job` counts deliveries as the consumer group does, `cut` remembers a delivery
that ended in a crash or a lost XACK. `Crash` empties calls, worker and purge. `excused` are the keys left
behind for a reason the property names. `publishEmojiUpdate` reads the list and enqueues it in two steps, and
returns when the read fails. `newest` is the request that read the list last, and `untold` says that since that
read something kept the stored list from clients: a failed read, a list enqueued out of order, a crash, the cascade of an
account. A read that succeeds makes it false again. Lost replies of XREADGROUP and XAUTOCLAIM, each
a delivery nobody sees, are not modelled. All attachments are of one channel that stays.
The worker waits for new jobs without a limit, as `XREADGROUP` does there.

### Workloads

`Accounts`, `Messages` and `Files` each have far more operations than two requests can
interleave exhaustively. A behaviour picks one of the `Workloads`: a mix of request kinds, and
the objects that take part. Each mix holds the operations that touch the same rows, so the races
among them are all there; what a mix leaves out is only requests that simply do not come. The mixes are
listed with a comment in the `MC` modules.

## 3. Runs

Bounds are in the `.cfg` files; state counts are TLC's distinct states. Deadlock is not
checked: every model has states in which its bounded work is done (all requests answered, all
connections closed, process stopped), and the system may rest there.

| Run | Instance | Shows |
|---|---|---|
| `refresh_tokens` | 2 users, 3 tokens, 2 calls, TTL 2, clock to 2 (219k) | `LiveTokensIndexed`, `RevokedStayDead`, `RotatedOnce`, `LossExplained`, and `FamiliesSpec`: the store implements `TokenFamilies` |
| `gateway_session` | 2 connections, 2 users, 1 session, queue 2, replay buffer 1, 1 allowed connection, 2 events, 1 crash (2.9M) | `OnlyAudience`, `SavedCounterNotBehind` |
| `gateway_live` | 2 connections, queue 1, 1 event, 1 shutdown or crash, fairness (261k) | `ClosedConnectionsReleased`, `DispatchNeverStalls` |
| `gateway_resume_loss` | 2 connections, 1 event | counterexample to `ResumeReplaysMissed` |
| `gateway_publisher` | 2 handlers, 2 workers, queue 2, 4 events, fairness (178k) | `EveryEventAccounted`, `DrainedOnReturn`, `ShutdownTerminates` |
| `gateway_presence` | 3 connections of 1 user, 1 update, 1 failure, fairness (135k) | `OfflineIsOwed`, `NoGhostPresence` |
| `permission_resolution` | 2 bits, 2 roles, 2 users (one the owner), every combination of rows (4.7M) | `ResolvesToReference` |
| `permission_cache` | 1 user, 1 channel, 1 resolver, 2 handlers, 2 writes, fairness (490k) | `StaleIsExplained`, `EventuallyConsistent` |
| `membership` | owner and 2 users, 2 requests; 1 role and 1 invite of 1 use, or 2 roles (1.9M) | `InviteUsesBounded`, `AnnouncedOnce`, `OwnerKeepsServer`, `AssignedBelowTop`, `BannedMembersRaced` |
| `accounts` | owner and 2 ids, 1 address, 2 names, 3 links, 2 tickets of each kind, 2 secrets, 3 codes, 2 calls, 1 failed increment per secret, 7 mixes (673k) | `OneTimeSpec` (the refinement), `SpentCodesRefused`, `CodesGoWithMFA`, `SetupGuessesBounded`, `TombstonesHold`, `OldSessionsEndWithAccount`, `SecondLinkRaced` |
| `messages` | 2 users, 2 messages, 2 texts, 2 threads, 2 direct-message channels, 2 calls, 2 index goroutines, 10 mixes (810k) | `DeletedStaysDeleted`, `DeletionToldLast`, `ClientsSeeStored`, `SearchFollowsMessages`, `SecondDMRaced` |
| `files` | 2 users, 2 attachments, 3 images, 3 emoji with a limit of 1, 3 retries, 2 faults, 2 calls, 8 mixes (1.2M) | `NamedFilesExist`, `SentMessagesKeepAttachments`, `StrandedFilesExplained`, `JobsGiveUp`, `EmojiOverrunBounded`, `EmojiListFollows` |

Every module's type invariant is proved (section 4), so no run repeats it; it also holds under the module's
configuration (add it there to see). `PermissionResolution` has none: its states are its inputs.

Why these bounds: the races at stake are between two calls (a lookup and a rotation, a check
and a write, a resume and a dispatch), so two actors of each kind are enough to produce them; three
tokens give a chain login–rotation–rotation or two families; TTL 2 with a clock to 2 lets keys of
different ages expire separately; a queue and a replay buffer of one or two entries overflow
with two events; three connections let one reconnect while the timers of two others
run; four events with a queue of two and two workers fill the queue while both workers are
busy; two bits, one of them `ManageServer`, and the four kinds of row are all the resolution
algorithm tells apart; three links let a resend replace a link that replaced one; three
attempts (instead of five) let two overlapping confirmations pass the limit in either order, and one failed increment
(`MaxUncounted`) passes it by one; an emoji limit of one is
overrun by two creations; three retries and two faults bring a job to its limit in both ways,
and past it; two texts tell an old copy from a new one. Users, tokens, calls, connections, handlers and requests are
interchangeable and symmetric in safety runs; the runs with liveness use no symmetry. In
`membership` only ordinary users and requests are permuted.

Fairness is weak fairness of what Go and Valkey really do on their own: a runnable reader,
writer, dispatcher, worker, `Run` or timer takes its next step; every wait with a timeout
ends (publication, HTTP drain, grace period); a key past its TTL disappears; a resolver
finishes its request. Nothing is assumed of peers and users (they may never send, read or
leave), of handlers during shutdown, or of the delivery of pub/sub messages:
`EventuallyConsistent` rests on the TTL alone, as the comment on `CacheTTL` says it must.

## 4. What is proved

Every safety property of every passing run, the two refinements included, is a theorem: for any number of users, connections, calls
and keys, and any bound, not only for the instance of its run. Each proof has the same
shape. An inductive invariant says what a handler carries from one statement to the next and where
each object is; one lemma per statement or per family of statements shows that it is kept; the
property follows from the invariant, or is one of its conjuncts. TLC checked the gateway's and the
cache's invariants on their run's instance before they were proved.

**Assumptions.** The named `ASSUME` of each module, which TLC evaluates on every run that uses the
module: limits and bounds are natural numbers, sizes and lifetimes positive ones; `None` is no member of the sets it marks absence in; and the shape of the database where it
matters (`Owner` is a user, `Everyone` a role, every role ranks above `Lowest`,
roles and users distinct, `Links`, `MFATickets` and `GatewayTickets` disjoint since they are a table
and two key prefixes, a channel is no direct-message channel, workloads name existing objects).
`FilesAssumption` has finite `EmojiIds` and `Calls`, because `EmojiOverrunBounded` counts
them. Nothing else is finite unless a proof derives it.

**Refresh tokens** (`TypeCorrect`, `LiveTokensAreIndexed`, `RevocationIsFinal`,
`RotationIsSingleUse`, `LossesExplained`, `StoreImplementsFamilies`). The heart is `IInv`. That a
revocation reaches every token (`LiveTokensIndexed`) is not
inductive alone. Issuing or rotating rewrites the deadline of the user's set to `now + TTL`;
this must not bring it before that of a member's own key, hence `DeadlinesBounded` (no deadline further
than one TTL ahead). Deleting the members of a set must not reach another user's tokens nor
miss one of this user's, hence `MembersOwned` and `KeysOwned` (members and keys agree with the user
a UUID was issued for). Minting must not revive a dead token, hence `FreshUnused`. Single use
follows from `RotatedGone`: a token with a successor has no key. `LossesExplained` is an action
theorem: a step that takes a live token away is one of the listed causes. The refinement has one
lemma per abstract action: a script is `Issue`, `Exchange` or `RevokeFamily`, the clock is `Expire`,
everything else stutters. `valid` is mapped to the live keys by owner, `spent` to the issued
tokens without a live key, `heir` to the successors.

**Gateway sessions** (`SessionTypeCorrect`, `OthersHearNothing`, `CounterIsNotBehind`). `SessionInv`
follows an event from the audience it was published with to the peer: the dispatcher's targets belong to
that audience (`DispatchSound`), whatever is queued for a client or waits to be replayed is meant for the user of its session
(`ClientBound`), and so is what Valkey holds (`ValkeySound`), which makes `ResumeLoad`'s user comparison the
step on which isolation across resumes rests. For the counters, `Top` is the highest number a peer
may have been sent: one above the counter while an earlier connection's frames are replayed, because a
dispatch under way when that connection left may have drawn one number after its `Save`. That it
is never more than one is `CounterSaved`, and needs that a session whose buffer was not read yet has one identified client
(`SessionCounted`) and that the one dispatch has it among its targets once. `ResumeReplay` reads the peer's
last number again where the code uses the one sent with Resume: it has not
moved since unless an older connection of the session still writes, and then fewer events are replayed twice. `ReplayParts` shows that
`ReplayAfter` returns entries of the buffer only.

**Presence** (`PresenceTypeCorrect`, `NobodyIsForgotten`). `OfflineIsOwed` is inductive together
with `Registry`: until Shutdown a connection past `register` is in the registry, and a timer belongs to a connection
that is gone, so whoever leaves last has its timer still to come.

**Publisher** (`TypeCorrect`, `EventsAreAccounted`, `RunDrains`). `OnePlace` says that an event has a number
once it passed the closed check and is with one handler, in the queue once, with one worker,
or done; `Counted` relates the sets to the counters of drops and failures. `RunInv` adds what each phase of `Run` implies: workers
leave only when the channel is closed and empty.

**Permissions** (`ComputeIsReference`, `ResolutionCorrect`, `UserDenyIsFinal`; `CacheTypeCorrect`,
`StaleEntriesAreExplained`). The reference says for each bit which layer decides it; the code
folds the layers with unions and differences, and the proof unfolds both bit by bit. For the
cache, `CallsCurrent` says of every resolver that what it has read so far agrees with the database
for every key that no write has overtaken since; so what it stores is right, or raced a write and is
on record as such.

**Membership** (`TypeCorrect`, `RequestsWellFormed`, `OwnerNeverLosesServer`, `AnnouncementsBounded`, `InvitesBounded`,
`BannedMembersAreRaces`, `AssignmentsBelowTop`). `InviteInv` counts the uses handed out: a join made, a
join in flight, or lost. `TopInv` covers the assignments already checked and not yet
inserted, whose assigner may have lost its rank meanwhile; `HighestPosition` is shown to answer a role
nobody's other role outranks.

**Accounts** (`AccountsSound`, `TypeCorrect`, `SpentCodesNeverPass`, `CodesOutliveMFAByRace`,
`SetupGuessesAreBounded`, `TombstonesAreHeld`, `OldSessionsAreRevoked`, `SecondLinksAreRaces`,
`CredentialsAreOneTime`, `RedeemedAtMostOnce`). On top of `Sound` (types, what each call carries, whose rows it names) every property has
its own part: `GuessInv` says that a pending secret is either with its user or with one confirmation and that no
secret with all its guesses taken (those not counted added to the limit) is anywhere; `LinkInv`, `TombInv`, `SpentInv`, `StrayInv` say what
a call past its check still knows. The refinement maps the credentials that can be redeemed to the live ones.

**Messages** (`MessagesSound`, `TypeCorrect`, `DeletionIsFinal`, `DeletionIsToldLast`,
`SecondDMsAreRaces`, `StoryHolds`, `ClientsAreTold`, `SearchIsCurrent`). `StoryInv` tells, message by message, where the difference between
row, clients and index is on its way: a call that has written and not announced, a call that will start an
index task, a task with what is wanted; or nothing is under way and they agree; or the cause is on record.
`DeletionIsFinal` and `DeletionIsToldLast` are action theorems; the second needs that a handler about to announce a
live copy of a message whose row is gone was there when the row went.

**Files** (`FilesSound`, `TypeCorrect`, `RowsNameWholeFiles`, `StraysAreExplained`, `JobsAreGivenUp`,
`SentAttachmentsStay`, `EmojiListIsTold`, `EmojiOverrunIsBounded`). The three families of keys are disjoint, and `Inv` has for each
who holds a key (one request until a row names it, the purge or a deleting request after the row is gone),
what its file is, and why a file without a holder is excused. `WorkerInv` ties deliveries to the worker's
batch. `ListInv` says that a difference between the list told and the list stored is on its way (a request before its read, or
`newest` with the stored list in hand) or on record in `untold`. `EmojiOverrunIsBounded` counts the creations past their check.

**Only model-checked**: the five liveness properties (`ClosedConnectionsReleased`, `DispatchNeverStalls`,
`ShutdownTerminates`, `NoGhostPresence`, `EventuallyConsistent`). `ClosedConnectionsReleased` is about connections that
registered; the others are `WriterStops`, section 5. They need fairness and
ENABLED, which TLAPS 1.4.5 does not handle. The violated statements of section 5 are counterexamples TLC finds.

Two remarks for whoever changes the models. This version of tlapm mistranslates an `@` inside an EXCEPT that
is itself inside an EXCEPT, so the modules name the old value there. And since `None` is an arbitrary value outside the sets named, a record is never
assumed different from it unless an assumption says so.

## 5. Statements that do not hold

The modules also contain statements that comments of the code make and the code does not keep.
Their comments begin with "Violated". One has a run of its own:

- `ResumeReplaysMissed` (`gateway/hub.go:327`, "replays missed events"): Resume reads the
  buffer, registers, and deletes the buffer; an event a dispatch appends in between is deleted unread.

The others can be reproduced by naming them in the configuration given:

- `ReuseRevokesFamily` (`RefreshTokens.cfg`): a token that a rotation consumed has no key, so the
  pre-lookup names no owner and nothing is revoked; only a rotation overtaking the
  lookup of the same call triggers the revocation. `FamilyRevokedOnlyOnReuse` (same): a logout or an
  expiry between lookup and rotation looks like reuse and revokes the family.
- `EnqueueIsSafe` (`GatewayPublisher.cfg`; `gateway/publisher.go:60`, "safe to call from any
  goroutine"): a handler that outlives the HTTP drain tests the flag, `Run` closes the channel, the
  send panics.
- `WriterStops` (`GatewayLive.cfg`): `unregister` returns early for a client not in the
  registry, so nobody closes `done` and the writer of a connection that never registered waits forever.
- `OfflineOnlyIfGone` (`GatewayPresence.cfg`): a connection registers between the check of
  `delayedOffline` and its publication. `InvisibleAppearsOffline` (same): Identify publishes
  online after another connection of the user made the stored status invisible.
- `CacheConsistent` (`PermissionCache.cfg`): a resolver reads, a write commits and is swept, the resolver stores
  the old result. `RolesTakeEffect` (same): activation grants auto-roles and publishes no invalidation.
- `RolesGoWithMember` (`Membership.cfg`; `member/repository.go:121`, "The member_roles rows cascade
  automatically"): `member_roles` references `users`, so leaving, kick and ban keep the roles.
- `AdmittedAreOnboarded` (`Membership.cfg`): SetTimeout and ClearTimeout overwrite the pending status.
  `JoinRefusedOnlyToMembers` (same): the @everyone row left by a former membership makes
  `CreatePending` fail. `ActivateRefusedOnlyIfNotPending` (with `r2` in `autoRoles`): an auto-role that
  was deleted makes every activation fail. `BannedAreOut` (same): a join that passed its ban
  check before the ban creates the row after it; `BannedMembersRaced` says that this is the only way.

In `Accounts`, `Messages` and `Files` the exceptions are part of the properties: each
names the race it allows, and TLC reaches every one of them.

- Recovery codes: two overlapping calls may both spend one code, since reading the unused codes and
  marking one are separate statements and the UPDATE does not ask that it is unused
  (`user/repository.go:396`). `SpentCodesRefused` covers codes spent before the call began.
- MFA setup: the counter's TTL runs from its first increment and the secret's from its last restoration, so the
  counter may expire under a live secret, though `auth/mfa_pending.go:66` says it "shares the same TTL as the pending secret so it
  expires together" (and 16-17 alike). The bound of `SetupGuessesBounded` therefore holds per life of the counter, and
  an increment that fails is not counted and not refused (`auth/service.go:536`); a wrong code restores the pending secret it took
  even over one that a newer setup stored.
- `RegenerateRecoveryCodes` that read the account before `DisableMFA` committed leaves unused codes without a
  second factor (`stray` in `CodesGoWithMFA`).
- Two resends past their UPDATE together leave two working links (`SecondLinkRaced`), though
  `user/repository.go:176` describes one transaction that invalidates "all unconsumed verification tokens".
- A registration that checked the tombstones before a deletion committed takes the identity;
  a login that read the account before its deletion issues a session after it.
- The revocation at the end of a deletion is best effort (`auth/service.go:680-682`): when it fails or the process dies
  before it, sessions issued while the account existed outlive it (`unrevoked` in `OldSessionsEndWithAccount`).
- A deleted account's messages go without an event, and their search documents stay; a handler whose reads fail after
  its write announces nothing; people in a direct-message channel hear of no edit or deletion (`silent`, `skewed` and the last exception of
  `SearchFollowsMessages`).
- `dm/repository.go:26` says "The check and insert run in a single transaction to prevent races"; READ COMMITTED
  does not, and no constraint does: two channels for one pair (`SecondDMRaced`).
- Two handlers enqueue their copies in the other order than they wrote (`crossed` in `ClientsSeeStored`);
  the same for the emoji list, which also changes unannounced when an account with emoji is deleted or the list cannot be read.
- A thumbnail delivered again is written over the one a row names; if that Put fails the row
  names a missing or torn file (`NamedFilesExist`). A failed job is tried again only when another
  job arrives, because `XREADGROUP` blocks; `media/thumbnail.go:77` says "reclaimed on the next iteration".
- Concurrent emoji creations exceed the limit by up to the requests in flight less one (`EmojiOverrunBounded`).

## 6. Not modelled, and the plan

Left out for good: JWT, CSRF, cookies, password hashing (stateless), search queries and email
delivery (I/O), audit log (append-only, read by nobody), read states and synced settings
(single-statement upserts of one user), configuration, routing, database setup.

End-to-end encryption keys: `e2ee/repository.go:33` runs `SELECT COUNT(*) ... FOR UPDATE`, which
PostgreSQL refuses with an aggregate, so no device can be registered at this commit and no key or
prekey can exist; `dm/repository.go:154` has the same statement, so `AddParticipant`
always fails and is not an action of `Messages`.

To come, in this order:

1. Theorems that say more than the runs do: for the violated statements of section 5, what does hold, with the
   race as its exact exception (an event a resume misses was appended between its read and its delete).
2. Positions and limits of roles, channels and categories (count, compare, insert, reorder).
3. Composition of `GatewayPublisher` with the hub's subscription: an abstract lossy
   event feed that `GatewaySession` consumes, and that `Messages` announces to.
4. Typing indicators and the disposable-address list (a list behind a lock with a double-checked refresh).
