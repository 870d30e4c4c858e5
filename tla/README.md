# Verification of mindex-backend

mindex-backend is the Go server of a study application: users upload documents,
workers cut them into chunks with embeddings, AI providers answer questions
about them, and users share documents, study in rooms and pay for a tier. State
is kept in PostgreSQL (most of it), Redis (caches, locks, lists) and in the
memory of the process (WebSocket hubs, goroutines). Almost no handler opens a
transaction and many ignore the errors of the statements they send, so that the
interesting behaviour lies between two statements of one request.

This directory holds TLA+ models of the parts that carry the program's own
logic, TLC configurations that check them on small instances, and TLAPS proofs
of what is checked for every instance. `PROJECT.json` is the index: components,
runs, the mutants every property must reject, the source lines of every
definition, the hazards of the code and the theorems.

    tlc -workers 2 -config UploadQueue_pool.cfg MCUploadQueue.tla
    tlc -workers 2 -config Services.cfg MCServices.tla
    tlapm UploadQueueProofs.tla

## 1. Inventory

| Component | State it keeps | Operations | What is hard | What must hold | Module |
|---|---|---|---|---|---|
| Upload queue (`workers/worker.go`, `pipeline.go`, `controllers/processing.go`) | `upload_jobs`, `documents.status`, `document_chunks`, `rejected_hashes`; Redis `doc_progress`; files | accept, claim, run the pipeline, settle, retry, reclaim | lease without heartbeat, restarts between statements, dropped errors, messages on another store | one worker per job, bounded attempts, "ready" means complete, an outcome is final, every job is settled | UploadQueue, DocumentIntake |
| Document library (`controllers/document.go`, `community.go`, `workers/sweeper.go`, `expirer.go`) | `documents`, `document_references` | pin, unpin, delete, restore, fork, share, withdraw, use, sweep, warn | requests of several statements that overlap with each other, with two sweeps, and with the worker | nobody loses a document by another's request, one row per file, expired documents go | DocumentLibrary |
| Room hub (`internal/ws/room_hub.go`, `ConnectRoomWS`) | sockets by room, timers, two buffered channels, a buffer per client | register, unregister, broadcast, offline timer | channels closed while others send, either channel served first, timers that fired already | no send on a closed channel, whoever left is shown offline, whoever is dropped is cut off | RoomHub |
| Study rooms (`controllers/group_room.go`) | `group_rooms`, `group_room_members`, shared documents | create, join, leave, hand over, close, kick, link and unlink documents | limits checked before the insert, two inserts without a transaction, errors ignored | bounded members and documents, an open room has a host who is a member | GroupRoom |
| Room chat and room AI (`group_room_ws.go`) | Redis list of 50 messages, `room_messages`, AI lock | message, reaction, history, AI answer | read-modify-write by list index, a lock that expires under its owner | a message keeps its place and reactions, one answer at a time | RoomChat |
| Feedback chat (`controllers/feedback.go`, `internal/ws/hub.go`) | `feedback_messages`, sockets by user | open a session, send, deliver | unregistering twice closes a channel twice, channels without a buffer | the hub survives, a message is shown once | Feedback |
| Billing (`controllers/billing.go`, `workers/subscription_expirer.go`, `profile.go`) | `payments`, `users.tier`, `tier_expires_at`, cached profile | create a payment, webhook, client verification, admin's change, daily expiry | the same payment confirmed by two handlers, notices late or repeated, two UPDATEs without a transaction | one month per payment, no paid month lost | Billing |
| Authentication (`controllers/auth.go`, `utils/jwt.go`, `middleware/auth.go`) | password hash; Redis: active refresh tokens, blacklist, revocation mark, one-time codes | register, log in, refresh, log out, change and reset the password | rotation in four Redis calls, marks with lifetimes, comparison in seconds | one live token per session, none after a change of password | AuthTokens |
| Rate limits (`middleware/ratelimit.go`) | a sorted set per caller and route | trim, count, add, drop | four commands in a pipeline that is not a transaction, and whose failure admits | a window admits what it should | RateLimit |
| Chat sessions (`chat.go`, `global_ai_chat.go`, `session.go`, `share.go`) | `chat_histories`, a Redis list of pairs, shared links | ask, edit, delete, restore, rename, share | row and list are written by separate calls beside turns, titles and edits | a question keeps its answer, a user's title stays, a link hides what was deleted | ChatSession |
| Assistant's tools (`internal/tools/`, `ai_tools.go`) | limits, result cache with a lock, slips, `user_memory` | loop, dispatch, time out, confirm, cancel, remember | tools that go on working after their time, confirmations that are repeated | a confirmed tool runs once, one fetch at a time | ToolDispatch |
| AI providers (`ai_orchestrator.go`, adapters, `keypool.go`, `answer_cache.go`) | a rotating index, cached answers | stream, answer, fall back, embed | half a stream, then an error; a counter shared by all callers | an answer of one voice, every key is tried | Providers |
| Quota tracker (`utils/quota/tracker.go`) | use of a key in memory, Redis and PostgreSQL | record a call, read headers, refresh, sync, start | copies written outside the lock, or not at all | use is not forgotten, what is shown is current | KeyQuota |
| Generated material (`audio_overview.go`, `presentation.go`, `summary.go`, `extract*.go`) | rows with a goroutine, Redis entries | make, poll, cache, stream events | goroutines that a restart kills, two keys of one name | made once, whole, and ended | Material |
| Attachments (`chat_video_attachment.go`, `chat_attachment.go`) | rows, files in the store, analyses by hash, a queue in Redis | upload, poll, attach, sweep | late results, time-outs, a quota read before the insert, deleted sessions, whose files stay | the right analysis, bounded videos, which files lose their row | Attachments |
| Flash cards and quizzes (`studytools.go`) | sets, cards, `study_quota`, cached sets | make, mark, list | marks that overlap, the reset of a day | counts of the day, no lost repetition, a current cache | FlashCards |
| Progress (`gamification.go`, `study_planner.go`, SubmitQuiz) | attempts, badges, streaks, plans | submit, check, look, plan | a marker that stops checks, day boundaries, a visit that is not written down | no badge forgotten, a streak is a run of days | Progress |
| Chunker (`chunker.go`, `ai.go`) | none | cut a text | thresholds, overlaps, breadcrumbs | nothing is lost, a chunk is near its size and knows its place | Chunker |
| Retrieval (`hybrid_search.go`) | none | rank twice, fuse, boost, spread | ties, cuts | the fusion agrees with its rankings, answers are spread | Retrieval |
| The rest | see section 6 | | | | - |

How the parts interact: a handler accepts an upload and inserts the document
and its job; a worker takes the job and, when it is done, inserts the uploader's
reference, by which the document enters the library. The library's sweep
removes documents that the queue brought in, and those of rooms closed long ago.
Handlers and background loops tell
clients through Redis keys, notification rows and the two hubs. Tiers decide the
limits of the library, of study tools and of attachments. A question goes
through the rate limit to a session, which searches chunks, runs tools and asks
the providers, whose keys the tracker counts. Restarting the process loses every
goroutine, every in-memory hub and timer, and no row.

In all modules an action is one statement or one call of another system, and a
request is a handler between two of them: `req`, `h`, `work`, `turn` or `task`
holds the statement it has reached with what it read before. How many requests
overlap is the number of handlers. Statements whose error the code drops may
fail where what follows depends on it; `faults` counts failures, `crash` and
`Restart` stop goroutines half-way. History variables are named in each module.

## 2. What is modelled

Modules of components that share no state are checked side by side in one run:
`MCServices`, `MCAssistant` and `MCRooms` choose in their initial state which
one moves (`side`), and the variables of the others keep one value, so that the
states are the sum, not the product. A property there is the conjunction of the
module's own invariants, for its side. `MCServices` extends Billing, `MCRooms`
GroupRoom and `MCAssistant` ToolDispatch, since theorems speak of their
definitions; `MCServices` takes AuthTokens and `MCAssistant` Feedback with its
proofs (`Auth`, `Talking`), so that their theorems hold of the composition. All
three take their bounds as constants, which the .cfg files give values, and
assume of them what each part assumes (`ServicesAssumption`,
`AssistantAssumption`, `TalkAssumption`): the theorems about a composition are
for every value of them.

| Run | Bounds | States | What it checks |
|---|---|---|---|
| `upload_pool` (`UploadQueue_pool.cfg`) | 1 job, 2 workers, 2 text chunks and 1 image, 3 attempts, 2 restarts, 2 lost statements | 178 000 | every invariant of the queue, finality, the refinement of DocumentIntake, and that every accepted job is settled |
| `upload_late` | as small, `Punctual = FALSE` | 164 000 | bounded attempts, and that the queue comes to rest, when two workers process one document |
| `upload_failopen` | 1 worker, 1 fault | | violated: moderation that fails open |
| `library_serial` | 2 users, 2 documents of 1 file, 1 handler, 1 sweep | 3 940 000 | pins, trash and expiry when requests do not overlap |
| `library_race` | 1 user, 2 documents of 1 file, 2 handlers, sweep and expirer, 2 requests, 1 restart, 1 fault | 136 000 | one row per file, the flag after the message, everything expired or old is swept in the end |
| `library_erase` | 2 users, 1 fault | | violated: an erased document that others refer to |
| `room_presence` | 3 sockets of 2 users, buffers and queues of 1 | 519 000 | open channels, timers for absent users only, presence under fairness, and dropping but for a peer that never reads again |
| `room_history` | the same | | violated: a history sent on a closed channel |
| `rooms` | GroupRoom: 4 users, a room of 2, 3 documents, quota of 1, 2 handlers, 5 requests, 1 failure; RoomChat: 2 users, 2 messages and 2 answers, list of 2, 2 reactions | 1 390 000 | limits of a room, one host, closing on purpose; the talk |
| `room_refill` | RoomChat as above | | violated: a history shown backwards |
| `services` | see 2.5 to 2.10 | 4 610 000 | Billing, AuthTokens, RateLimit, FlashCards, Progress, KeyQuota |
| `assistant` | see 2.11 to 2.18 | 2 710 000 | ChatSession, ToolDispatch, Providers, Material, Attachments, Chunker, Retrieval, Feedback |

Symmetry is used where handlers, rows or users are only compared with each
other, and never with a liveness property. `CHECK_DEADLOCK FALSE` stands where
bounds on requests let the model come to rest, as an idle server does.

### 2.1 UploadQueue, DocumentIntake

One action per statement a worker sends: the claim (one
UPDATE ... FOR UPDATE SKIP LOCKED), every stage of `RunEmbeddingPipeline`, the
chunks one by one, the outcome in `worker.go`, and InitiateUpload's insertion
and its late "queued" message. `pc`, `cur`, `att` are the goroutine's position
and locals; `status`, `attempts`, `due`, `leaseOver` the row of `upload_jobs`;
`doc`, `copies`, `rejected`, `progress`, `cloud`, `tmp` what the pipeline
writes. `Restart` stops every worker between two statements. Time is two events,
the delay of a retry and the 15-minute lease; `Punctual` says whether live
workers beat them. `ReadyIsComplete` holds for punctual workers only: a worker
that was given up deletes the chunks of the other.

`DocumentIntake` is what the uploader is promised: an accepted document gets
chunks, and ends ready or failed for good. `ImplementsIntake` is the refinement.
`OutcomesAgree` joins what remains of an upload: queue, document and message say
the same, a rejection survives a restart, chunks are doubled only by an
interruption, temporary files are removed but for the images of a failed job.

Jobs share no row, so one job with two workers is where all interference is;
two restarts and two faults allow one of each during the recovery from another.
Fairness: every goroutine that is not blocked runs on, and an idle worker polls
at least every five seconds, so that a job that stays claimable is claimed; the
clock passes. Restarts are bounded; without a bound a crash in every attempt,
which is not counted as an attempt when the row is reclaimed, would go on for
ever.

### 2.2 DocumentLibrary

Every statement by which a request, the sweep, the expirer or the worker changes
a document row, its references and its pins. `row[d]` is the document (`life`:
none, live, trash, gone; `expiry`; `notified`; `public`; `room`, where it was
uploaded to: none, kept, or over when the room was closed 180 days ago...),
`refs` and `pinned` are document_references. A sweep ends with the two
statements of `runRetentionCleanup` that touch documents (`SweepRoomDocs`,
`SweepRooms`), either of which may fail and be logged. The sweep's SELECT and
DELETE share a transaction at READ COMMITTED, which does not make them one step.

Two documents of one file are a document and its successor after a sweep or an
erasure. Two users are the owner and another reader. A sweep's rows are taken
together, as its DELETE does. Fairness is on the sweep only, which runs hourly:
`EventuallySwept` needs no request ever to end.

`OnlyExpiredVanish` says who may take a live document that has not expired, and
has two exceptions: a sweep that listed it while it was in the trash, and the
retention statement for rooms closed 180 days ago, which asks for no pin, reader
or date. The second is no failure and needs no overlap: what is pinned in such a
room goes with it.

What fails when requests overlap is listed among the hazards with a note, at
its line: a pin between the count and the soft delete, a restored document
deleted by a sweep that listed it before. `PinnedIsKept` is stated for documents
that were never public, since sharing a pinned document gives it a date.

### 2.3 RoomHub

One room. `pc[c]` is the handler goroutine of a socket: history, announcement,
read loop, end, or ended by a panic (gin's Recovery catches it). `regQ` and
`unregQ` are the two channels, which the hub's select serves in either order;
`present`, `closed`, `timers` are what `h.mu` guards; `buffered` counts the
messages in each `Send`; `once` and `asking` are RequestUnregister. A timer is
named by the client whose removal started it, and fires, takes the lock and
broadcasts in three steps. `shown` is the last presence event of each user.
The names `HubSpec`, `HubUsers` and so on are those GroupRoom has without the
prefix; RoomsProofs extends both modules.

Two sockets of one user let one come back while the other's timer runs; the
third is the room that hears about it. A buffer of one is full after one
message, as 128 are after one AI answer, which is broadcast word by word.
Fairness: goroutines run, select is fair to both channels, timers fire, a write
that does not block succeeds or fails. A write to a peer that has stopped
reading blocks (`WriteBlocks`, with `pc` "stuck"), since WritePump sets no
deadline, and nothing else closes the socket of a dropped client: no fairness is
assumed of `WriteResumes`, and `DroppedAreCut` names such a client as its
exception. A timer is assumed not to fire while a handler that lost its
registration is still on its way to the read loop (two minutes against a few
queries).

The model also reaches three states that no property excludes, listed as
hazards: a socket unregistered before it is registered stays in the room for
good; a timer that fired already announces a user who is back; a delayed
callback forgets another timer.

### 2.4 GroupRoom and RoomChat (`rooms`)

`GroupRoom` is one room. `row`, `is_host` and `elder` (the order of joined_at)
are group_room_members, `status` and `host_id` the row of group_rooms, `doc` and
`linked_by` the two ways a document is in the room. JoinRoom counts, looks,
writes; LeaveRoom writes and hands over by three statements. `ErrorIsIgnored` is
every statement whose error the code drops and then goes on, `Stops` every other
end half-way. The limits of members and documents are passed by no more than the
requests that overlap, by one more when a count fails. `OneHost` and
`ClosedOnPurpose` hold for requests that do not overlap: an heir may leave
between being chosen and being promoted. A room of two with four users is full
with users left who want in and heirs to choose from; five requests are create,
two joins and two more, such as a kick and a return.

`RoomChat` is its talk: `stored` is room_messages, `list` the Redis list, newest
first, `lock` ai_lock, `work` the reader of each user's socket and `ask` the
goroutine of each question to the assistant. `mode` says whether Redis has lost
the list (`lost`, then `warmed`), or handlers have raced on it (`broken`).
`TalkIsKept` joins three invariants: the list shows the newest messages in
order, reactions are kept, and one answer is made at a time while no lock
expires under its holder. Four entries for a list of two make every trim matter.

### 2.5 Billing (`services`)

One user and their orders. PayOS is external: a link is opened, the customer
may pay, and from then on the webhook may arrive any number of times. `req[r]`
is a handler between two statements: VerifyPaymentClient reads the row, asks
PayOS, then both it and the webhook settle the payment, grant the tier and
clear the cached profile, each by its own statement, each of which may fail
unnoticed, with a possible stop of the process in between. `paidOn` is a history
variable. Two orders, two handlers, a month of one day, three days, one gift by
the administrator: two handlers are the webhook and the client's verification of
one payment, two orders let one purchase meet another. A day is the unit:
handlers and GetMe end on the day they began.

`TierIsPaid`: a tier was paid for or given, and a month that was paid for is not
cut short. `NoMonthUnpaid`: repeated and late notices buy no second month. What
is paid is kept only while no statement failed (`failed`): a PAID payment whose
second UPDATE was lost is never looked at again. The model also reaches a stale
cached profile (the daily job does not clear it; a GetMe stores what it read
before an upgrade cleared it), which lasts until the entry expires.

### 2.6 AuthTokens (`services`)

One account. A pair is an access and a refresh token; `issued` and `life` are
its claims, `active`, `blacklist`, `denied`, `revokeBefore`, `code` and `fails`
the keys of Redis with the moments they end at. Register, login, Google, refresh
with its four steps of rotation, logout, one-time codes and both changes of
password are handlers, each call may fail, and the process may stop. Three
pairs, two handlers, four requests, moments 0 to 2, lifetimes 1, 1 and 3, two
wrong codes until the lock, one failure: a short lifetime ends within the
moments and a long one does not, so that a token outlasts a mark that is too
short. Both properties are proved for every lifetime.

`RevokedStaysOut`: whoever refreshes after a change of the password and passes
the checks holds a token that was issued after it - `revoke_before` outlives
every token it is about - and the lock on resets ends. `SessionHasOneToken`: the
last token of a session is the only one that works, while its requests do not
overlap and no call fails. Two refreshes with one token at a time leave two
pairs, which is a hazard with this exception.

### 2.7 RateLimit (`services`)

The four commands that each request sends in one pipeline: trim, count, add,
expire. `WindowIsBounded`: a window holds at most Limit requests admitted by their
count, and one more for each other request that may be at work at a time. The
pipeline may fail before any of its commands (`ExecFails`): its error is dropped
and the count reads 0, so the request goes through. Those requests are not
bounded by anything; the property is about the others, between which the broken
pipelines leave what they had written. Five requests,
two at a time, a limit of one in a window of three of five instants, one failure.

### 2.8 FlashCards (`services`)

`quota` is the row of study_quota, spent by one UPDATE that also begins a day;
one card of each set is followed through its marks (SM-2: interval, ease,
repetitions), and the entry of the set in Redis. Two handlers, two sets, limits
2 and 1, two days, five requests, the best and the worst marks. `LimitsHold`
(`QuotaCountsToday`): each day's count is what was let through, whatever kind it
begins with. `RecordsAreTrue` (`RecallsAreCounted`): no overlapping mark is lost
from the repetitions, which count all recalls of a card. (sm2Update computes 0
for a card that was forgotten, `studytools.go:429`, and throws it away; the
UPDATE at 489 never resets. The model follows the UPDATE, and the hazard at that
line says what it means for the intervals.) `CachesAreCurrent`
(`ShownSetIsCurrent`): the entry is stale only for a write that fell between a
reader's query and its entry.

### 2.9 Progress (`services`)

Attempts at a quiz, the goroutines that check for badges, the marker that keeps
the next check away for ten minutes, the streak and a plan. Three of the seven
badges are modelled; the others are counts of other tables. Two checks, a week of
two days, a day of two hours, hours 0 to 4, three actions, one failure.
`NoBadgeForgotten`: when checks rest and the last did not stop at the marker,
every badge earned was given.
`StreakIsARun`: the streak is the run of days that ends with the last visit
that was written down; the error of that upsert is dropped, and a day whose
upsert failed is missing from the run.
`PlanReachesTheExam`: the pages of a day reach the total by the exam, and one
page less would not.

### 2.10 KeyQuota (`services`)

One key: `mem`, `redis`, `db` are its three copies, `saver` the saves that are
in flight, `lock` the key's mutex, which RecordCall does not hold while it
saves. A save may fail, which nobody notices. Two calls, which may overlap, a
limit of one, one crash. `QuotaShownIsCurrent`: at rest Redis has what memory
has, unless the last save overlapped another or failed (`astray`).
`MarkRateLimited` would be a third saver, but nothing calls it. That
the use written to PostgreSQL never shrinks is proved (section 3).

### 2.11 ChatSession (`assistant`)

One session of either kind. `row` is chat_histories with its messages, `list`
the pairs in Redis, `turn`, `task` and `naming` the activities, two at a time,
beside creation, renaming and deletion. Two turns, two edits, readings or
sharings, three messages kept in the row and two pairs in the list, one failure:
both cuts are passed by the second turn. `SessionsAreHonest` joins: the history
a prompt is given pairs each question with its answer, in order and without
deleted ones, as long as nothing overlapped (`calm`); a title the user gave is
never replaced by a generated one; a link that is open tells nothing deleted.

### 2.12 ToolDispatch (`assistant`)

A loop asks the model and calls the tools it names; each tool runs in a
goroutine that goes on after its time is over. `slip` is a pending confirmation
in Redis, `asker` the requests that confirm or cancel it, `cached` and `lock`
the result cache, `used` the hourly limit, `facts` the user's memory. One loop
of depth two with two calls an answer, two confirmations, one slip, two
goroutines. `ToolsRunOnce`: a confirmed tool runs once, unless two requests read
the slip before either deleted it or Redis did not; one goroutine at a time
fetches, while no lock ended before the work it was taken for.

### 2.13 Providers (`assistant`)

The fallback over a service's providers, with streams that break off, the loops
over the keys of a pool (`counter` is common to all), and cached answers. Two
requests at a time, three in all, a pool of two keys, answers of two tokens, and
lists of two and three providers of all three kinds. `ProvidersKeepFaith`: what
was shown is what is returned, from one provider (but for Gemini failing in the
middle, which the orchestrator does not notice, a hazard); an embedding is given
up only when every key has failed, unless another request took keys in between.

### 2.14 Material (`assistant`)

Spoken overviews and slides are rows with a goroutine; summaries and the mind
map are entries of Redis; extractions are one answer or a stream of events. Two
handlers, three requests, two rows of each kind, one part, two polls, one
failure, restarts. `MaterialIsWhole` joins: slides are made once (a row follows
another only if that failed, or if its request had read before the other was
written), a pending row is at work unless a restart killed its goroutine, an
overview that is done has every line spoken, QuickSummary never gives what
another summary left, and a stream of events ends once. It also holds what 2.16
and 2.17 say.

### 2.15 Attachments (`assistant`)

Videos, whose analysis another service makes behind a queue in Redis and whose
row changes when its owner asks, and images. Two videos, two contents, two
handlers, four requests, a limit of one, one failure. `AttachmentsAreKept`
joins: a video that is done has the analysis of what it shows, also when it came
from an earlier upload or after the time-out; the videos of a day are within the
limit but for uploads that overlapped and late answers; every file in the store is
named by a row, a handler or a sweep, unless its name was lost (`lost`): by a
failure - an upload whose answer did not arrive is one - or with its session.
`DeleteSession` stands for every statement that deletes rows of chat_histories:
the rows of images and videos go with them (ON DELETE CASCADE), nobody destroys
their files and no sweep finds them. It also gives back the quota, so that what
is bounded is the videos of a day that are still there.

### 2.16 Chunker (`assistant`)

`buildChunks` reads a document block by block, in `current` the chunk it writes,
in `crumbs` the headings, in `overlap` the chunk whose last sentences it
repeats; `SplitIntoChunks` cuts windows of words. A target of four tokens,
blocks of one, three and five, four blocks; windows of four with an overlap of
one, up to twelve words: sums below, at and above the target and its half.
Invariants: every block is in one chunk, in order, and the windows of a split
text repeat what they shall and lose nothing (`NothingIsLost`); a chunk passes
the target by a last heading only, or is one block, or has a table
(`ChunksAreBounded`); the breadcrumb of a chunk names the headings its last
block is under; what is repeated is of the chunk before, in the same chapter.

Before these functions run, a document without headings is given to a model, of
which only the first 15 000 bytes are sent (`chunker.go:259`); what follows is in
no chunk, although the document becomes ready. The module begins after that cut.

### 2.17 Retrieval (`assistant`)

Any two rankings of four chunks of two documents, answers of two chunks, one per
document in the library. `FusionAgrees`: a chunk that one ranking places before
another, and the other ranking not after it, stays before it, and a chunk that
both found is before one that a single ranking found. `AnswerIsSpread`: a
document has more than its share only if the others have nothing left, and as
many chunks are given as there are. Scores are integers, in parts of `Whole`,
which every divisor that occurs divides; equal scores are left in any order, as
a Go map leaves them. `RetrievalAssumption` says that the places asked for are
few enough (2 * TopK <= k + 1) that being found by both rankings outweighs every
place: the code has k = 60 and asks for 5, 8 or 12 chunks.

The comments at `hybrid_search.go:64` and `:71` call popularity a tie-breaker.
It is not: fused scores are at most 2/61, popularity adds up to 0.08, and so it
decides between documents. `FusionAgrees` therefore speaks of the order before
the boost.

### 2.18 Feedback (`assistant`)

The hub's goroutine and the two pumps of each socket. Register and Unregister
have no buffer, so whoever sends waits for the hub; a full buffer starts a
goroutine that unregisters too. Three sockets, two of a user and one of an
administrator, buffers of one, two messages. `FeedbackIsServed` joins: no
message meets a closed channel; the hub stops (a channel closed twice) only
after some buffer was full; a message is shown once, to an administrator in his
own session at most twice.

## 3. What is proved

Eight modules hold proofs, checked to the last leaf, for all values of the
constants that satisfy the named assumptions. The assumptions say what a
constant is (a finite set, a natural number, a value outside a set), for
AuthTokens that lifetimes are ordered as the code's are: access tokens, then
the short refresh tokens, then the long ones (`LifeAssumption`), and for
Retrieval what 2.17 says of its numbers.
The runs check what the theorems state on small instances, but for
`UseIsNotLost`.

| Module | Theorems | Statement |
|---|---|---|
| `UploadQueueProofs` | `TypeCorrect`, `JobsAreExclusive`, `AttemptsAreBounded`, `SettlementIsFinal` | types; punctual workers never share a job, attempts stay within max_attempts, a settled job keeps its status |
| | `LateAttemptsAreBounded` | with late workers, attempts pass max_attempts by at most one for every other worker |
| | `ReadyMeansComplete`, `RejectionIsKept`, `OutcomesAlwaysAgree` | "ready" has every chunk of the text; a recorded rejection stops the file; row, document, message and files agree |
| | `QueueImplementsIntake` | the queue implements DocumentIntake |
| `DocumentLibraryProofs` | `TypeCorrect`, `OneRow`, `FlagIsTrue` | types, `OneRowPerFile`, `FlaggedAfterMessage`: however requests overlap, and whatever fails |
| | `VanishOnlyExpired`, `PinsAreKept`, `TrashStaysUnread` | `OnlyExpiredVanish` (with its exception for closed rooms), `PinnedIsKept`, `TrashIsUnread`: when requests do not overlap |
| `RoomsProofs` | `SeatsAreBounded`, `DocsAreBounded` | limits of a room passed by no more than the requests that overlap |
| | `RoomHasOneHost`, `RoomClosesOnPurpose` | requests one after the other keep one host and close the room on purpose only |
| | `RoomsTypeCorrect`, `TalkIsAlwaysKept` | types of the room and its talk; `TalkIsKept`: a newcomer sees the newest messages, in order, with their reactions, and one question is answered at a time |
| | `SocketsAreAlwaysTrue` | `SocketsAreTrue`: members' channels are open, timers run for absent users |
| `AuthTokensProofs` | `AuthTypeCorrect` | types |
| | `RevokedIsNotRefreshed`, `LockAlwaysEnds` | a changed password keeps old tokens out for ever; the lock on codes ends |
| | `OneTokenWorks` | the last token of a session is the only one that works |
| `AssistantProofs` | `ConfirmedRunsOnce`, `FetchIsExclusive`, `ToolsAlwaysRunOnce` | `RunsOnceConfirmed`, `OneFetchUnderLock`, and `ToolsRunOnce`, which is both |
| | `ProvidersAlwaysKeepFaith` | `ProvidersKeepFaith`: one voice, what is shown is returned, every key is tried |
| | `AttachmentsAreAlwaysKept` | `AttachmentsAreKept`: the right analysis, bounded videos, no file without a name but for failures and deleted sessions |
| | `SessionsAreAlwaysHonest` | `SessionsAreHonest`: the history pairs questions with their answers and tells nothing deleted, the user's title stays, a link hides what was deleted |
| | `FeedbackIsAlwaysServed` | `FeedbackIsServed`, from the three of FeedbackProofs |
| `MaterialProofs` | `MaterialIsAlwaysWhole` | `MaterialIsWhole`: slides, overviews, summaries and streams of events; what a chunk holds and repeats; what fusing two rankings keeps and how an answer is spread, for documents and rankings of any length |
| | `AssistantTypeCorrect` | types of all eight parts of MCAssistant |
| `FeedbackProofs` | `FeedbackTypeCorrect`, `NoSendOnClosed`, `StopNeedsOverflow`, `MessagesAreShownOnce` | types; `MembersAreOpen`; `StopsAfterOverflow`; `ShownOnce` |
| `ServicesProofs` | `BillingTypeCorrect`, `OnePaymentOneMonth`, `TierIsAlwaysPaid` | types; `NoMonthUnpaid`; `TierIsPaid` |
| | `UseIsNotLost` | the use of a key in the database never shrinks |
| | `RevokedAlwaysStaysOut`, `OneTokenAlwaysWorks` | the theorems of AuthTokens, of the composition that `services` runs |
| | `ServicesTypeCorrect` | types of all six services |
| | `LimitsAlwaysHold` | `LimitsHold`: windows of requests, those let through by a failing Redis aside; the day's quota of study tools |
| | `RecordsAreAlwaysTrue` | `RecordsAreTrue`: repetitions, badges, streaks of the visits written down, plans |
| | `CachesStayCurrent` | `CachesAreCurrent`: the cached set of cards, the quota that is shown, but for saves that overlapped or failed |

*Queue.* `QueueInv` says that a busy worker holds a job and an idle one none; a
job held is not claimable (running with a fresh lease, or settled or delayed in
the last steps); a worker that has not decided yet finds its row "running"; the
attempts it carries are those of its row. The steps of the pipeline are treated
together: seen from the queue they only move `pc` inside a set of labels.

*Late workers.* Without exclusion a worker may carry an older number than the
row's. `LateInv` gives each row with all its attempts used a credit: attempts,
plus the workers that still carry a number below the maximum for this job, plus
one if the row waits to be claimed, stay within MaxAttempts plus the other
workers. A claim spends one and a decision gives none back.
`WorkersAssumption` (finitely many) makes it a number.

*Intake.* `ReadyInv` adds to `QueueInv` what the one worker of a job knows of
its document at each point: from the extraction on, the text's chunks are to do
or stored; from the start on, an earlier attempt's "ready" has been withdrawn,
so that no later step deletes chunks of a document that is called ready.
`OutcomeInv` adds what was written for others to see: which message each point
follows, and which files are left. The refinement follows from `ReadyInv`: a
step changes a document's stage or its content as DocumentIntake does, or
neither. Punctual workers are assumed; what lost statements can spoil is
excepted by name (`faults`).

*Library.* `IInv` relates the tables (one row per file, references to rows that
exist, the flag behind the message) to what each request, the sweep and the
expirer carry from one statement to the next. It needs no order of requests: the
unique index keeps two uploads apart. The other three theorems assume
`Serial`, one handler, and their invariants build on each other: `SerialInv`
says of a row what the one request has read of it, so that an upload's DELETE
meets a copy which still is expired; `CalmInv` adds, as long as nothing
has failed, the date each row must carry for its readers and pins, or will carry
when the request that is at work has written it. The sweep and the worker
overlap with that request in all of them.

*Rooms.* How far a limit is passed is not inductive in the number of members
alone. `IInv` counts a seat as taken from the moment a request has passed the
check: members plus requests between check and write stay within the limit plus
`Excess`, because a request that passes sees fewer members than the limit, and
no more can be on their way than there are handlers. Documents are counted so
per user. A failed count adds one. For the host, `HostInv` holds while nothing
overlaps or fails: at most one request is at work, and `Shape` says of the
record it carries what the tables must say meanwhile (nobody is host between an
abdication and the promotion, the heir who was picked is still in, whoever is
being kicked is not the host); with nobody at work the tables are settled.

*Talk.* `HandsInv` follows a message from the socket that reads it to the row,
the list and the broadcast: until it is asked about it is in one hand, so that
two handlers never push the same one. `LockInv` says that whoever answers holds
`ai_lock`, unless a lock lapsed under its holder. `WholeInv` is about Redis
while it keeps its data: each entry of the list is a row, the list is the newest
of the rows but for those on their way (`Recent`), an entry has the reactions of
its row or is about to (`Liked`, `Clicking`), and none is there twice (`Once`).
`Ascending`, the rows in the order of their numbers, is shown to exist by the
least number for which it would not.

*Room hub.* A client waits in the channel of registrations at most once, and
never after it was a member. Whoever is closed has left `present` in the same
step and so cannot come back; a timer that counts down is that of a user whose
last client was removed, and a new one stops it when it is registered.

*Tokens.* Either `revoke_before` is still in Redis, and the check finds the
token older, or its lifetime is over and then so is that of every token it is
about. `IInv` carries what each refresh has been checked for until it stores.
`LockInv` says who still owes a full counter its lifetime. `SInv` is about a
session whose requests do not overlap: what is active is the session's last
token, or the one its refresh is about to hand out or to withdraw; what is
active is listed; and each step of the rotation knows which of the two it may
remove. `ServicesProofs` carries these over: a step of the composition is a step
of AuthTokens or leaves its variables alone.

For its types, a counter of wrong codes is bounded by what its key says together
with the requests that are at the code.

*Tools.* A slip nobody raced for is in one hand: stored, with the request that
read it, with the goroutine it was given to, or spent. Whoever fetches holds the
lock unless one has lapsed. For the types, a tool ran for a slip, or is about
to, no more often than there are requests that have resolved it, which bounds
the count by the number of requests.

*Feedback.* While no buffer was full, a channel is closed by its own reader
only, and that is the reader's end; whatever is in the map has an open channel,
as both change together. `ShownInv` counts what a socket was shown together with
what waits in its buffer (`Told`), and bounds it by who has not sent yet: a
sender in the loop over its targets has told those behind it once. For the
types (`Typing`), a reader that sends has a stored message in hand.

*Providers.* `VoiceOK` says of a call how much of what is shown came from which
provider, and that a half stream ends the call or is cleared before the next
one. The pool's counter is common to all calls: a call that no other has
disturbed has tried exactly the keys the counter passed last (`TurnsAgo` at most
PoolSize less the attempts it has left), so that with none left it has tried them
all. For the types: a call that is at work stands at a place of its service's
list, and one that waits for a key has attempts left. That what was said stays
within MaxTokens needs an answer of at least one token (`PoolAssumption`).

*Attachments.* An upload has its hash alone until its row enters. `RowOK` says
what a row's status implies about its analysis and its queue entry, `Named` who
knows the name of each file (a deleted session adds its files to `lost` in the
same step), and the quota an upload has read holds for as long
as no other upload (`raced`) and no late answer (`late`) has come between.

*Session.* `CalmInv` holds as long as nothing overlapped and no call failed. One
activity is at work (`Alone`). Nothing is in the row twice, and an answer stands
directly behind its question, unless the cut took the question (`Honest`). What
a turn at work has not said is not in the row, what it has not pushed is not in
the list, and what it has asked is the last thing said (`Unsaid`, `Unlisted`,
`RowIsRight`). What an edit has in hand is what the row has (`InHand`), so that
it is right to build the list from it: the pairing goes by messages of any
number, each pair a question and the answer next to it (`PairsSoFar`). `calm`
or not, whoever works does so for a session that was made, so no second row
takes the user's title away (`BirthInv`).

*Material.* `MadeInv`: a row whose goroutine lives is pending, what an overview
has spoken is what comes before the line at hand (`MadeOK`), and what a request
for slides has read of the last row still holds unless another request wrote
(`SlidesRead`). A stream that is open has sent nothing final; one that has ended,
one result or error and then "done". The proof corrected the property: it was
stated of any two rows of slides, which a third request breaks (two overlap, the
second row fails beside a first that is done, and who asks then sees the second
only), where the code promises it of a row and the one before.

*Chunks.* The chunks written are consecutive runs of blocks (`Run`, `ChunkOK`),
and the one being written is the run from the last of them to the block at hand
(`BuildInv`). A run's weight is a recursive function, shown to be a sum by the
least length for which it would not be; so adding a block adds its tokens, and
`Bounded`, that a run without a table passes its target by a last heading only
or is one block, is kept by what each branch of the loop tests. `Section` says
which heading of each level is the last before a block since one above it.
Windows of a split overlap as `WindowOK` says. From consecutive runs it follows
that nothing is lost.

*Retrieval.* A share `Whole \div (k + place)` falls with the place (`WorthFalls`),
and two of them pass any one as long as 2 * TopK <= k + 1 (`TwoBeatOne`), so that
whatever beats another in both rankings has the greater score (`BeatingIsMore`)
and is not behind it in any order by score. For the spreading, the places taken
in the first round are the values of an increasing function (`SieveExists`), no
more of them of one document than its share (`InTimeAreFew`), and a place passed
over follows a full share (`PassedOverAfterShare`).

*Billing.* `IInv`: a handler at work on an order will write a date Month days
from today; the order of one that has read PENDING is PENDING or was paid by
another handler today; after its own UPDATE it is paid today, unless that
failed. So whoever writes the user's date writes the one the order's row
justifies. It rests on a day not ending while a handler is at work.
`EarnedInv` says that whoever upgrades does so for an order that was paid, and
`KeptInv` that while the month of a PAID row lasts the user has it, or a handler
is about to write it.

*Rate limit.* Of a window's requests, those let through counted fewer than Limit
entries when they counted. `Passing` is a subset of the entries at that count
together with the requests at work then, which bounds it by Limit and one for
each other handler, whatever was trimmed since. A pipeline that breaks leaves its
entry or not, and its request is none of those let through by a count.

*Flash cards.* `QuotaCountsToday` follows from what one UPDATE does to the row.
`MarksInv` says of a mark on its way that the card it read has as many
repetitions as the row unless another mark overlapped, `ShownInv` that an entry
that differs from its set was written by a reader who overlapped a writer, or is
about to be cleared.

*Progress.* `WillGive` names, for every badge earned and not given, the check
that has still to look. Only a visit whose upsert arrived enters the run, and
one that failed changes neither. Streaks rest on lemmas about runs of days, plans on
lemmas about integer division.

*Quota.* The row is behind what SyncToDB is about to write, which is behind the
memory; a save that fails or overlaps sets `astray`, and the next that is alone
and arrives clears it. A server that starts begins from the row, unless the query
failed.

*Data.* Statements about sequences and recursive functions of any length are
proved by the least number at which they would fail (`LeastNumber`, from the
library's `WFMin` for the natural numbers), since the induction rules of the
library cannot be used with the provers at hand.

Only model-checked:

- everything under fairness (`Converges`, `EventuallySettles`, `EventuallySwept`,
  `AbsentShownOffline`, `DroppedAreCut`), since liveness and ENABLED are out of
  the prover's reach;
- `ReadyIsComplete` and the refinement are not claimed of late workers.

## 4. Findings

Four runs are expected to find a violation; each contradicts a line of the
repository, quoted in `PROJECT.json`: moderation that fails open, an erased
document that was still referenced, a history sent on a closed channel, and a
chat history that is shown backwards after it was refilled. Beside them, the
exceptions named in the properties above are behaviours the models do reach: the
hazards in `PROJECT.json` list them at their lines.

## 5. Bounds, and what they leave out

Handlers are two wherever a race takes two: every property relates what one
request read to what one other wrote in between. There are more rows than the
limit they are checked against. A failure and a crash are enough for a recovery
to be interrupted once. Time is counted in the units the code compares,
shortened (a week of two days, a month of one). A race of three requests, or one
that takes two failures, is beyond the runs, except where a theorem covers it.

A bundle is one property with several conjuncts. The mutant `PROJECT.json` lists
breaks one of them; the modules hold mutants of the definitions behind the
others too, each under the comment "Mutant of".

## 6. Not modelled

- Tools that fetch or compute (weather, news, calculator, ...), moderation
  rules, cleaning of text, prompts, parsing of answers and formats: text.
- Rewriting of questions and search on the web: calls to services.
- The cached lists of documents and collections: the same form as the cached
  sets of cards in FlashCards, a value stored after it was cleared.
- Notifications: a row, then a message to whoever listens; the row is read
  later.
- Votes: a row that is unique by its key and then an increment whose failure is
  ignored, so that the count only falls behind. Collections: the schema, and
  what keeps the `doc_count` their limit is read from, are not in the
  repository.
- Administration, statistics, logs, personas, the Bloom filter, the CSRF guard,
  start-up and routes: reads, independent single-row updates and wiring.
- In the modelled components: rooms, users and keys other than one, since they
  share no row; amounts, prices and signatures; a host's limit of three rooms;
  the answers of requests that only read.

Worth adding where the effort is: a composition of GroupRoom with the room hub's
sockets, for the socket of a member who was removed.
