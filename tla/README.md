# A TLA+ model of the Khatere backend

Khatere is a backend for meeting people in real life: users organize
*hangouts* (or attend moderated *activities*), invite each other, agree on a
place, chat, and keep an *archive* of what happened. It is one Go process
(`src/cmd/api`) with PostgreSQL, Redis, Kafka and MinIO behind it. Every HTTP
request runs in a goroutine of its own, there is no lock in the process except
the one of the chat hub, and with few exceptions every SQL statement is its own
transaction. So whatever is correct in this code under concurrency is correct
because of a `WHERE` clause, a unique constraint, a version column, a row lock
or a trigger. The modules here say which, and for which promise it is enough.

## Inventory

Paths are under `src/internal`. "Hard" is what the properties are for;
`PROJECT.json` lists every hazard with its line.

| Component | State | Operations | Hard |
|---|---|---|---|
| **hangout requests** `hangout/application`, `hangout/adapters/postgres` | `hangouts` (status, version), `hangout_participants` (invite status), `hangout_messages` | create, invite a batch, respond, next status, cancel, send a message | reads and writes in separate statements: two answers, two transitions, a stale count, checks that may be stale when used |
| **meetup pin** same packages | `hangout_meetup_pins` (version), one confirmation row per user | propose (transaction), respond, read | rows replaced under an answer that is in flight; two proposals; participants listed before the transaction |
| **archive** `archive` | `archives`, `archive_media`, `archive_deletion_marks`, objects in MinIO | create, upload, delete (transaction: mark, count, purge), read | READ COMMITTED counting; an object store that does not roll back; uploads that race with a purge |
| **circle** `circle`, migrations 0005/0006 | `circle_connections`, `circle_blocks` | request, accept (transaction), decline, sever, block (trigger), unblock | consent; blocks against requests and accepts in flight; locks |
| **chat hub** `hangout/adapters/websocket`, `ChatSocket` and `SendMessage` of the handler | rooms of clients with a channel of 16, two goroutines a socket | register, unregister, broadcast, read and write a socket | full channels, a channel closed from two sides, peers that vanish, peers that say nothing, messages between upgrade and register |
| **activity** `activity` | `activities` (status, version), Redis detail and list cache | create, approve, reject, get, list | late cache fills, approve against reject |
| **rating** `rating` | `ratings`, Redis summary cache | rate (upsert), summary | late cache fills |
| **comment** `comment` | `comments`, `comment_votes`, `comment_summaries` | create, approve, reject, vote, list, regenerate the AI summary | summaries written out of order |
| **auth** `auth`, `platform/security` | `accounts`, `refresh_tokens` | register, login, refresh | two refreshes with one token; a failure between revoke and create; a lost answer |
| **rate limiter** `platform/httpserver/middleware/ratelimit.go` | a Redis counter per key | count and compare | a counter without a lifetime |
| **notification** `notification` | Kafka topic, consumer offset, `notifications` | publish, consume, list, mark read | loss, duplication, order |
| **qr code, attendance, badges** `qrcode`, `attendance`, `badge`, `userbadge` | one row each | generate, verify a scan, create, award | find-then-create; an award tried once |
| **recommendation** `recommendation` | `user_recommendation_cache`, `user_suggestion_stats` | generate, read, count, record an acceptance, refresh worker | two replacements of a user's rows; counters locked in different orders; failed passes; a rate that outgrows its column |
| **profiles** `user`, `host`, `moderator` | one row per account and kind, the picture in MinIO, `user_interests` | create, edit, upload a picture, replace the interests | whole rows written back; an object and a row changed in turn; keys that a client names; DELETE and INSERT that do not see another transaction's rows |
| **platform, HTTP handlers, web page** | none | configuration, wiring, parsing, status codes | |

How they interact: `hangout` calls `archive` when a hangout becomes final
(`ArchiveCreator`) and `recommendation` when one is created for an activity;
`archive` reads hangouts, participants and messages through a gateway that uses
the hangout repositories directly; `rating` asks `hangout` who attended,
`comment` asks `attendance`; `attendance` calls `userbadge`; nearly everything
publishes to `notification`. All of these calls are in-process and
synchronous; those to `notification`, `archive`, `userbadge` and
`recommendation` are best-effort: an error is logged and the caller goes on.

## The modules

### HangoutLifecycle: what the hangout promises

The abstract hangout: `status`, `invite` (by user) and `messages`, changed by
five atomic operations `Create`, `ChangeStatus`, `AddParticipant`, `Answer`,
`Post`, each with its condition true at the moment of the change. It has two
uses: `Hangout` implements it, and `MeetupPin` and `Archive` have it as their
environment, so that they are checked against what the hangout really promises
and not against a convenient guess. What it does *not* promise matters as much:
participants can be added and messages posted when the hangout is final,
because `invite_participants.go` checks the status in an earlier statement and
`send_message.go` does not check it.

### Hangout: one hangout under concurrent requests

| Module | Code |
|---|---|
| `hangout`, `invite`, `messages` | the three tables, for one hangout |
| `req[r]` | the local variables of one running use case: what it has read and still believes |
| `CreateHangout` | `create_hangout.go`, one transaction |
| `InviteFind`, `InviteCount`, `InviteAdd`/`InviteSkip`/`InviteUnanswered`, `InviteReturn` | `invite_participants.go`: find, count once, one insert per invitee |
| `RespondFind`, `RespondUpdate`/`RespondTooLate` | `respond_to_invite.go` |
| `UpdateHangoutStatus` or `CancelHangout`, then `StatusUpdate`/`StatusConflict`, `CallCreateArchive`, `CancelList`, `CancelNotify`, `CancelReturn` | `update_hangout_status.go`, `cancel_hangout.go` |
| `SendFind`, `SendInsert` | `send_message.go` |
| `Abandon` | the process dies, a statement fails or the client's context is cancelled, between any two statements |

An action is one SQL statement with the code up to the next. Hangouts do not
share rows, so one is the whole model. A batch of invitees is a set: the order
within a batch is the client's, and every order is explored. A publication
either happens or does not (`Notify`), because its error is only logged.
An `INSERT` of an invite is stored and answered, is refused, or is stored and
answered with an error (`InviteUnanswered`), and then the batch does not count it.
`acked`, `notices`, `archiveCalls`, `overlapped` and `unanswered` are history:
they record what was answered or published, and no action reads them.

Left out: soft deletion of hangouts and messages (no code sets `deleted_at`),
texts, times and the lengths of messages. The `RecordAccepted` call that ends
the creation is in `Recommendation`, the broadcast of a message in `ChatHub`.

### MeetupPin: proposals and confirmations

The proposal's transaction is one action: it begins with the write of the pin,
whose row lock (or unique constraint) orders the proposals, and an answer is
one `UPDATE` by row id. The id of a confirmation row is a fresh UUID at every
reset; the version of the reset stands for it. `found` (in a row) is history.

The names of `MeetupPin` that another component also has (its `TypeOK`, `Init`,
`Spec`, `req`, ...) carry a prefix: `PinTypeOK`, `PinInit`, `PinSpec`, `pinReq`.
`ActivityCache` (`Cache...`, `cacheReq`) and `Recommendation` (`Suggest...`) do
the same. So each can stand beside another component in one module of proofs.

### Archive: purge when everybody has deleted

A delete request is one READ COMMITTED transaction of up to seven statements.
What it has written is held in `req[r]` until it commits; the count in
`Unanimous` sees the committed marks and its own. The hangout gateway reads on
another connection, but reads committed rows either way. Deleting an object
takes effect at once and is not rolled back. `DeleteMark` waits for an open
transaction with the same mark, as the primary key makes it. Two transactions
that purge at once do not arise (the second would have to count the first one's
mark), so the row locks of a purge are not modelled. `CreateArchive` is called
at most once: this is `ArchiveCalledOnce`, proved of `Hangout`. `Answer` is left
out of the environment: a participant counts whatever the answer.

### Circle: one pair of users

`Accept` locks the connection with `SELECT ... FOR UPDATE`, looks for blocks
and updates. `Block` is one `INSERT` whose trigger deletes the connection; as
PL/pgSQL runs each statement with a snapshot of its own, the trigger's scan and
its delete are two steps, and the delete waits for the row lock. `late` and `by`
are history.

### ActivityCache: one activity, its verdict, its ratings and what Redis holds

| Module | Code |
|---|---|
| `activity`, `ratings` | the row of `activities` and the rows of `ratings` |
| `cache[k]` | the keys of the detail, of the list of approved activities, and of the rating summary; a key that is not there is `Miss` |
| `CreateActivity` | `create_activity.go` |
| `GetCached`, `ReadTable`, `SetCached` | `get_activity.go`, `list_activities.go`, `get_rating_summary.go`: the same three steps |
| `ReviewFind`, `ReviewUpdate` | `approve_activity.go`, `reject_activity.go` |
| `RateCheck`, `RateUpsert` | `create_rating.go` |
| `InvalidateNext`, `Publish` | what all the writes owe afterwards, one call at a time |
| `ExpireEntry` | Redis: every key is stored with a TTL |
| `Attend` | the hangout component, by `HangoutRepository.Attended` |

The list is one key and one activity is one bit of it: it is stored and deleted
as a whole, so another activity can only delete it more often. Any call to Redis
may fail: a failed read is a miss, a failed deletion leaves the entry and is
recorded in `raced`, which is history, like a store of what has changed since.
Left out: tagging with interests, and the activity's soft deletion (nothing sets
`deleted_at`).

### NotificationPipeline: from an event to a row

`topic`, `committed` and `position` are Kafka's: the records of each partition,
the group's offsets, and how far this consumer has read. The worker of
`consumer.go` calls `ReadMessage`, which is two steps for a consumer group:
`Fetch`, then `Commit` *before* the record is returned; then it inserts
(`Persist`). A failure at any step is logged and the loop goes on. `WorkerStops`
is the end of the process at any point, `WorkerStarts` its restart from the
committed offsets. The producer's balancer looks at sizes and never at the key,
so `Publish` takes any partition; a retry of its writer may write a record
twice. There is one consumer, and a rebalance of the group without a restart is
not modelled; nor are listing notifications and marking one read.

### BadgeAward: scan, award, notify

EXTENDS `NotificationPipeline`, with the requests of `qrcode`, `badge`,
`attendance` and `userbadge` in front of it, for one activity of a host. A code
is named by the request that made it. `Scan` is `verify_scan.go` with
`award_badge.go`, which it calls: `ScanFind`, `ScanCreate`, `AwardLookup`,
`AwardFind`, `AwardCreate`, `AwardPublish`. The lookup of the code and of an
earlier scan are one action, because a code never changes once it is there. The
worker and the requests share one process, so `Crash` stops all of them.
`returned` and `failed` are history.

### Comments: moderation, votes, ranking and the AI summary

| Module | Code |
|---|---|
| `comments`, `votes`, `summary` | `comments`, `comment_votes`, the row of `comment_summaries`: which comments its text was made from, and `comment_count` |
| `attended` | comments whose author has scanned the code (`IsVerified`) |
| `ReviewFind`, `ReviewUpdate` | `approve_comment.go`, `reject_comment.go` |
| `RegenerateList`, `Summarize`, `SummaryUpsert`, `RegenerateFails` | `regenerate_summary.go` and the call of the AI |
| `VoteFind`, `VoteUpsert` | `vote_comment.go` |
| `ListComments`, `ListTally`, `ListVerify`, `ListSort` | `list_comments.go`; `Score` is `computeScore` in hundredths, `Sorted` its `sort.SliceStable` |

A comment is its position in the order of `created_at`. `Prompt` is the cut of
`buildPrompt` (40 comments in the code, `MaxPrompt` here). An AI that is not
configured (`noop.go`) is one that always fails. `lost` and `overtaken` are
history: the comments whose summary failed or was overwritten, and the requests
that had listed the comments before another one wrote.

### Recommendation: one user's cached suggestions and their counters

| Module | Code |
|---|---|
| `cache`, `old` | the user's rows of `user_recommendation_cache`; which computations are older than the cutoff |
| `suggested`, `accepted`, `lock` | the counters of `user_suggestion_stats` and their row locks |
| `Generate`, `Score`, `DeleteStart`, `DeleteWaited`, `InsertRows` | `generate_suggestions.go`, one candidate after the other, and the transaction of `ReplaceForUser` |
| `Get`, `RecordNext`, `RecordCommit`, `Enrich` | `get_suggestions.go`, the transaction of `RecordSuggested` |
| `Refresh` | `POST /recommendations/refresh` |
| `RunOnce`, `Age` | `refresh_worker.go`, and the time that makes a cache stale |
| `CreateHangout`, `RecordAccepted` | the best-effort call at the end of `create_hangout.go` |
| `Deadlocked`, `Fault` | Postgres ends a transaction of a ring; a statement fails |

The scores are sums of floating-point signals that change all the time, so a
computation ranks its candidates in any order. The order matters: it is the
order in which `RecordSuggested` locks the counters. A computation has a name,
which is used again when no row has it any more.

One signal has no bound: the acceptance rate divides two counters that nothing
keeps in proportion, since a hangout counts as an acceptance of any approved
activity. With `MaxRate` acceptances per suggestion the weighted sum no longer
fits `total_score NUMERIC(5,4)` (`TooOften`): at a weight of 0.15, 61 to 67 of
them, depending on the other signals. The `INSERT` of that row then fails, and
with it the whole replacement (`InsertRows`), every time it is tried.

### ChatHub: the live chat of one hangout

| Module | Code |
|---|---|
| `room`, `chan`, `closed` | the hub's map for one hangout, each client's channel of 16 and whether it is closed |
| `Register`, `Unregister`, `Broadcast` | `hub.go`; its mutex makes each one step |
| `Upgrade`, `Join`, `ReadMessage`, `ReadFails`, `Leave` | the handler `ChatSocket`, with the deferred `Unregister` |
| `Store`, `Send` | `SendMessage` over REST and over the socket: stored, then broadcast |
| `Take`, `Write`, `WriteFails`, `PumpEnds` | `WritePump` |
| `FallSilent` | the peer stops reading, or vanishes without a word |
| `HangUp` | the peer closes or resets the connection, or the kernel gives up on it |

A message that is refused or not stored changes nothing and is left out; one
that is stored, and whose `INSERT` is answered with an error, is in the history
and never broadcast (`unsent`, which is history). A write blocks until its
deadline of ten seconds: of a peer that is silent or gone it may fail, of one
that reads it does not. A read returns what the peer sends, or an error once the
peer has hung up or the pump has closed the connection. There is no read
deadline, ping or pong, so the read of a silent peer returns nothing: in a quiet
room its reader, its pump and its channel may stay for ever. Rooms share nothing
but the map, so one is enough.

### RateLimiter and Accounts: /auth

`RateLimiter` is the middleware: `Incr`, the comparison, `Expire` of the request
that made the key, and Redis failing before (`FailOpen`) or after it has counted.
`Accounts` EXTENDS it and puts it in front of `register.go`, `login.go` and
`refresh_token.go`, for one e-mail address, the devices logged in to it, and one
IP address. A refresh is `RefreshFind`, `RefreshRevoke`, `RefreshCreate`. A device
keeps the last token it was given; an answer may be lost, and then it goes on
with the old one. It may send one token twice. Access tokens are not modelled:
they are signed and no table knows them. `login`, `cut` and `overlapped` are
history.

### Profile: rows, pictures, and the interests of one user

`Owner` are the accounts as users, as hosts and as moderators: the keys of the
rows of the three tables. Those in `User` can be edited. `row` holds the rows; an
edit and an upload read a user's row, and write all its columns back
`WHERE version = ...`. `objects` are the pictures in MinIO: an upload stores the
new one, updates the row and deletes the old one, and stops anywhere. The old one
is whatever the row named. `update_profile.go` takes any string for the key, so
`PatchFind` takes any key, also the one of another user's picture, and
`UploadDelete` deletes the object of any key. `claimed` is history: the keys that
an edit has put in some row. The bucket is the profiles' own (`config.go:63`;
the archive's is another unless they are configured to be one).

`interests` says for every row of `user_interests` which replacement inserted it,
because a DELETE at READ COMMITTED does not see the rows that came after it
began; they are those of one user, `Me`. `meant`, `chosen` and `mixed` are
history. A host's and a moderator's row are created and never changed by any
handler.

### MC modules

`MCHangout`, `MCMeetupPin`, `MCArchive`, `MCCircle`, `MCActivityCache`,
`MCBadgeAward`, `MCComments`, `MCRecommendation`, `MCChatHub`, `MCAccounts` and
`MCProfile` give the constants values. Where no liveness property is checked there is a symmetry set: accounts other than the organizer,
request slots, object keys and places are interchangeable.

## What is checked

| Run | Result | What it shows |
|---|---|---|
| `hangout` | pass, 2,076,713 states | `MessagesByAccepted`, `NoticesAreTrue`, `ArchiveCalledOnce`, `CapUnlessOverlapped`, and `LifecycleSpec`: the requests implement the abstract hangout |
| `pin` | pass, 529,165 states | `AnswersCountForPlace`, `NoLostProposal` |
| `archive` | pass, 666,271 states | `PurgedByAll`, `PurgedWhenAllAsked`, `ListedMediaExist`, `PurgedHoldsOnlyRaced` |
| `archive_skew` | violation | `AllAskedIsPurged`: the last two deletions at once purge nothing, ever |
| `circle` | pass, 85,070 states | `AcceptedByAddressee`, `BlockEndsConnection` |
| `activity` | pass, 268,404 states | `StaleOnlyByRace`, `VerdictsToldStand`, and in the end `CacheSettles` |
| `badge` | pass, 330,778 states | `HostsSeeTheCode`, `ScanAwardsBadge`, `BadgeNoticesTrue`, `StoredAtMostOnce`, and in the end `NothingBlocksTheTopic` |
| `comments` | pass, 806,196 states | `VotesOnVisible`, `VerdictNoticesTrue`, `SummaryMissesOnlyLost`, `SummaryShrinksOnlyOvertaken`, `RankedByVotesFirst` |
| `recommendation` | pass, 508,716 states | `CacheOfOneRefresh`, `SeenIsCounted`, and in the end `StaleIsRefreshed`, `RequestsEnd` |
| `chat` | pass, 210,107 states | `NoPanic`, `NoGaps`, `MissedOnlyAtJoin`, and in the end `GoneClientsEnd` |
| `accounts` | pass, 1,013,001 states | `OneLiveUnlessOverlapped`, `HeldTokenIsLive`, `RefusedForThisWindow` |
| `profile` | pass, 1,372,136 states | `NoLostEdit`, `PictureExists`, `InterestsOfLastRequest` |

Every component also has a type invariant. It is proved of all of them (below),
and the runs spend their time on what could be wrong.

### Where the code keeps less than it says

Several comments promise more than the code does under concurrency. The models
have these behaviours, and a property says what is left of the promise, by
naming the ways in which it fails and excluding all others.

| Comment | What happens | What is left |
|---|---|---|
| `archive/application/delete_archive.go:12`: with the transaction, the last two deletions cannot both read "not unanimous yet" | they can, at READ COMMITTED; run `archive_skew` shows it | `PurgedWhenAllAsked`: one deletion at a time purges |
| `hangout/domain/hangout.go:10`: `MaxParticipants` is the hard cap | two overlapping invite requests fill the same room twice; an invite that is stored and answered with an error is not counted | `CapUnlessOverlapped` |
| `0009_add_meetup_pins.sql:46`: one row per active participant per pin | who accepts after the proposal's list has none | `AnswersCountForPlace`: a row is of a participant, of the current place |
| `archive/application/purge_archive.go:37`: every media file is removed | an upload in progress adds its file after the purge | `PurgedHoldsOnlyRaced` |
| `0006_block_deletes_connection_trigger.sql:4`: guaranteed at the database level | a request checked before the block is inserted after it | `BlockEndsConnection` |
| `platform/httpserver/middleware/ratelimit.go:30`: within window | a key whose `EXPIRE` is lost refuses for ever | `RefusedForThisWindow` |
| `auth/application/refresh_token.go:33`: the old one is revoked, a new one issued | two refreshes that overlap issue two; a stop in between issues none | `OneLiveUnlessOverlapped`, `HeldTokenIsLive` |
| `user/domain/repository.go:24`: replaces the interests as a single transaction | two that overlap leave interests of both | `InterestsOfLastRequest` |
| `recommendation/adapters/worker/refresh_worker.go:16`: recomputes the cache of every user whose cache is too old | the acceptance rate is not in [0, 1] as `suggestion_stats.go:23` says, and a score can outgrow its column: `EveryStaleIsRefreshed` is violated | `StaleIsRefreshed`: unless such a rate stays too high |

`StaleOnlyByRace`, `ScanAwardsBadge`, `SummaryMissesOnlyLost`,
`SummaryShrinksOnlyOvertaken`, `MissedOnlyAtJoin` and `PictureExists` are of the
same kind where the code promises less: they name every way in which a cache entry
is stale, a scan earns nothing, a comment is missing from the summary, a message
from a socket or a picture from the bucket, and exclude all others.

The counterexample of `archive_skew`: the last two participants insert their
marks in two open transactions, each counts the committed marks and its own, both commit; the
primary key then refuses every further mark.

`EveryStaleIsRefreshed` is what `refresh_worker.go:16` says, and
`StaleIsRefreshed` is what is left of it. TLC finds the former violated in the
instance of the run `recommendation`, without any fault: a GET suggests an
activity once, a hangout is created around it, the cache grows old, and every
pass of the worker fails at the same `INSERT`.

Definitions whose name starts with `Bug` are faults a change of the code could
introduce (a dropped version check, `<=` for `<`, a missing status in a
`WHERE`). No action uses them. In a mutation run one replaces the definition
below it, and TLC must find the property violated; every property of the
passing runs has one (`mutants` in `PROJECT.json`).

### Bounds

* `hangout`: an organizer and two invitees, `MaxParticipants = 2` (room for one
  of them: at the cap, below it and, when requests overlap, above it), two
  requests at a time, one message. Every race in the code is between two
  requests: a read that another request makes stale. A third participant in a
  race only repeats the first or the second.
* `pin`: the organizer and one invitee, two places, three proposals (before,
  during and after a request that is in flight), two requests; no chat.
* `archive`: three accounts (one may join late while another keeps the
  archive), two requests, two uploads, one message.
* `circle`: two users, three requests at once (a block, an accept and a send
  can all be in flight), three connection rows ever.

* `activity`: one rater with two scores and two ratings, two requests: every
  race here is between one reader and one writer, or two writers.
* `badge`: two users, three requests (two scans and the host), two partitions of
  two records: a duplicate fills one, and the worker can be behind in both.
* `comments`: two comments, of which the AI is given one, one voter, two
  requests: two moderators on one comment, two approvals, a vote or a list
  during either; one comment pushes the other out of the prompt.

* `recommendation`: two activities, two requests and the worker, one failing
  statement; room for less than one acceptance per suggestion, so that a GET and a
  hangout reach the limit. Two feeds of two activities are the smallest that lock in opposite
  orders; the worker against two requests is a collision while waiting.
* `chat`: two sockets and a REST request, channels of one message, three
  messages: one in the channel, one being written and one that finds it full,
  while the other socket, or REST, posts.
* `accounts`: two devices, two requests, three refresh tokens (a login, its
  rotation, and a second one by an overlapping refresh), one request a window and
  two that are counted.
* `profile`: two users and a host, two texts, three keys (an upload that replaces
  another, while a third is named or stored), two interests, two requests, rows up
  to version 3 and three replacements of the interests: two that overlap, and one
  after them. The constraint `OneSide` of `MCProfile` keeps the product of the parts
  small: a replacement reads of the rows only whether there is one, nothing that
  is done to rows reads the interests, and a host's row and a user's have nothing
  in common. So TLC looks at replacements only while no row is edited, and at a
  host's row only while no user has one.

`MaxMessages`, `MaxVersion`, `MaxRequests`, `MaxRatings`, `MaxTopic`,
`MaxComments`, `MaxFaults`, `MaxHits`, `MaxSets`, the value of `MaxRate` and the
sizes of `Key` of `Archive` and `Profile`, of `Token` and of `Gen` are the
bounds that are not the code's; each appears in the guards of the actions that
would go beyond it. The proofs need none of them to be small.

`CHECK_DEADLOCK` is off where the system really stops: no request has to be
sent, and when a hangout is final and every invite answered there may be none
left; in `recommendation` and `chat` every request and socket is used once,
in `profile` the versions and the replacements run out. The other
runs leave it on and it says little: some new request, or the failure of one that
is under way, is possible in every state. That nobody waits for ever is claimed
only where a liveness property says so.

### Fairness

Four specifications state it.

* `ActivityCache`: a request that has begun goes on or stops (`WF` of its own
  steps; a goroutine is scheduled, and its calls have contexts that end), and
  Redis lets every key with a TTL expire. Nobody has to send a request. Then
  `CacheSettles`: whatever was lost or late, the cache is fresh once nothing is
  written any more. It needs every key to have a TTL (`BugListStays`).
* `NotificationPipeline`: the worker's loop goes on, and a process that stopped
  is started again. Both are weak. No step of it is assumed to succeed: a commit
  or an insert may fail each time. Then `NothingBlocksTheTopic`: unless the
  process stops for ever, the worker gets to the end of every partition.

* `Recommendation`: the steps of every request and of the worker that has begun
  (`WF` of `Works`; Postgres finds deadlocks), and the ticker of the worker
  (`WF` of `RunOnce`). No user has to ask for anything, and a statement may fail.
  Then `RequestsEnd` although counters are locked in any order (it needs the
  rollback, `BugNoRollback`), and `StaleIsRefreshed` although passes fail (it
  needs the loop to go on, `BugStops`). Without its exception,
  it is violated under the same fairness (`EveryStaleIsRefreshed`).
* `ChatHub`: a goroutine that can go on does, and a read of a connection whose
  peer has hung up, or that is closed, returns. The reads that bring a message
  and the peers have no fairness, and nothing says that a read of a silent peer
  returns or that a silent peer hangs up. Then `GoneClientsEnd`, of the clients
  that were dropped, whose peers hung up or to whom a write failed: the pump's
  `Close` wakes the reader, whose `Unregister` closes the channel
  (`BugLeaveOpen` leaves one of them for ever).

The other modules have none. What the code would have to promise for liveness
(retrying the creation of an archive, of a purge, of a badge) it does not do,
and the models say so through `Abandon`.

## What is proved

Every invariant and every action property that a run checks is a theorem, for
every value of the constants that the assumptions allow, and so is the
refinement of `HangoutLifecycle`. Liveness stays with TLC. The proofs of a
component are in one module; three of these modules hold those of two components
each, one section after the other.

| Module | Components |
|---|---|
| `HangoutProofs` | `HangoutLifecycle`, `Hangout` |
| `ArchiveAndPinProofs` | `Archive`, `MeetupPin`: the two that run while the hangout changes |
| `CircleProofs` | `Circle` |
| `BadgeAwardProofs` | `NotificationPipeline`, `BadgeAward` |
| `CommentsProofs` | `Comments` |
| `ChatHubProofs` | `ChatHub` |
| `AccountsAndCacheProofs` | `Accounts` with `RateLimiter`, `ActivityCache`: the two that keep state in Redis |
| `ProfileAndSuggestionProofs` | `Profile`, `Recommendation`: the two that keep what is known of users |

### Hangouts

`HangoutProofs` proves with TLAPS, for every finite set of users, every number
of requests, every cap and every bound on the chat:

| Theorem | |
|---|---|
| `TypeCorrect` | `Spec => []TypeOK` |
| `Invariant` | `Spec => []IInv` |
| `ChatIsByAccepted`, `NoticesNeverLie`, `OneArchiveCall`, `CapHoldsUnlessOverlapped` | the four safety properties of the run `hangout` |
| `AnswersAreKept` | `AckedAnswerIsStored`: an answer that was confirmed stays |
| `Refinement` | `Spec => LifecycleSpec` |

Assumptions: `UserAssumption` (the users are finite and the organizer is one of
them) and `BoundsAssumption` of `Hangout`; TLC evaluates both in every run.

The safety properties are not inductive. `MessagesByAccepted` says nothing of a
request between its check and its insert, and the cap says nothing of a request
that holds a count. `IInv` adds

* `RequestsOK`: what each pending request may rely on *although* it is stale.
  A request that will insert a message is by a user whose invite is accepted,
  because an accepted invite is final. A pending status update read a version
  no newer than the row's, and if the version is still the row's, its new
  status is one step from the row's status. At most one request is past the
  update that made the hangout final, and the hangout has then the status that
  request set.
* `CountIsKept`: if no two invite requests have overlapped, there is at most one
  request that holds a count, and the number of active participants, without
  those whose insert was answered with an error, is at most that count;
  inserting moves both by one, and an answer can only lower the former.

Each is preserved action by action; the lemmas are the cases. `Refinement`
follows from `IInv`: an action that changes no table stutters, and the others
take the abstract step of the same name, whose condition is supplied by
`StillPending`, by the version compare-and-set with `RequestsOK`, or by
`MessagesByAccepted`'s strengthening.

### Circle

`CircleProofs` proves, for every number of requests at once and of connection
rows, `TypeCorrect`, `Invariant`, `ConsentIsNeeded` (`AcceptedByAddressee`) and
`BlocksEndConnections` (`BlockEndsConnection`), from `PairAssumption` and
`BoundAssumption`. The invariant says who holds the row lock, and what the
holder may rely on:

* `LockIsExclusive`, and `AcceptHasItsRow`: from `FOR UPDATE` to `COMMIT` the
  row is the pending request to the accepting user. Without it not even the
  types are inductive: the update would be of a row that may be gone.
* `BlockFindsRow` and `BlockLeavesLate`: between the scan of the trigger and
  its commit, the row is the one it found or was inserted after it looked.
  `IdIsPositive` makes a scan that found nothing different from any row.

Most steps only move a request along before any of this matters (`QuietStep`);
the lemmas after it are the others.

### Badges and the notification pipeline

`BadgeAwardProofs` proves, for any users, requests, partitions and bound on the
topic, the type invariant and the four safety properties of the run `badge`:

| Theorem | |
|---|---|
| `TypeCorrect`, `Invariant` | `Spec => []TypeOK`, `Spec => []IInv` |
| `OneCode` | `HostsSeeTheCode` |
| `ScanIsAwarded` | `ScanAwardsBadge` |
| `NoticesAreTrue` | `BadgeNoticesTrue` |
| `AtMostOnce` | `StoredAtMostOnce` |

from `TopicAssumption` (the bound is a number), `EventAssumption` (the events
are badges of users) and `CodeAssumption` (no code is none of the codes). The
lemmas about the worker, one per step, come first in the module and do not
mention badges. That no record is stored twice needs the order of the
offsets, so `PipelineInv` says that

* what is committed in a partition is not beyond what was read, nor that beyond
  its end (`OffsetsInTopic`), and nothing is stored before it is committed
  (`StoredIsCommitted`);
* the record in hand is the last one read and not committed (`CommittingIsNew`),
  or the last one committed and in no row (`PersistingIsNew`), and is still what
  the topic has there (`RecordOfTopic`, which also carries `BadgeNoticesTrue`
  from the topic to the rows).

A restart goes back to what is committed, so it can skip a record but not read
one again that was stored. Of the requests, `RequestsOK` says that one that
awards is by a user who scanned, and one that publishes by a user who has the
badge: both are stale when used, and stay true because no statement in the code
takes a scan or a badge back. `RequestStep` is then the one argument every
action uses: a request leaves the award only with its user awarded or failed.

### Profiles

`ProfileAndSuggestionProofs` proves of `Profile`, for any users, hosts and
moderators, any texts, keys, interests and requests:

| Theorem | |
|---|---|
| `TypeCorrect` | `Spec => []TypeOK` |
| `EditsAreKept` | `NoLostEdit`, by `ReadsHold`: a request whose version is still the row's holds the row itself, so what it writes back unasked is what is there |
| `PicturesExist` | `PictureExists`, by `RowsApart` (no two rows have an uploaded key in common), `StoredIsOwn` (an object between upload and update is there, in no row, and in the hands of one request) and `DeletedIsOld` (what a request will delete is in no row) |
| `InterestsReplaced` | `InterestsOfLastRequest`, by `SeesAll`: a replacement during which none has committed has seen every row there is |

from `OwnerAssumption`, `NoneAssumption` and `BoundAssumption`. Nothing is assumed
of the keys that clients name: the three parts of the argument are about the keys
that no edit has put in a row, and an edit that names a key, anybody's, takes it
out of them for good. Two requests never draw one key, because `named` keeps every
key that was drawn: this is the uniqueness of a UUID.

### The chat hub

`ChatHubProofs` proves, for any number of sockets and REST requests, channels of
any capacity and any number of messages:

| Theorem | |
|---|---|
| `TypeCorrect` | `Spec => []TypeOK` |
| `ChannelsClosedOnce` | `NoPanic`, by `RoomHolds`: the channel of a client in the room is open, and that of one that has left is closed |
| `DeliveredInOrder` | `NoGaps`, by `LinedUp`: what was written, the message in the pump's hand and the channel are, in this order, a piece of what was broadcast since `from`, and all of it for a client in the room |
| `NothingMissedInTheRoom` | `MissedOnlyAtJoin`, by `AllSent` (what is stored is broadcast or in a writer's hand) and `PumpRuns` (a client whose connection is open has a pump) |

from `WriterAssumption` and `CapAssumption`. Neither liveness nor fairness is
used: the safety part of `Spec` is enough.

### The archive

`ArchiveAndPinProofs` proves of `Archive`, for any finite sets of users and of
keys and any number of requests:

| Theorem | |
|---|---|
| `TypeCorrect`, `DeletionInvariant`, `MediaInvariant` | the types and the two inductive invariants |
| `PurgeIsUnanimous` | `PurgedByAll`, by `MarkedByParticipants` and `PurgesForAll`: whoever marks takes part, so a purge that has counted as many marks as participants has counted each of them |
| `LastOnePurges` | `PurgedWhenAllAsked`, by `NotTheLast`: alone, a deletion that does not purge is not the last |
| `ListedFilesExist`, `PurgeLeavesOnlyRaced` | `ListedMediaExist`, `PurgedHoldsOnlyRaced`, by `UploadOwnsKey` (an upload's object is nobody else's) and `PurgeHasListed` (a purge deletes files that have a row, and omits none but later ones) |

from `ArchiveAssumption` and `UserAssumption`. The code compares two numbers, and
the promise is about two sets; `CountIsSound` and `CountIsComplete` carry one to
the other, which needs that participants are never removed. That a participant
joins late is exactly where the argument fails, as the run shows.

### Accounts behind the rate limiter

`AccountsAndCacheProofs` proves of `Accounts`, for any devices, tokens and
requests and any limit:

| Theorem | |
|---|---|
| `TypeCorrect`, `TokenInvariant` | `Spec => []TypeOK`, `Spec => [](TypeOK /\ TokenInv)` |
| `LoginHasOneToken` | `OneLiveUnlessOverlapped`, by `OneChain`: until refreshes of it overlap, a login has one live token or one request that rotates it, or both before the token is revoked |
| `HeldTokenWorks` | `HeldTokenIsLive`, by `TokensHaveOwners`: a token is known to one device, so nobody else revokes it |
| `RefusalsAreFair` | `RefusedForThisWindow`, by `WindowInv`: a key that counts has a lifetime, is about to get one, or has lost it |

from `NoneAssumption` and `LimitAssumption`. The property of the limiter is proved
of the composition: which request is between INCR and EXPIRE is known to the
requests of `/auth` only.

### Comments

`CommentsProofs` proves, for any number of comments and requests, any finite set
of voters and any limit of the prompt:

| Theorem | |
|---|---|
| `TypeCorrect`, `Invariant` | `Spec => []TypeOK`, `Spec => []IInv` |
| `VotesAreOnVisible`, `NoticesAreTrue` | `VotesOnVisible`, `VerdictNoticesTrue`, by `ReviewedOnce` (a review bumps the version, so a comment is reviewed once) and `RequestsGood` (what a request has checked stays true) |
| `SummaryMisses` | `SummaryMissesOnlyLost` |
| `SummaryShrinks` | the action property `SummaryShrinksOnlyOvertaken`, by `SummaryInv`: the summary is that of some list of approved comments, and a request that nobody has overtaken has listed at least these |
| `ListIsRanked` | `RankedByVotesFirst` |

from `CommentsAssumption` and `SummaryAssumption` (no summary is none of the
summaries). Two facts about the operators carry it. `PromptPushesOut`: what the
prompt leaves out of a list has given way to as many newer comments as it holds.
`SortingSorts`: entries with a comment each can be put in order, so that `Sorted`
chooses such an order. Both rest on `RankIsBijection`: in a strict total order of
a finite set, counting what precedes an element numbers the elements from 1.

`SummaryMissesOnlyLost` was not inductive as it had been checked, with two
comments. With three, a comment that newer ones had pushed out of a summary, and
not of a stale one written over it, was in no account. It is one of those
overwritten (`Heeded` in `SummaryUpsert`), and what excuses a comment that is
still to be summarized is now its own approval and no other. TLC finds no
violation with three comments either (without voters, 1,334,160 states).

### The meetup pin

`ArchiveAndPinProofs` proves of `MeetupPin`, for any finite set of users, any
places and any number of requests, over every behaviour of the hangout that
`HangoutLifecycle` allows:

| Theorem | |
|---|---|
| `PinTypeCorrect`, `PinInvariant` | `PinSpec => []PinTypeOK`, `PinSpec => []PinInv` |
| `AnswersAreForThePlace` | `AnswersCountForPlace` |
| `ProposalsAreNotLost` | `NoLostProposal` |

from `UserAssumption`. The two properties are nearly inductive. What they lack
is `ListedHaveJoined`: the participants that a proposal read before its
transaction have accepted, and still do when their rows are inserted, because an
accepted invite is final. It is the environment's promise: `PinEnvironmentSteps`
takes it from the operations of `HangoutLifecycle`, which `Refinement` proves of
the hangout's code. A request mostly changes its own state and nothing else
(`PinWaits`); the two cases that are left are the transaction of a proposal
(`WriteKeepsInv`), which bumps the version and so makes its own version differ
from every other, and the `UPDATE` of an answer (`AnswerKeepsInv`), which finds
its row by the id and so by the reset it was made for.

### The cached activity

`AccountsAndCacheProofs` proves of `ActivityCache`, for any raters, scores and
number of requests:

| Theorem | |
|---|---|
| `CacheTypeCorrect`, `CacheInvariant` | `CacheSpec => []CacheTypeOK`, `CacheSpec => []CacheInv` |
| `StaleIsAccountedFor` | `StaleOnlyByRace`: every entry that differs from the table has a deletion due, or one that was lost, or was stored by a reader that had been overtaken |
| `NoWrongVerdictIsTold` | `VerdictsToldStand` |

from `RatingsAssumption` and `MissAssumption` (what stands for an absent key is
no view of any key). `StaleOnlyByRace` speaks of every entry and every request
and is inductive as it is. `VerdictsToldStand` is not: a cached verdict was in a
reader's hands first, and a notice in a reviewer's. `StateHolds` says what each of
them may rely on although it is stale. A reader holds no verdict that does not
stand, because a verdict is never changed. A reviewer whose version is still the
row's has found it pending, so of two reviews one fails. `StatusMovesOn` is the
reason both hold on: the status moves once from none and once from pending.

### The suggestions

`ProfileAndSuggestionProofs` proves of `Recommendation`, for any finite set of
activities, any number of requests and of failures:

| Theorem | |
|---|---|
| `SuggestTypeCorrect`, `SuggestInvariant` | `SuggestSpec => []SuggestTypeOK`, `SuggestSpec => []SuggestInv` |
| `ReadersSeeOneRefresh` | `CacheOfOneRefresh` |
| `ShownSuggestionsAreCounted` | `SeenIsCounted` |

from `RunnerAssumption`, `ActivityAssumption` (the rows of a table are finitely
many) and `FaultAssumption`. At READ COMMITTED a `DELETE` does
not see the rows that another transaction inserts meanwhile, so that two
computations could leave rows of both. The argument why they do not has three
parts:

* `CacheListed`: the rows are the ranking of one computation, whole. The type of
  what `TopForUser` reads back needs this too: rows have an order because no two
  of one computation have the same rank (`ListedIsOrdered`).
* `SnapsApart`: what a `DELETE` has seen is what is cached, or is gone. So what
  it leaves is the whole cache or nothing.
* `CandidatesGrow`: of two computations one has all the candidates of the other,
  because approvals are never taken back. So a computation that would add its
  rows to those of another has one in common with them, and the unique key of
  `user_id, activity_id` makes its `INSERT` fail (`InsertReplaces`).

The last part is a fact about the candidates, and the only one the cache relies
on. If a moderator could withdraw an approval, or a filter chose candidates by
what the user does meanwhile (`activity_candidate_source.go:24` announces one),
two overlapping computations with no candidate in common would both be stored.
So they would if 500 activities were approved between them, which is why the
model says that the limit is not reached.

`ShownIsCounted` counts, besides the GETs that have answered, those that have
committed their counters and not yet read the activities.

### What is only model-checked

The liveness properties (`CacheSettles`, `NothingBlocksTheTopic`,
`StaleIsRefreshed`, `RequestsEnd`, `GoneClientsEnd`): liveness under fairness is
out of the prover's reach. And the violation that `archive_skew`
shows.

## Plan

Done: every module above, with the proofs of every component.

Next: `ArchivePool`, the deletions that each need a second connection of the
pool (`archive/application/purge_archive.go:58`).

## Not modelled

* **Scores of recommendations**: floating-point sums over other components'
  reads. Any ranking is a possible one in the model; only that a rate of
  acceptance can be too large for the column is kept.
* **Platform, wiring, the web page**: configuration, clients, routes and markup
  have no state of their own. What PostgreSQL, Redis, Kafka and MinIO do for the
  code is part of the module that uses them.
* **HTTP handlers**: a handler parses, calls one use case and turns its error
  into a status code. Where it does more (the chat, the order of calls of
  `POST /refresh`), it is in the module of that component.
* **Read-only endpoints** that read one row or one list and change nothing.
* **Notification lists and marking one read**: one statement on one row.
