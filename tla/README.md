# TLA+ specifications of axum-template

The repository is an Axum/PostgreSQL backend that runs as any number of
identical replicas. Nearly all of its state is in PostgreSQL and in a storage
backend; what is in memory is a broadcast channel and a key cache per replica
and the local variables of requests and background tasks. Its difficulty is therefore not in
any one function but in what happens *between* the statements of a request:
other requests, the background worker, the hourly cleanup, a crash, a lost
connection. That is what the modules here model.

Paths of Rust files below are relative to the crate's `src/` directory
(`README.md` and `migrations/` are next to it). `PROJECT.json` names for every
definition the lines it stands for.

## 1. Inventory

| Component | State | Operations | What is hard | Module |
|---|---|---|---|---|
| Job queue (`services/job_queue.rs`) | rows of `background_jobs`; the record each worker holds | `enqueue`, `poll_next_job`, `complete_job`, `fail_job`, `reap_old_jobs` | replicas polling at once, a replica that stops after the claim, off-by-one in attempts and backoff | `JobQueue`, `AbstractQueue`, `JobQueueProofs` |
| Webhooks (`services/webhook.rs`, `main.rs` worker loop) | `webhooks`, the outbox `webhook_deliveries`, and the queue | `create_webhook`, `delete_webhook`, `dispatch_event`, `execute_delivery`, `background_worker_loop` | outbox row and job are two statements; a POST whose answer is lost; a log update that fails after the POST, or whose answer is lost | `WebhookDelivery` (composes `JobQueue`), `JobQueueProofs` |
| Sessions and recovery (`services/auth.rs`) | `users`, `accounts`, `sessions`, `verifications` | sign-up, sign-in, refresh, sign-out, sign-out everywhere, change, forget, reset, verify, delete | READ COMMITTED: row locks, rechecks, snapshots of multi-row updates, deadlocks; values read before the transaction that relies on them | `Auth`, `AuthProofs` |
| File storage (`services/storage.rs`, `services/storage_backend/`, reaper in `main.rs`) | `files` and the stored objects | multipart upload, reserve, signed PUT, complete, delete, reap | row and object live in different systems; every step may be the last | `Uploads`, `AbstractFile`, `UploadsProofs` |
| Idempotency guard (`middleware/idempotency.rs`) | `idempotency_keys` | claim, look up, complete, release, expire, clean up | duplicates at once; request dropped by the timeout; failing store | `Idempotency`, `IdempotencyProofs` |
| Realtime (`services/realtime.rs`, `routes/v1/realtime.rs`) and the creation of notifications (`services/notification.rs`) | LISTEN connection and broadcast channel of each replica, streams | `create_scoped`, `publish`, `run_listener`, `sse_stream` | slow consumers, lost connections, events against subscriptions | `Realtime`, `FeedProofs` |
| OAuth sign-in (`services/oauth.rs`) | `oauth_auth_requests`, `users`, `accounts`, `sessions` | begin, consume state, exchange, `upsert_oauth_user` | a state presented twice; find-or-create by several callbacks, sign-ups and deletions | `OAuth`, `OAuthProofs` |
| Access: callers, API keys, organizations, permissions (`middleware/auth.rs`, `middleware/app_context.rs`, `services/api_key.rs`, `services/org.rs`, `services/storage.rs`) | `api_keys`, `apps`, `organizations`, `org_members`, owner and org of `files` | `authenticate`, `create_app`, `create_org`, `add_member`, `create_key`, `delete_key`, file handlers | credential and account read by two queries; permissions computed in several functions | `Access`, `AccessProofs` |
| Hourly cleanup (`main.rs`) | — | deletes expired rows, reaps jobs and uploads | works on rows that are in use | in each module for its own table |
| Remote JWKS (`crypto/jwks.rs`, called by `middleware/auth.rs`) | key cache per replica | `verify_token`, `get_keys` | the cache is read, released, fetched and written; fetches overlap, fail and are dropped; the provider rotates its keys | `Jwks`, `JwksProofs` |
| Feeds: audit log and notifications (`services/audit.rs`, `services/notification.rs`, `routes/v1/audit.rs`, `routes/v1/notifications.rs`, the cursors of `models/pagination.rs`) | `audit_logs`, `notifications` with their read flags; the cursor a client holds | `record`, `create_scoped`, `mark_as_read`, `mark_all_as_read`, the two listings | rows that commit out of order, ties at a page boundary, page and count in two queries | `Feed`, `FeedProofs` |
| Mail, configuration, rate limiting, metrics, headers, crypto primitives, HTTP decoding, page-numbered listings | none of its own, or in libraries | | | not modelled (section 6) |

How they interact: `dispatch_event` enqueues into the job queue, whose worker
loop calls `execute_delivery`. Every authenticated handler passes
`authenticate` (a session, a key or a remote token), and mutating routes pass the idempotency
guard first. `create_scoped` writes a notification and publishes it through
PostgreSQL's NOTIFY to the listener of each replica. OAuth and password
sign-ins write the same `users`, `accounts` and `sessions` tables. The cleanup
task visits all of them. The request timeout (`lib.rs`, `TimeoutLayer`) may drop
any request between two awaits; an open transaction is then rolled back.

What makes each part correct:

- *queue*: one worker at a time per job, no more attempts than allowed, no
  resurrection, backoff, and every job settles;
- *webhooks*: log and queue agree with what was really sent and accepted;
- *sessions*: a refresh token is redeemed once, revocation is final and covers
  every session it claims to cover;
- *recovery*: a token works once, resets leave no session behind, guesses are
  bounded;
- *files*: a readable file has an object within the limit, its size is final,
  every reservation ends, and the reaper takes only what was abandoned;
- *idempotency*: one of several duplicates runs, the rest are given its settled
  answer or a conflict;
- *realtime*: only one's own events, in order, and no gap of a stream's own
  without notice;
- *OAuth*: one sign-in per state, and into the account of the verified address;
- *access*: a session or key that was barred before a request began, or whose
  account was, does not reach a handler, and different permission checks agree;
- *JWKS*: the cached keys are behind the provider by a bounded time, whichever
  fetch wrote them;
- *feeds*: a walk through the pages gives every row that was there when it began,
  once and in order, and what an answer says about other pages is true.

`PROJECT.json` lists, under `hazards`, the places in the code where these can go
wrong, each with the properties that watch it.

## 2. Modules and how they correspond to the code

Every operation is an action, or a sequence of actions where other parties can
act between its statements. A step is one SQL statement, one call of the storage
backend or one HTTP exchange. Statements that are one step of the code for
every observer (a single-row transaction, an `INSERT` next to an `UPDATE` inside
a transaction that shows nothing before its commit) are one action. The audit
records that the operations leave are in `Feed` only, since nothing but their
listing reads them; log lines, metrics and mails are left out.

**JobQueue.** One function per column of `background_jobs` that the code reads.
`PollSelect` and `PollCommit` are the two statements of `poll_next_job`; the
set `rowLock[j]` has the transactions that the SELECT gave row `j`. `FailJob`
uses the `attempts` of the record the worker was given (`seen`), as the code
does, and not the row's. Time is relative: `due` is `run_at - now`, `age` is
`now - updated_at`, in units of the 5 seconds of the backoff formula, so the
clock is not a variable and the state space is finite. `Crash` ends a worker,
`DropJob` is an error that `let _ =` discards, `PollAborts` a rolled back poll.
A restarted replica is another member of `Workers` (the worker id contains a
fresh UUID). A job has a queue and a type: the one worker loop polls "webhooks"
and has a branch for `webhook.deliver`, so a job of the default queue is never
polled, and one of another type is claimed and passed over (`SkipJob`).

**AbstractQueue** is what the queue promises its users: a job is submitted,
started by one worker at a time, which uses up an attempt, and handed back with
attempts left, finished or given up once it has none; a worker may be lost, and
its job with it. Rows, locks, snapshots and times do not occur in it. `JobQueue`
implements it (`RefinesQueue`): a job is running for the abstract queue if a
worker has it, the claim's SELECT is a stutter, and a row that was left `running`
is a job whose runner was lost.

**WebhookDelivery** EXTENDS `JobQueue` and puts the outbox, the dispatchers and
the worker loop around its actions. A job's id is that of its delivery. The
receiver answers with a success, a failure or nothing (a timeout, after which it
may or may not have processed the event). `posts` and `accepted` record what
really happened at the receiver, for the properties only, and `unheard` has the
deliveries whose UPDATE took effect while `execute_delivery` was given an error.
Throughout the modules a statement that fails may have taken effect: the
connection can be lost before or after the commit.

**Auth.** One address and the account that has it: every statement of `auth.rs`
names one user or one address. A deleted account's address may be registered
again; recovery tokens go by the address and meet the new account, sessions and
requests of the old one do not. `lock` has the row locks; a statement waits for the row and
then tests its WHERE clause on the committed row (EvalPlanQual), a multi-row
UPDATE takes the rows of its snapshot (`BeginUpdate`) and locks them one by one
(`LockNext`) in any order, writes show at the commit. Waiting cycles occur, and
PostgreSQL's detector aborts one of the requests on them: `Deadlocked(r)` says
that `r` is in a set of requests each of which waits for another of the set
(`WaitsFor`) and is waited for by one, of whatever length the circles are.
`Abort` is a failed statement or a dropped request. A guess counts for
`guesses` when the password is tested (`SignInRead`), not when the code counts
it (`CountFailure`); `dropped` has those whose request ended in between.
`gen[s]` numbers the refresh
tokens of a session: the current one is `refresh_token_hash`, the one before it
`previous_token_hash`.

**Uploads.** `row` is the row of `files`, `object` the length of what is stored
under its key. Local disk truncates and then writes (two steps), S3 lets
the client PUT past the API whatever the length, tests the URL's expiry when the
PUT begins and shows the object when it ends, however late (`NativePutStart`,
`NativePutLands`). The three ages of a
reservation are the ones the code tells apart: URL valid, URL expired, older than
twice the lifetime. That a write is over before its reservation is stale
(`GrowOlder`) is justified by the request timeout, which is shorter than the
lifetime of a URL.

**AbstractFile** is what a reader of files relies on: a file is reserved,
published once with a size within the limit, and removed, and its size never
changes in between. `Uploads` implements it (`RefinesFile`) with the status, size
and deletion mark of the row, whatever the overlapping completions, writes,
deletions and the reaper do.

**Idempotency.** The scope of a request is computed as `idempotency_guard` does,
including its two lossy steps: callers without an access token share one
identity, and bytes that are not UTF-8 become U+FFFD, so bodies with either may
share a digest. `started` has the requests that were passed on to the handler,
also those that never came back. `disturbed` has the scopes whose row was
released or expired or whose claim failed: after that the guard promises nothing.
A dropped request disturbs nothing, since its row stays. `SchemaColumns` is the table the statements run
against: the columns the guard names, or those the migration creates.

**Realtime.** `events` are the NOTIFYs in PostgreSQL's order; a replica gets
those sent while its connection is up. `log[r]` is everything its broadcast
channel was ever sent, of which the last `Capacity` can still be read; a stream
is a position in it. The client that fetches its notifications when it connects
and when it is told to resync is external to the repository and modelled from
what the "lagged" event asks for.

**OAuth.** `oauth_auth_requests`, the accounts by address and the links by
provider identity. The statements of the upsert transaction are separate steps;
its uncommitted writes hold rows and keys of unique indexes, for which others
wait. `accounts.user_id` of an existing link is left alone by ON CONFLICT, so a
link may name a deleted account for a while; the code never signs in through it,
only through the address, and that is what `SessionIsOfVerifiedEmail` is about.

**Access.** A request presents a session, a key, a token of the remote provider
(if one is configured, `Sso`) or nothing. `resolve_session` is one query,
`resolve_key` two; a remote token is admitted from its claims alone, whoever they
name (`AdmitRemote`). `OptionalAuthUser` turns a refusal into an anonymous request
(`GoAnonymous`). Deletions of keys and accounts also come from requests that the
model does not follow (`KeyEnds`, `AccountDeleted`), so they fall between the two
queries of one it does. Authority over organizations and files only grows (no
operation removes a member or changes an owner or role), so what a handler checks
cannot be withdrawn before it acts and the handler is one step. What can be
withdrawn, credentials and accounts, may be withdrawn at every point. `barred`
is a history variable: what was invalid when the request began and has been
invalid since. A key's `org_id` is stored and listed and takes no part in any
check, so it is not in the model.

**Jwks.** `cached` and `age` are the key set and its `fetched_at.elapsed()`.
Time moves in ticks; `since[k]` counts for how long the provider's document has
(or has not) listed key `k`, up to the longest time that matters. A request that
finds no fresh key set fetches one of its own: nothing makes others wait, so
fetches overlap and each writes what it got, in any order. The read lock is
released before the fetch and no await happens under the write lock, so both are
one step. The shared HTTP client ends a fetch after its timeout (`Tick` cannot
pass it), the request timeout may drop one earlier (`Dropped`). Keys without `n`
and `e` are skipped, as in `get_keys`.

**Feed.** One model of both feeds: `audit_logs` have no read flag and no count, a
restriction of what `notifications` do. A row gets `created_at` when its INSERT
begins and is seen when that commits, and ids are drawn by replicas in any order,
so a row's place in the feed is decided before it can be seen. The client sends
whatever limit it likes with each page and repeats a request whose answer was
lost. `shown` has the rows the page gives as unread, which the count of the second
query can be compared with. Times are the microseconds that both PostgreSQL and the cursor keep, so
`Cursor::encode` and `decode` lose nothing. `start` and `listed` are history
variables: the rows that were there for the first query, and those it was given.

The MC modules only define constants and symmetry.

## 3. Runs

`tlc -config <cfg> <module>`; state counts are of distinct states.

| Run | States | Shows |
|---|---|---|
| `JobQueue` | 484 k | `RefinesQueue`: the table, its locks and the workers implement `AbstractQueue`, hence no more starts than `max_attempts` and none after a job settled. `ExclusiveExecution`: a worker runs a job only while the row names it, on its latest attempt. `RetryWaitsForBackoff`. `SettlesUnlessStranded`: every queued `webhook.deliver` job of the "webhooks" queue settles, with jobs of the other queue and type among them, unless a fault left its row `running` without a worker or all replicas are gone |
| `WebhookDelivery` | 454 k | `PostsWithinLimit`, `VerdictIsTrue`, `RecordedDeliveryIsFinal`: the delivery log and the queue are true to what was sent and accepted; a job is completed only if the receiver accepted it and given up only after all attempts; what is logged as delivered is not POSTed again unless the answer to the UPDATE was lost. `PendingIsResolved`: one fault leaves a delivery pending only if it struck between the two INSERTs or took the worker that had the job |
| `Auth_sessions` | 869 k | `RotatesOnlyLiveToken`, `RevokeAllCoversKnown` and `OnlyBulkUpdatesDeadlock` (every request on a circle of waiting ones is a revocation, reset, deletion or new reset token, which lock several rows; sign-ins, rotations, sign-outs and verifications are never chosen) under overlapping sign-ins, refreshes, replays, sign-outs, password changes, deletions and bans |
| `Auth_recovery` | 1.5 M | `RecoveryTokenUsedOnce`, `ForgetSupersedesKnown`, `ResetAndDeleteLeaveNoSession` (at the commit of the reset or deletion), `OnlyBulkUpdatesDeadlock`, `GuessesBounded`: the threshold is exceeded by at most the requests already past the check and those dropped between the test of a password and its count |
| `Uploads` | 262 k | With both backends: `RefinesFile`: the rows implement `AbstractFile`; `ReservationIsSettled`, also if the URL was never signed. On local disk: `ReadableHasObject` (but for an INSERT whose answer was lost) and `ReapedLeavesNoObject`: what the reaper removed stays removed |
| `Idempotency` | 337 k | against the table the guard is written for: `HandlerRunsOnce`: until its row is released, expires or a claim fails, a scope has one request in the handler, whatever was dropped or could not be stored. `ReplaysOnlySettled`: a replay is of a settled answer, the only one its scope gives, and crosses callers or bodies only where the scope cannot tell them apart. `InFlightEnds` |
| `Idempotency_schema` | — | **violated**: `OneAtATime` against the table the migration creates. Four of the columns do not exist, every claim is an error, and an error means that the request runs unprotected |
| `Realtime` | 577 k | `OwnEventsInOrder`, `NoSilentGap`, `ConnectedClientIsTold`: what a client misses without notice is exactly what its replica's listener missed or whose publication failed |
| `OAuth` | 290 k | `FlowSignsInOnce`, `SessionIsOfVerifiedEmail` |
| `Access` | 1.8 M | `BarredCannotBegin`: a session or key that was dead when the request began, or whose account was banned or deleted since, reaches no handler (remote tokens do). `PermissionsAgree` |
| `Jwks` | 1.2 M | `AcceptsOnlyRecentKeys`: no token is accepted under a key withdrawn longer ago than the cache's lifetime and one fetch. `RefusesOnlyNewKeys`: a good token is refused only while its key is newer than that |
| `Feed` | 1.4 M | `PagesDescend`, `NothingSkipped`: each page continues the one before it and a finished walk has every row that was there at its start. `PromisedPageHasRows`: `has_next` is never wrong. `UnreadCountCoversPage`: the rows an answer shows as unread exceed its count only by rows marked read since the page was taken, and what it shows as read stays read |

Each property of a passing run has a mutant in `PROJECT.json`: a one-line change
of a definition, the way the code could plausibly be wrong (FOR UPDATE SKIP
LOCKED dropped, `>` for `>=`, a WHERE clause without `consumed_at IS NULL`, the
lagged event filtered out), with which TLC finds the property violated.

### Bounds

Bounds are CONSTANTS, named where they are declared. Two workers and two jobs
have every race of the queue, since a third worker only repeats one of two roles
(SKIP LOCKED leaves it the other row or none); the theorems below remove the
bound altogether. Two attempts have a first failure that retries and a second
that gives up. Two faults in `WebhookDelivery` have one fault while the
consequence of another is pending. Two requests and two sessions in `Auth`: each
property is about one request against one other, and a family of two is revoked
row by row; three tokens have one superseded, one current and one more.
`Uploads` has three requests on one file (rows of different files share nothing):
a writer, a completion and a second completion or a deletion, besides the reaper.
`Idempotency` has three requests of callers without a token whose bodies are no
text, one of them of another caller and body, which therefore share a scope, and
two with one text in scopes of their own, one with and one without a session; one
fault, before or after the statement it strikes took effect. `Realtime` has a
channel of one slot, so that two events already overtake a stream, and a second
replica for reconnecting elsewhere; one client, since streams do not influence each other
but for the empty channel, which one client also reaches. `OAuth` has two
providers, two addresses, three accounts and three flows: two callbacks that race
and one that finds what they left. `Access` follows one request; what others do to it,
ending sessions, deleting keys and accounts, are operations of their own that
happen at any time. `Jwks` has
two requests, so that a slow fetch overwrites a quick one, one RSA key and one of
another kind, and three rotations: a key is published, withdrawn and published
again. `Feed` has four rows, pages of at most two and two instants, so that pages
end inside a group of equal times and a third page follows.

Symmetry is used in `Auth`, `OAuth` and `Access`, in runs without liveness
properties, over sets whose members no definition distinguishes.

Deadlock is checked in `JobQueue`, `WebhookDelivery` and `Access`, which never
stop. In the others ids, requests or rows run out, as the bounds make them, and
the check is off.

### Fairness

Weak fairness only, and of steps the runtime or a timer takes: the worker loop
(`loop` in `background_worker_loop`), the hourly cleanup, the clock, a request or
dispatch under way (an async task whose database answers), the listener's
reconnect loop, and a connected client that reads its stream. Callers, faults,
expiry in `Auth` and the hooks' owners owe nothing. A crashed worker has no fair
step. Jobs are assumed to end: `execute_delivery` has a client timeout.

## 4. Proofs

Every safety property that a run checks is also a theorem, for every value of the
constants that the named assumptions allow; what TLC shows on two requests holds
for any number of them. None is inductive by itself. Each section below says what
the inductive invariant adds and why; TLC checked each of these invariants on the
instance of the run before it was proved.

### Job queue

`JobQueueProofs` proves, for any sets of jobs and workers, any number of faults,
`MaxAttempts` up to 10 and any retention no shorter than the longest backoff:

| Theorem | Statement |
|---|---|
| `TypeCorrect` | `Spec => []TypeOK` |
| `Exclusive` | `Spec => []ExclusiveExecution` |
| `Implements` | `Spec => RefinesQueue` |
| `Bounded` | `Spec => []AttemptsWithinLimit` |
| `Final` | `Spec => SettledIsFinal` |
| `BackoffHonoured` | `Spec => RetryWaitsForBackoff` |

A claim is safe because of what was true when the row was locked, two steps
earlier: the inductive invariant `IInv` adds

- `LockedRowsAreDue`: a locked row is queued and due, and its poller holds no
  job. Without it `PollCommit` could take a row that somebody else runs;
- `OneLockPerWorker`: what SKIP LOCKED and LIMIT 1 give, needed so that a commit
  ends *the* lock of its worker;
- `QueuedHasAttemptsLeft`: `GivesUp` and the increment of the poll fit together,
  needed for `AttemptsWithinLimit`;
- `BackoffPending`: of a queued retry, `age + due` is at least its backoff, or
  the backoff has passed. It is what turns "due" at the claim into "late enough".

There is one lemma per action, `NextKeepsIInv` combines them, and the two action
properties follow from `IInv` with `StepsOnRows`, which says what a step can do to
the status of a row. Assumptions: `NoneAssumption` (NULL is no worker or job),
the bounds are naturals, and `RetentionAssumption` (14 days against 10 * 2^10
seconds in the code), needed because `age` stops counting at the retention.

`Implements` needs the same invariant. An abstract runner is a worker that has the
job, and the abstract `Start` asks that nobody else has it: `ExclusiveExecution`
and `LockedRowsAreDue` give that at the commit of a poll (`PollCommitStarts`). A
worker that writes its row and lets go of the job is the abstract `Finish`
(`SetRowFinishes`), where `GivesUp` decides whether a run is left; one that lets
go without writing is `Lose` (`LettingGoLoses`). `StepRefines` puts the actions
together, and the temporal step is one line.

### Webhook delivery

`JobQueueProofs` goes on with `WebhookDelivery`, for any sets of webhooks,
dispatchers, jobs and workers and any number of faults:

| Theorem | Statement |
|---|---|
| `PostsBounded` | `DeliverySpec => []PostsWithinLimit` |
| `VerdictHolds` | `DeliverySpec => []VerdictIsTrue` |
| `DeliveredIsFinal` | `DeliverySpec => RecordedDeliveryIsFinal` |

Every step of the worker loop is a step of the queue or leaves it alone, so `IInv`
holds here as well. `DeliveryInv` adds what the worker has done with the job it
holds: `StepFollowsJob` (a worker is past its claim exactly while it has a job),
`PostsFollowClaims` (a claim allows one POST, and a job that is back in the queue or
settled has used its claims up), `WorkerProgress` (before its POST a worker has one
claim left to use, after it none, and only an accepted POST leads to `complete_job`),
`VerdictEarned` (what the settled rows say, in terms of claims), `DeliveredIsDone` (a
delivery logged as delivered, with an answer that the worker heard, has no queued
job, and a worker that still has it will only complete it). The last needs
`ExclusiveExecution`: without it another worker could be before its POST.

### Remote keys

`JwksProofs` proves, for any keys, requests and number of rotations, and any
lifetime and timeout of at least one tick:

| Theorem | Statement |
|---|---|
| `RecentKeys` | `Spec => AcceptsOnlyRecentKeys` |
| `KnownKeys` | `Spec => RefusesOnlyNewKeys` |

Both rest on one invariant, `CacheInvariant`. What a fetch holds differs from the
provider's document only in keys that changed since the answer, no longer ago
than the fetch is old (`AnswersAreRecent`); the cache differs only in keys that
changed no longer ago than its age and one timeout (`CacheIsRecent`). A slow
fetch that overwrites a newer key set and dates it as new keeps the second, since
the first bounds what it brings. Neither theorem could be proved with the age
alone.

### Files

`UploadsProofs` proves, for any sets of files and requests, any size limit and any
number of faults:

| Theorem | Statement |
|---|---|
| `TypeCorrect` | `Spec => []TypeOK` |
| `Implements` | `Spec => RefinesFile` |
| `Served` | `Spec => []ReadableHasObject` |
| `ReapedClean` | `Spec => []ReapedLeavesNoObject` |

The code writes rows by id alone, with values it read some steps earlier; what
makes each write a step of the abstract file is the rest of `FileInvariant`:

- `InsertOwnsId`: while a multipart upload is between its object and its INSERT,
  nobody else has a row of that id, so the INSERT is the abstract creation;
- `ChosenRowExists`: the row the reaper chose, and the row a request works on, is
  still there in some state when the write by id comes;
- `SizeIsChecked`: the length a completion or an INSERT carries passed the limit
  in an earlier step;
- `NoRowIsBlank`, `BusyHasFile`: an absent row has no size, and a request under
  way has a file, which the mapping to one abstract file per id needs.

The two theorems about objects need `ObjectInvariant` on top. A row and its object
are written by different steps, of different requests, so it follows the writers:
whoever will insert or flip a row has seen the object (`InsertHasObject`,
`FlipHasObject`, `LocalIsChecked`), whoever will delete it has tombstoned the row or
knows of no row (`DeletesTombstoned`, `UndoHasNoRow`), and on local disk a write that
was let in is over before its reservation is stale (`WritersAreInTime`), which is when
the reaper may choose it (`ReapsStale`).

### Feeds and the realtime fan-out

`FeedProofs` proves all that the run of `Feed` checks, for any finite set of rows,
any page limit and any interleaving of inserts with requests:

| Theorem | Statement |
|---|---|
| `InOrder` | `Spec => []PagesDescend` |
| `Complete` | `Spec => []NothingSkipped` |
| `Promised` | `Spec => []PromisedPageHasRows` |
| `Counted` | `Spec => []UnreadCountCoversPage` |

The argument of `WalkInvariant`: what the client holds is visible, so its keys are
fixed and later inserts cannot move it (`HeldIsSelected`, lemma `RowsGrow`); the
cursor separates the rows given from those still to come, and a row lies below it
(`CursorSeparates`); a page leaves out nothing above its last row, and `has_next`
is true exactly when something lies below (`PageIsTight`). The last is where the
one row more that the queries fetch is needed (`PageCut`). The count is right when
it is taken because the page's rows are among those counted, and stays right
because reading is for good (`Counts`, lemma `ReadsGrow`). Assumption: ids are
numbers, finitely many (`IdsAssumption`).

Its second half is about the same notifications when they are pushed: it proves, for
any users, streams and replicas and any capacity of the channel, from
`RealtimeAssumption` (a capacity of at least one, streams with a user):

| Theorem | Statement |
|---|---|
| `FanoutTypeCorrect` | `FanoutSpec => []FanoutTypeOK` |
| `StreamsInOrder` | `FanoutSpec => []OwnEventsInOrder` |
| `GapsAreTold` | `FanoutSpec => []NoSilentGap` |

A stream is only a position in the channel of its replica. `FanoutInv` says where the
events are: in the channel in order, before those that the listener has still to
receive (`ChannelInOrder`), and all that a stream has given before all that it has
still to read (`GivenBeforeRest`). For the gaps the decisive part is
`OneEventPerRow`: a row is announced at most once and to its owner. So an event that a
stream filters out is of a row that is not its user's, and a row whose event goes down
with a connection has no second event and counts as lost.

### Idempotency guard

`IdempotencyProofs` proves, for any requests, callers, bodies and number of faults,
and whatever columns the table has:

| Theorem | Statement |
|---|---|
| `TypeCorrect` | `Spec => []TypeOK` |
| `RunsOnce` | `Spec => []HandlerRunsOnce` |
| `ReplaysSettled` | `Spec => []ReplaysOnlySettled` |

A row is all that one duplicate knows of another, so the invariant says what rows stand
for. As long as a scope is undisturbed, a request that was passed on, or was told of a
row, has left or seen one that is still there, so no later INSERT wins (`RowOutlivesRequest`,
with `ExpiredIsDisturbed`). What a row stores and what was handed out is the settled
answer of a finished request of the same scope (`StoredIsReplayable`,
`GivenIsReplayable`), which cannot change any more. `IdemScopeAssumption` says that
the stand-ins for the shared identity and the replacement text are no caller and no
text of their own.

### Account

`AuthProofs` proves everything that the two runs of `Auth` check, for any finite set of
requests and any sets of sessions and tokens, any threshold and number of generations:

| Theorem | Statement |
|---|---|
| `TypeCorrect` | `Spec => []TypeOK` |
| `RotatesLive` | `Spec => []RotatesOnlyLiveToken` |
| `UsedOnce` | `Spec => []RecoveryTokenUsedOnce` |
| `GuessesAreBounded` | `Spec => []GuessesBounded` |
| `RevocationsCover` | `Spec => RevokeAllCoversKnown` |
| `NoSessionLeft` | `Spec => ResetAndDeleteLeaveNoSession` |
| `Supersedes` | `Spec => ForgetSupersedesKnown` |
| `DeadlocksAreBulk` | `Spec => []OnlyBulkUpdatesDeadlock` |

`AccountInvariant` says for each request what the locks it holds entitle it to:

- `HoldsLiveToken`, `HoldsRecoveryToken`: whoever holds the row of a token it has
  tested still sees it live or open. Only the holder writes a row, so the test made
  before the commit is true at the commit;
- `Covers`: of the rows that still match the WHERE clause of an UPDATE of many rows,
  those it must not miss are among the ones it has locked or has yet to lock. They
  are what existed when the request began (and stays, `KnownExists`), and for reset
  and deletion all of them. At the commit nothing is left to lock, which makes it
  complete although its snapshot is older;
- `HoldsUser`: reset and deletion hold the user's row, for which a sign-in waits, so no
  session appears behind their snapshot;
- `HoldsLittle`, `UpdatesOneKind`: who holds what while waiting. From them the
  deadlocks: a request on a circle holds a row that another one on it needs;
- `GuessesCounted`: the guesses made are those the row has counted, those under
  way and those dropped before they were counted; an account that lets more in is
  below the threshold.

Assumptions: `AuthNoneAssumption` and `AuthIdsAssumption` (NULL, ids and row names
differ), `AuthOperationsAssumption` (a request always has an operation) and
`AuthBoundsAssumption` (a threshold of at least one, finitely many requests at once;
finiteness is what the bound on guesses counts with).

### OAuth sign-in

`OAuthProofs` proves, for any providers, subjects, addresses, accounts, flows and
callbacks, from `OAuthAssumption` (NULL is none of them):

| Theorem | Statement |
|---|---|
| `SignsInOnce` | `Spec => []FlowSignsInOnce` |
| `SignsInVerified` | `Spec => []SessionIsOfVerifiedEmail` |

A session is opened by the id of an account that the callback found or created some
statements before. `SignsInOwner` and `CreatesNewOwner` say that this account has the
callback's address as long as it is live, or is new with an address that nobody else
has or is creating; `EmailsUnique` that no two live accounts share one; `FlowIsTheirs` and `FlowTakenOnce`
that a consumed flow has at most one callback under way, before its session.

### Access

`AccessProofs` proves, for any users, applications, organizations, files, keys and
requests, from `AccessAssumption` (NULL is none of them, scopes asked for are scopes):

| Theorem | Statement |
|---|---|
| `BarredStayOut` | `Spec => []BarredCannotBegin` |
| `PermissionsHold` | `Spec => []PermissionsAgree` |

Credentials and accounts only decay (`Decays`, `NobodyReturns`), so what was barred
when a request began is barred at each of its queries (`BarredStays`): the query that
read the key found it alive, the one that let the request in found the account active,
so neither had been barred since the beginning (`Admitted`). The permissions agree because of how rows come
to be: `MembersOfExisting`, `OwnersOwn`, `FilesFromMembers`.

### What is only model-checked

The liveness properties `SettlesUnlessStranded`, `PendingIsResolved`,
`ReservationIsSettled`, `InFlightEnds` and `ConnectedClientIsTold`: liveness under
fairness, and ENABLED with it, is out of this prover's reach. That `OneAtATime` is
violated against the migrated table is a counterexample of TLC's.

## 5. Abstractions to keep in mind

- Hashes, signatures and random tokens are identities without collisions.
- PostgreSQL is READ COMMITTED with row locks and unique indexes as its
  documentation describes; clocks of replicas and database agree.
- `BarredCannotBegin` is about sessions and keys. Tokens of a remote identity
  provider name a caller from their claims alone, without a look at `users`; what
  `Access` says of them is what they can do then, and `Jwks` which are accepted.
- `GrowOlder` in `Uploads` relies on a request timeout (30 s by default) shorter
  than the lifetime of a signed URL (900 s). Both come from the environment and
  `config/mod.rs` does not compare them.
- Handlers that only read are `Answer` in `Access`. Some of them ask for no scope
  (listing applications, organizations and webhooks, the realtime stream), so
  every key may call them.
- In `Realtime` a client that reconnects to another replica may be told of a
  notification twice; order is a property of one stream.

## 6. Not modelled

- *Configuration* is read once at startup; what it bounds is a CONSTANT.
- *HTTP decoding and validation* keep no state; malformed requests never reach
  the services.
- *Rate limiting* keeps its state in the `tower_governor` library; metrics,
  security and sunset headers keep none.
- *Mail* is I/O; *crypto primitives* are taken to be collision-free.
- *Page-numbered listings* (`PageParams`, `PageMeta`) are one query and one count
  each. They order by `created_at` alone, so ties and rows inserted between two
  pages move across page boundaries, and `offset` multiplies two `u64` of which
  only the page size is clamped. No sentence of the repository promises more of
  them, which is why they have no property.
- *Type detection, file names and download signatures* are functions of one
  request's bytes.
- *`update_profile`* writes columns nothing else reads.

## 7. Differences between comments and code

One has a run of its own (`Idempotency_schema`). The models also show the
following; each is a sentence in the repository that is not quite true.

- `services/job_queue.rs:4-5` promises exactly-once processing. `poll_next_job`
  commits `running` before the work is done (`:83`) and no statement looks at a
  running row again: a replica that stops, or an error of `complete_job` or
  `fail_job` that the loop discards (`main.rs:211`), strands the job. It is the
  exception in `SettlesUnlessStranded` and the abstract `Lose`.
- `services/job_queue.rs:31`: `enqueue` without a queue uses "default", which no
  worker polls (`main.rs:185`), and a polled job of a type the worker does not know
  (`main.rs:187`) is left `running`. Neither ever settles, with no fault at all; no
  caller in the repository enqueues such a job.
- `main.rs:265-266`: "a slow but legitimate upload is never reaped out from under
  a client". The reaper selects, removes the object and then tombstones by id
  alone (`:288`); an upload completed in between is lost. `RefinesFile` allows
  it as a removal. Likewise a completion that found an oversized object
  (`services/storage.rs:551-557`) removes a file that another completion has made
  ready after a smaller PUT.
- `crypto/jwks.rs`: the header names RS256, ES256 and EdDSA, but only keys with
  `n` and `e` are kept, so tokens under others are refused as unknown. An unknown
  `kid` triggers no fetch, and a `sub` that is no UUID gets a fresh id with every
  request (`middleware/auth.rs:200-201`).
- `services/job_queue.rs:150-151`: the comment's sequence starts with 5 s, but
  `attempts` was already incremented by the poll and the first retry waits 10 s.
- `services/webhook.rs:202`, `lib.rs:93`: outbox row and job are not written in
  one transaction; a failure between them leaves a delivery pending (`Orphaned`).
- `services/webhook.rs:294`: a timeout after the receiver processed the event is
  retried, so delivery is at least once. So is one whose log UPDATE (`:290`) took
  effect while its answer was lost: it is logged as delivered and POSTed again.
- `services/auth.rs:262`: only the latest rotated token is recognized as a
  replay; one that is two rotations old is answered like an unknown token.
- `services/auth.rs:634`: the password is verified before the transaction that
  opens the session; a sign-in with the old password that waits for a reset's
  commit still opens a session afterwards.
- `services/auth.rs:626-627`: the password is tested before the failure is counted.
  A request that the timeout or its client ends in between has made a guess that
  the lockout does not count.
- `services/auth.rs:919-921`: a deleted account's address can be registered again.
  Its reset tokens stay open (`delete_account` leaves `verifications` alone) and
  work for the new account until they expire or are superseded.
- `services/auth.rs:424-426`: two overlapping requests for a reset token do not
  see each other's and leave two open.
- `services/storage.rs:513-540`: a signed PUT checked before the completion may
  write after it, so object and recorded size can differ.
- `services/storage.rs:208`: an invalid visibility is refused after the object
  was stored, which is then left behind without a row.
- `services/storage.rs:234`: "Never leave an orphaned object behind if the row
  fails". If the INSERT took effect and only its answer was lost, the object is
  removed and a ready row without an object stays.
- `services/storage_backend/s3.rs:237-258`: a PUT that S3 let in before the URL
  expired may end after the reaper tombstoned the row; nothing removes that object.
- `services/storage.rs:442-446`: the row is inserted before `presign_put`; if that
  fails the client gets an error and the pending row waits for the reaper.
- `middleware/idempotency.rs:201`: a row released between INSERT and SELECT lets
  the duplicate run rather than wait.
- `middleware/idempotency.rs:69-70`: "a replay is only a replay if the same caller
  repeats the same request". All callers without an access token (API keys, remote
  tokens, none) share one identity (`:52`), and bodies that differ in invalid UTF-8
  share a digest (`:73`), so one can be given the other's answer. The run has such
  requests, and `SameCaller` and `SameBody` allow no other mix-up.
- `middleware/auth.rs:3-6`: "every request resolves that session against the
  database. That round trip is what makes a ban, a sign-out, or a role change take
  effect immediately". Remote tokens (`:195-217`) are admitted without a look at the
  database: a banned or deleted account goes on as long as its token is valid.
- `README.md:25-27`, `routes/v1/realtime.rs:15-18`: dropped events are said to be
  signalled. A gap caused by the listener's reconnect (`services/realtime.rs:103`)
  or by a publication that failed (`services/notification.rs:58`) is not: both are
  `Lost`, which `NoSilentGap` exempts.
- `routes/v1/notifications.rs:60-92`: page and `unread_count` are two queries; an
  answer may show a row as unread and not count it, if it was marked read between
  them.
- `services/notification.rs:3-6`: no caller of `create` exists in the repository.

## 8. Plan

Done, in this order: `JobQueue` with its proofs, `WebhookDelivery`, `Auth`,
`Uploads`, `Idempotency`, `Realtime`, `OAuth`, `Access`; then the abstract
specifications of the queue and of a file, both with the proof that the detailed
one implements it, the deadlocks of `Auth`, and `Jwks` and `Feed` with their
proofs; then the proofs of `Idempotency`, `Auth`, the objects of `Uploads`,
`WebhookDelivery`, `OAuth`, `Access` and `Realtime`. All safety properties of the
runs are proved.

Next are results that no run asks about yet and the invariants already carry:
that reset tokens left open by overlapping requests are at most one per request,
the frame of each refinement (what an abstract step leaves alone), and lemmas that
would let proofs that repeat an argument share it.
