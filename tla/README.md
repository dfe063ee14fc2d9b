# A TLA+ model of the 360ghar backend

360ghar is a property platform: a FastAPI application (`src/app`) over PostgreSQL (SQLAlchemy async
sessions), Supabase for identities, an optional Redis cache, an AI provider, a GPU service (Modal) for the splat
lab, and background work that runs as asyncio tasks and scheduled jobs in the web process. This directory holds
TLA+ modules for the parts of it whose difficulty is *order*: what happens when two requests, a background task, a
failure or a restart fall between two awaits. Each module is translated from the source; `PROJECT.json` maps every
definition to the lines it stands for, and lists the hazards of the code, each at its line, with the properties
that watch it.

The web process is one event loop. A step of a model is what runs between two awaits, or between two calls to a
store another actor can see; any other task, process or worker may run in between.

## 1. The system's parts

| Part (code) | State it keeps | Operations | Hard behaviour | Correct when | Module |
|---|---|---|---|---|---|
| Unit of work, `core/database.py` | one session per request: new/dirty/deleted, open transaction | `get_db`, flush, commit, rollback, close | exit code runs after the response; exit commit may fail | all or nothing; failed requests leave nothing | `UnitOfWork` |
| Tour AI jobs, `services/tour_ai` | `ai_jobs` rows, tasks, semaphore of 5 | create, update, retry, fail, cancel | cancel races the runner; database errors; tasks die with the process | one end per job; permits never lost | `TourAiJobs` |
| WebSocket job updates, `endpoints/websocket.py`, `core/websocket.py` | sockets registered per job | connect, snapshot, send, disconnect | snapshot read before registration; dead sockets stay registered | each update reaches every live client; nothing follows the end | `JobUpdates` |
| OAuth 2.1 server, `endpoints/oauth`, `services/oauth_token_store.py` | login sessions, codes, token pairs, all in the cache | authorize, consent, exchange, refresh, revoke | several cache calls per operation, each can fail or interleave, a read on disk too | single-use codes; whole pairs; dead when rotated | `OAuthTokens` |
| Cache, `core/cache`, its use in properties, blog, FAQs, versions | answers with a time-to-live in memory, on disk or in Redis | read-through fill, invalidate by pattern, expire | errors are swallowed; fills race edits; patterns that match nothing; an eviction before the commit | a stale answer has a known cause and does not stay | `ReadThroughCache`; single keys in `OAuthTokens` |
| SSE event bus, `core/sse.py`, `flatmates_sse` | bounded queues per user, activity and fullness books | subscribe, touch, emit (reaps), unsubscribe | overflow, leaks, reaping of a live stream | bounded; newest events in order; no leak | `SseBus` |
| User sync, `services/user.py`, `dependencies/auth.py` | users with three unique keys, an advisory lock per account | lookups, link, insert, transfer, reconcile, suspend, delete | parallel first requests; a rollback releases the lock; phones nobody confirmed | a row is one person's, but for a stranger's phone; one row per account; no active user loses the account | `UserSync` |
| Rent payments, `services/pm_rent.py`, `mcp/tool_ops/rent.py` | charges with a status, payments | guard, insert, recompute the status | two payments read the same sum; amounts below a cent | paid means covered; status and sum agree | `RentLedger` |
| Vector sync, `vector/sync.py`, `vector/store.py` | watermark, embeddings, advisory lock | fetch, compare, embed, upsert, advance | lock released early; batch cut off; edits committed late | what the watermark passed is embedded | `VectorSync` |
| Splat lab, `endpoints/lab.py`, `services/modal_worker.py` | `splat_jobs` rows at Supabase, calls on Modal | create, start, report, fail, delete | the start's update follows the spawn; reports that fail are dropped; a call that lost its container runs again | a stuck row has a cause; the status goes forward | `SplatLab` |

The other parts are listed in `PROJECT.json` with the reason they are not modelled; section 6 gives the reasons.

How the parts meet:

- every REST handler works in the session of `get_db`, so what `UnitOfWork` says of flush and commit holds for
  every service a route calls. This decides much of the system: a route whose service ends with `flush()` keeps
  nothing (run `uow_doc`), so `RentLedger`, `ReadThroughCache` and `VectorSync` take as writers the tools and jobs that
  commit, and `UserSync` has a deletion that is rolled back and a caller that never commits. `ReadThroughCache` also has
  the REST edit that leaves something pending after its flush (a property with amenities or images), which `get_db`
  commits after the service has evicted;
- a job's runner writes its row (`update_job_status`), then sends the message to the sockets registered for the
  job. `JobUpdates` composes the two: the model's `Notify` and the delivery are one step;
- OAuth keeps nothing in the database. Its guarantees are those of the cache back end it runs over, so the model
  has the failures of the back ends built into each call;
- an edit of a property is seen by the cache (its own eviction, as a rule after the commit) and by the vector sync (the
  trigger's `updated_at`); the two do not meet and have a module each;
- services emit to the event bus before the commit of `get_db`; consumers are the open SSE responses.

## 2. Modules

`X_proofs` EXTENDS `X` and holds its theorems (`TourAiJobs_proofs` also those of `JobUpdates`, `SplatLab_proofs` also
those of `UnitOfWork`); `MCX` gives the instances for TLC. A definition headed "Faulty
variant" is a plausible mistake in the definition that follows it; `PROJECT.json` ("mutants") pairs each with the
property that notices when the variant takes the definition's place. No behaviour of the models uses them.

### UnitOfWork

One session per request. `Change` adds to `pending` (the union of `session.new`, `dirty`, `deleted`), `Flush` moves
it to `flushed` (the open transaction), `ServiceCommit` makes both durable, `ServiceRollback` takes back both, or what
was made inside a savepoint, and goes on (`user.py:335`, `dependencies/auth.py:60`), `Return` and `Raise` end the
endpoint, and `ExitCommit`, `ExitCommitFails`, `ExitClean`, `ExitRollback` are the branches of `get_db` after the yield.
`HasPendingChanges` is the test of `database.py:285`. `explicit`, `made` and `undone` are histories.

### TourAiJobs

`row` is the table, `view` the copy in the runner's identity map, `pc` the await the runner is at. `CreateJob` and
`SpawnTask` are the request; `Acquire` and `Release` the semaphore; `SelectRow`, `CommitRow`, `RefreshRow`, `Notify`
are `update_job_status` cut at its awaits; `FinishStage`, `ProviderError`, `WorkError` are the work between two
updates; `DatabaseError` is a failing statement, whose report in the same session fails too; `CancelRead` and
`CancelWrite` are `cancel_ai_job`. Two facts of SQLAlchemy matter and are modelled: no runner keeps the job an update
returns and the identity map holds it weakly, so each SELECT loads the row anew (`SelectRow`), and an UPDATE names only
the columns that differ from the copy (`Update`). `Fail` reports `str(e)`, and an empty text is not stored. The nine runners
share one shape: a number of "processing" updates with provider calls after each, then a final one. `Stages` counts
the updates; a result on the first one (the tour id) is a choice in `StageCalls`. The progress number and the
payloads are left out. `Crash` is a restart: tasks and semaphore go, rows stay.

`JobLifecycle` is what a poller is promised: absent, pending, processing, then completed or failed, once. TourAiJobs
implements it for every job nobody cancels (`ImplementsLifecycle`, checked and proved).

### JobUpdates

EXTENDS TourAiJobs with the sockets. `ReadJob`, `ConnectJob`, `SendSnapshot` are the handler's three awaits,
`Deliver(j)` is the send to the registered sockets, conjoined with `Notify(j)`: a socket whose client is gone is skipped
and stays registered, or its send raises and it is removed. `DisconnectJob` is the finally clause, and
`SendSnapshotFails` leaves without it, as the code does. A message is its status.

### OAuthTokens

`session`, `code`, `access`, `refresh` are the keys of the cache by kind, each "none", "live", "deleted" or
"expired" (time-to-live, eviction or a restart). A request is a `pc` that names the cache call it makes next. The
constant `Backend` chooses the back end. With "redis" any call may fail, a failed set or read-and-delete may have been
applied, and keys survive a restart; on "disk" sets are refused, and a file that cannot be read counts as an absent key
and stays (`ReadFails`); in "memory" only sets are refused; a restart loses the keys of both. `cut` is a history: the pairs
a delete or a lookup of which failed, or whose revocation a restart cut short with Redis. `Consume` is the
one-call read-and-delete of a code with all its checks; `StoreAccess`, `StoreRefresh`, `StoreList` with their
undoing deletes are `store_oauth_tokens`; `LookUpRefresh`, `DropAccess`, `DropRefresh` are `revoke_refresh_token`;
`LookUpAccess`, `DropPartner`, `DropToken` are `revoke_token_pair`. Checks on payloads (PKCE, client, redirect URI,
scopes) pass or fail by choice. Minted codes and tokens are fresh, so they carry the name of the request.

`CodeGrant` is the promise of a code: open, then used once or void for good. `GrantOf` maps the cache and the
exchanges to it: a code taken by an exchange that is still storing its pair counts as open, because that exchange
may yet be answered.

### SseBus

All methods of the bus hold its lock and await nothing under it, so each is one step. `registered`, `queue`,
`lastActivity`, `fullCounts`, `emitCount` are the bus; `stream` is where the generator of each response is. `Reap`
is part of the `emit` that triggers it. An event is its number among its user's events. Of the clock only "the
inactivity TTL has passed" is kept; a waiting stream touches every minute and so never goes stale. `Unsubscribe`
keeps the early return of the code for a user without queues. `sent`, `heard` and `overflowed` are histories.

### UserSync

`get_or_create_user_from_supabase`, one step per lookup and per flush: `HotLookup` (no lock), `Lock` (the advisory
transaction lock of the account), `AccountLookup`, `Transfer` (the account's row is inactive and an active one has
the number), `EmailLookup`, `PhoneLookup`, `Merge` (`_link`), `Flush` and `Move`. What a request will write is its
`plan`; `Conflicts` applies the three unique keys statement by statement in the order of SQLAlchemy's unit of work,
`Waits` the row and key locks of other open transactions. A conflict in `Flush` rolls back, which also gives up
the lock and the released claim, and runs the lookups again (`again`); one in `Move` is an answer 401. `Commit` is the
dependency's commit, `Close` the consent page that never commits, `Suspend` a moderator, `DeleteAccount` a deletion
whose anonymised row is rolled back. A phone is compared exactly or by its last ten digits (`Norm`), whether it was
confirmed or not, so the phone of a token may be another person's, or end in another person's ten digits (`Strangers`);
`doubtful` is a history of the rows a request with such a phone wrote. Of a token only one thing is assumed, that a
confirmed e-mail is its person's (`GoodToken`).

### RentLedger

`record_rent_payment`, statement by statement: `Load` (the charge is kept in the session), `Guard` (the sum of the
committed payments, compared with what is due), `Recompute` (after the insert), `Flush` (an UPDATE, and its row lock,
only when the status differs from the one loaded), `Commit` (the owner's tool), `Abort` (a refusal, an error, or a REST
request, whose flush is rolled back). An amount is a float: whole cents and a rest (`Amount`), rounded to cents when it is
stored (`Stored`), compared before (`Within`), and the float total of a charge may lie above the exact one (`Above`). A first
payment below half a cent is stored as 0.00, and the status recomputed from it is pending, or overdue once the due date
has passed (`NewStatus`, `FallDue`). Nothing sets waived. The tools that record a payment without naming a charge
fail on a NOT NULL column and are left out with that reason.

### VectorSync

A pass is `Fetch` (watermark and batch, under the advisory lock), `Compare` for each property, `Release`, `Embed`
(without a session), `Upsert`, `Advance`; `Fail` ends it anywhere. Writers `Begin` (which takes the stamp, `now()`) and
`Commit` later. `Taken` is the index arithmetic by which `_upsert_batch` picks vectors out of a list aligned with all
properties. `slipped` notes the three ways a property falls behind the watermark: its edit is committed after a later
stamp was read, the limit cuts it off a batch that reaches beyond its stamp, a pass stores an older text over it.
`crossed` notes a hash written back over another pass's.

### ReadThroughCache

The decorators `cached` and `invalidate_cache`, and the same steps written out in the property services. `Shows` and
`Edited` say which tables an answer contains and an edit changes, `Evicts` which key patterns it deletes after its
commit, `EvictsFirst` which before it (a property created over REST with amenities or images). `Miss`, `Read` (one
statement per table, in any order), `Store`, `GiveUp` are a reader; `Commit`, `Evict`, `EvictFails`, `Abandon` an
edit, `EvictEarly` and `CommitLast` the one that evicts first; `Drop` is expiry, LRU eviction or the end of the
process. What an answer shows of a table is the number of committed edits it has seen. `why` and `late` are histories
that name the cause of staleness.

### SplatLab

The endpoints call Supabase and Modal without awaiting, so one request at a time is between its calls (`starter`),
while the calls of `train_splat` run beside it. `Spawn` and `MarkStarted` (or `MarkFails`) are the start, in this
order; `Advance`, `Finish`, `Fail`, `Die` the worker, each report an UPDATE that does not look at the row and whose
error is printed. A call has returned when Modal has its result (`HandOver`); until then the loss of its container
makes Modal run it again on the same input, from the first report on (`Rerun`), any number of times. `column` says
whether the table has the column the last report names (no migration adds it). Its specification is `LabSpec`, with
`LabInit` and `LabNext`, so that one module can extend it and `UnitOfWork` together.

## 3. Runs

| Run | Instance | Distinct states | What it shows |
|---|---|---|---|
| `uow` | 2 requests, 2 changes | 14,884 | a failed request leaves only what its service committed; the exit commit takes everything its services did not take back, or nothing |
| `jobs` | 2 jobs (1 cancellable), 1 permit, 2 stages, 2 attempts, 1 database error, 1 restart | 125,733 | permits conserved; ended rows whole and final; every job ends unless the database or the process failed; JobLifecycle for the uncancelled job |
| `updates` | 1 cancellable job, 2 clients, 1 error, 1 restart | 622,528 | each update reaches every live client of the job, whatever dead sockets stay registered; nothing follows the end |
| `oauth_codes` | 2 consents of 1 session, 3 exchanges, Redis, 1 failing call, 1 restart | 343,436 | a code issues once; both tokens of an answer had been stored; CodeGrant |
| `oauth_rotation` | 1 exchange, 2 refreshes, 1 revocation, cache on disk, 1 refused set or unreadable file | 371,560 | a 503 leaves no token; rotation kills the old pair and the halves of a pair die together, unless a file could not be read |
| `sse` | 3 streams of 1 user, cap 2, queues of 2, 5 events, reap at every second emit | 1,041,289 | the cap, agreement of the three dictionaries, newest events in order, leaks only before the first byte |
| `users` | 3 requests (1 never commits), 2 accounts of one person and 1 of another, 16 choices of their tokens, strangers' phones among them, 5 starting tables | 125,522 | a row stays one person's, unless a stranger's phone reached it; no second row for a claimed account; active users keep their account; every request is answered |
| `vector` | 3 properties, 2 texts, 2 processes, 2 writers, batches of 2, 2 starting tables | 1,473,605 | behind the watermark the present text is embedded, or the property slipped in a named way; vectors belong to their hashes |
| `rent` | 2 charges with late fees, one with an inexact float total, 2 payers again and again, amounts below half a cent | 1,274,647 | paid means covered; only an overtaken payment or an inexact total makes sum and status disagree |
| `cache` | 2 readers, 2 writers, a list of posts and a list of properties, 5 kinds of edits | 425,464 | a stale answer awaits its eviction or has one of four causes; none stays once edits cease |
| `lab` | 2 jobs, 2 calls that Modal may run again without bound, with and without the column | 2,533,953 | a row stuck in progress has a cause; only a start's own update, or once the first report of each further run, moves the status back |

States of `sse`, `vector`, `rent` and `lab` are counted up to symmetry.

One run ends in a counterexample: `uow_doc` checks "A request that mutated state must still commit on clean exit"
(`tests/unit/core/test_database_session.py`). A service that ends in `flush()` leaves the three collections empty,
`get_db` sees nothing to commit, the client has its 200 and the close rolls the change back.

### Bounds, and why they are enough

- *Two actors per race.* Each property relates at most two requests, or a request and a task, for one row, code, pair
  or queue. Three exchanges let a third come after two have met; three streams let one wait at a cap of two; two
  payers return after each payment, so that one repairs what both have raced on; a third request of `users` never
  commits.
- *Limits are small but crossed.* Permits 1 makes the second job wait; `MaxRetries` 2 has a retry and a last try;
  queues of 2 overflow with the third of five events; `FullThreshold` 2 needs a repeated finding, as 3 does in the
  code; the cap of 2 is reached; a batch of 2 cuts off the third property. The theorems hold for every value of them.
- *Starting tables.* `Legacy` in UserSync and `Tables` in VectorSync are tables the system can have before the first
  step: rows of earlier versions, inactive rows, imported rows that were never updated.
- *Faults and restarts* (`MaxFaults`, `MaxCrashes`) are 1 where they are counted: one failure in any place, in any
  order with the rest. Only `oauth_rotation` has no restart: one of a process that caches on disk empties the cache.
  The theorems hold for any number of them. In the other modules failures are not counted at all.
- `MaxEvents`, `MaxTime`, `MaxEdits`, `MaxRows` and the number of calls in `lab` bound counters and fresh names and
  nothing else; no action depends on them.
- Deadlock is checked for `rent` and `cache`, whose actors start again for ever. In the other runs every request, job,
  socket and stream is served once, or the clock or the calls are used up, and the bounded system then really stops.

### Fairness, and why the code justifies it

Weak fairness only, where liveness is checked, on what runs on by itself:

- `WF(Run(j))`, `WF(CancelWrite(j))` in TourAiJobs: the loop resumes a task whose await is over, provider clients have
  timeouts and the semaphore is first come first served. Not of `CancelRead`, errors or restarts. A weakly fair `Work`
  may always choose failure; it still ends, because retries are bounded.
- `WF(Continue(r))` in OAuthTokens: cache calls return. Nobody has to send a request.
- `WF(Step(r))` in UserSync (`FairSpec`): a statement in flight is answered or times out. Lost connections, suspensions
  and deletions are not fair; the advisory lock is given up with its transaction.
- `WF(Drop(p))` in ReadThroughCache: every entry is stored with a time-to-live. Readers and writers are not fair.

UnitOfWork, JobUpdates, SseBus, RentLedger, VectorSync and SplatLab are checked for safety and assume no fairness.

## 4. Proofs

All theorems hold for every value of the constants under the assumptions each module names (finite sets of jobs, of
streams and of properties; positive permits, stages, retries, limits and rents; the kinds of OAuth request are
disjoint; a confirmed e-mail is its person's; a "nobody" or "none" is not one of the things it stands beside). Where
faults and restarts are counted the bound is of any size.

| Module | Theorems | Inductive invariant and why it is needed |
|---|---|---|
| `TourAiJobs_proofs` | TypeCorrect, PermitsAreConserved, TerminalRowsStayWhole, SettledRowsNeverChange, UncancelledJobsKeepTheirPromise, NobodyWaitsForNobody, NobodyOvertakes, StepsBringTheEndNearer | `JobOK`: where a task is bounds what its row and its session copy may say. `RunnerOK` ties the call under way to its stage, `ViewOK` says the copy agrees with the row in the columns only the runner writes and never holds a stamp the row lacks (so a column left out of an UPDATE is safe), `NotOver` says the row is unfinished or cancelled before the last update. Permits need the set of holders to be finite and to change by one job at a time. `QueueOK`: the queue of the semaphore names each waiting task once and nobody else. The refinement adds `Polled`: of a job nobody cancels the copy's status is the row's, and a runner's first update is a "processing" one. |
| `TourAiJobs_proofs`, of `JobUpdates` | EveryClientIsTold, NothingFollowsTheEnd | every step of the composition is a step of `TourAiJobs` or a stutter, so its invariant carries over. `Told`: once a live client, or the handler of one about to be sent its snapshot, knows an end, the runner has nothing else to send; `EndIsTheRunners`: the row's end is what the runner is reporting. `RegistryOK`: whoever is past the registration, and not gone, is in the set of its own job and no other. |
| `OAuthTokens_proofs` | TypeCorrect, CodesAreIssuedOnce, RejectedCodesStaySpent, PairsAreHandedOutWhole, CodesKeepTheirPromise, TokensStayDead, RotationKillsTheOldPair, HalfPairsAreBeingDropped, and for a cache in memory or on disk UnavailableLeavesNoToken | `KindOK` (a request takes only steps of its kind), `CodeOK` (at most one exchange was handed a code's payload, and every later answer is its), `PairOK` (what is stored by each step). `UndoOK` adds, without Redis, what a request may have left behind at each step; `RotationOK`, for any back end, that an access token outlives its refresh token only if that one expired, a revocation is between its two deletes, or a call for the pair failed (`cut`). The refinement adds `TakenOK` (who was handed a code asked for it) and shows that a step keeps every grant, voids some open ones, or offers or uses one. `Unwritten` (a request writes a token only where none was) is why dead tokens stay dead; `HalfOK` combines it with the two before. |
| `SseBus_proofs` | TypeCorrect, CapIsKept, BooksAlwaysAgree, QueuesHoldTheNewestTail, OnlyUnstartedStreamsLeak | the conjunction of the four properties with types and `NewQueuesAreEmpty`. They need one another: leaks need the books (the reaper finds queues through them), the tail needs new queues to be empty. |
| `UserSync_proofs` | TypeCorrect, RowsOfOnePerson, ServedRows, OneRowPerAccount, ActiveRowsKeepTheirAccount, OneRequestPerAccount, NoCircleOfWaits, StepsBringTheEndNearer | `Sound` of each request: its plan has keys of its own token only, the row it links was matched by a contact of its person unless a stranger's phone had a part in it (`doubtful`, `Strangers`), what it releases is inactive, what it inserted is new. It is stable because no commit takes a row's contacts away and only inactive rows give a claim up. `Apart`: a flushed insert shares neither row nor account with another flushed plan, since whoever comes second waits. `LockOK`: who is past the lock holds it, unless a conflict took it away and the reconciliation is on. |
| `RentLedger_proofs` | TypeCorrect, PaidIsCovered, OnlyRacesDisagree | `SeenStillHolds` (what a session loaded is never undone), `WriteIsCovered` (the sum it read is at most what is there at its commit), `FreshIsExact` (with no commit in between, the guard's inequality and the recomputed status still hold, rounding and the inexact total included). |
| `VectorSync_proofs` | TypeCorrect, NothingElseIsLost, VectorsAreNeverSwapped | `InFlightCovers`: until its upsert a pass holds the present text of every property its watermark would pass, or the property has it already; after it, the property has it. That vectors are never swapped is arithmetic on `Taken`, by cardinality of the properties ahead in the batch: after the first property that needs no vector, one that does finds an empty one, and the upsert fails. |
| `ReadThroughCache_proofs` | TypeCorrect, StaleAnswersHaveACause, StalenessRunsOut | `StaleReadsAreNoted`: of an answer under way the same as of a stored one, whichever of commit and eviction comes first. Without it a store could bring in a stale answer without a cause. |
| `SplatLab_proofs` | TypeCorrect, StuckRowsHaveACause, StatusesGoForward | `Unstarted`: a job no call was made for is pending, deleted or not there, and not being started. `Ahead`: the row of a call that works alone says at most what the call reports next, unless the call runs again and no report of that run has reached the row; so only a start's update and one report of each further run can move it back. |
| `SplatLab_proofs`, of `UnitOfWork` | SessionsAreWellTyped, FailedRequestsLeaveOnlyExplicit, ExitCommitIsAllOrNothing | `Accounted`: until the exit code runs, what was made is exactly pending, flushed, durable or undone, no change is two of these, and durable is what the service committed. Without it nothing says the exit commit has everything. |

Only model-checked are the four liveness properties, because liveness under fairness and ENABLED are beyond the proof
system. What each of them rests on is proved, for every value of the constants:

- `JobsReachTheEnd`: each step of a task lowers a measure (the life of the task, then the stages left, then the steps
  left of its stage) that no other step raises, so a task that goes on ends (StepsBringTheEndNearer). A task that waits
  for a permit waits for somebody (NobodyWaitsForNobody) and is not overtaken (NobodyOvertakes).
- `RequestsEnd`: at most twenty steps of a request remain, each one lowers the count and no other actor raises it
  (StepsBringTheEndNearer); waits are never circular and somebody can always go on (NoCircleOfWaits).
- `PairsDieTogether`: while half a pair that is not `cut` is left a revocation is at the delete of that half
  (HalfPairsAreBeingDropped), that step deletes it or its failure cuts the pair (lemma DropTokenEndsThePair), and it stays
  deleted (TokensStayDead).
- `Converges`: while a table is unedited no reader falls behind it, and an answer becomes stale only when a reader that
  was behind stores, once (StalenessRunsOut); expiry then removes what was stored.

Together with the weak fairness of section 3 these give the liveness properties by an argument on paper; TLC checks the
properties themselves on the instances.

No property here rests on data that only induction could cover (the prover cannot instantiate the induction
theorems), and no module declares a RECURSIVE operator, with which it loses its SMT back end.

## 5. What the checks do not say

Facts of the code the models contain and no property excludes:

- A cancel request that read "processing" may write "cancelled" over a job that completed meanwhile, and a runner's
  next update overwrites an acknowledged cancellation. `TerminalRowsAreWhole` and `SettledRowsStay` allow both.
- A client that connects between the handler's read and its registration misses an end reported in between and waits
  on an open connection; one that is sent the end before its own snapshot shows the snapshot's older status.
- `store_auth_code` ignores the result of its write, so a client may be sent a code that was never stored; redeeming
  it, and redeeming any code while Redis is out, is answered `invalid_grant`, although `get_auth_code` says
  infrastructure failures surface: the back end turns every error into "absent" below it.
- A job that failed with an exception without a text is reported failed with no error message.
- A socket whose client is gone stays registered until its handler notices, perhaps for good when the first send failed.
- Two refreshes of one token at once both get a new pair; only that the old one is dead is checked. With Redis
  failing, the old pair may outlive its rotation and a 503 may leave a token until its TTL. On disk one read error during
  a rotation or a revocation leaves an access token live until its TTL (`cut`).
- A stream that reads more slowly than events come is found full at each reap and detached; it keeps receiving
  keep-alives and no event.
- `delete_user_account` flushes only, so the anonymised row is rolled back after the identity is gone. That a transfer
  of an account to an active row is never refused is not stated: an id order can make it fail (`Conflicts`).
- A phone is linked and stored without a confirmation, and matched by its last ten digits whatever the country: a user
  who gives another's number, or one that ends like it, is served that person's row or takes it over (`doubtful`).
- Two payments that overlap can together exceed what is due (`raced`), and stay that way. A charge whose float total lies
  above the exact one stays partial when it is paid in full, and a further payment is refused or stored as 0.00.
- A batch in which a property that needs no vector precedes one that does makes the pass fail; the next pass reads the
  same batch and fails again. Only what is stored is checked, so no liveness is stated of passes.
- Single posts are cached under keys no edit evicts and are served stale for up to their time-to-live; new category and
  tag names, the scheduler's publishing and properties created by the tools evict nothing (cause "unlisted"). A property
  created over REST with amenities or images evicts before it is committed, so that a reader in between stores the list
  without it (cause "early").
- A splat job's last report names a column neither migration has, and the start's own update follows the spawn: each
  can leave a finished job in progress for ever (causes "column" and "overtaken"). A call that Modal runs again takes a
  job that showed "training", or was already ended, back to "extracting".

Outside the models:

- Row locks, isolation and conflicting writes of concurrent REST requests are outside `UnitOfWork`. `get_bg_db` has its
  exit code and is not repeated.
- What jobs write to tours, scenes and hotspots, the user channel of the WebSocket manager (the code of the job
  channel) and its heartbeat, and the `user_tokens` list, which nothing reads.
- In UserSync the dates that order several matches, names and verification flags, cached identity sessions, the webhook.
- In VectorSync a forced full pass, the retries of the embedding client, amenities, the search.
- In ReadThroughCache amenities, owners' names and the data hub as parts of an answer; the order of LRU eviction.
- In SplatLab the copies on the volume, signed uploads and image processing; `lab_pipeline.run_pipeline` has no caller
  and `train_splat_images` reports to no row.

## 6. Not modelled

- *Rolled back by the unit of work*: flatmates swipes, matches, messages and blocks, orders and payment verification,
  leases over REST, property swipes over REST. Their handlers end with `flush()`; a model in which they commit would not
  be of this code, and what happens to them is `UnitOfWork`'s subject.
- *One row, one check*: visits, bookings' statuses over the tools, applications, maintenance, inspections, tenants,
  documents, expenses, agents, custom domains, pages, bug reports. The unit of work is all the protocol they have.
- *Tolerances by design*: the rate limiter, whose two counters are read and written apart and promise nothing exact.
- *Pure I/O or data*: notifications, storage and media, image processing, scrapers, query construction and ranking,
  AI dialogue, share pages, MCP protocol adapters, start-up order, seed data.

Once the handlers of the first group commit, a module for the matches of two concurrent likes
(`services/flatmates/matching.py`) and one for orders and their payments (`services/payments.py`) are the next to write.
