# Rakkr in TLA+

Rakkr records audio on Linux recorder nodes and manages the recordings from a
controller. The controller (`apps/api`, one Node.js process on Postgres) owns
schedules, the queue of recording jobs, the recordings and their cached files,
the upload queue, retention, health events, the rooms and the nodes'
inventories and credentials. The recorder agent (`crates/recorder-agent`, Rust)
claims jobs over HTTP, captures, and uploads what it captured. This directory
models that core, checks it with TLC on small instances, and proves the most
important facts about it with TLAPS for every instance.

Contents: 1 the system, 2 the modules, 3 the runs, 4 bounds and fairness, 5 what
is proved, 6 where code and documentation disagree, 7 what is left out, 8 the
plan.

## 1. The system

### 1.1 Components

| Component | State it keeps | Operations | What is hard | What makes it correct |
| --- | --- | --- | --- | --- |
| Recording jobs (`recording-jobs.ts`, its routes, `recording-job-lease-runner.ts`) | `recording_jobs` rows: status, lease | create, three claims, heartbeat, complete/cancel/fail, two stops, retry, delete; an expiry pass before most reads | every store call is an await; a pass acts on a list that may be old; agents die; answers get lost | a job is captured once; ended rows stay ended; orphans end; stop requests resolve |
| Recording lifecycle (`recording-start-routes.ts`, `agent-routes.ts`, `agent-cache-uploads.ts`, `agent-job-terminal-recording.ts`, `recording-delete.ts`) | `recordings` rows | start, claim, upload, terminal reports, expiry listener, stop, retry, delete | rows are read, kept over awaits and saved whole; two tables change in separate calls; restarts between them | no recording stays `recording` without a job; secured audio is not downgraded; a delete leaves nothing behind; what is cached gets queued |
| Upload queue, runner and retention (`upload-queue.ts`, `upload-executor.ts`, `upload-runner.ts`, `retention-runner.ts`) | `upload_queue_items`: status, attempts, nextAttemptAt; files in the cache | enqueue with reuse, retry, start/succeed/fail, reconcile, release | attempts are leases; operators retry while a pass runs; a list is read long before the file is deleted | budgets hold; items settle; sources outlive their uploads |
| Recording chunks (`recording-chunks.ts`, `agent-cache-uploads.ts`, `upload-runner.ts`) | chunk rows and their items | upload of a chunk, reconcile, finalize, mark | any chunk may carry the total; rows are upserted from copies; the last one comes before, during or after the job's end | no chunk is lost; `uploaded` means whole |
| Recorder agent (`crates/recorder-agent`) | one state file, capture files | worker per session, shared capture, segments, stitching, rendering, upload, recovery | several workers share one state file; device losses, crashes and outages at any await | what was captured is uploaded or kept, and never without its start |
| Recorder cache (`recorder_cache_retention.rs`) | a manifest of uploaded takes | track, sweep, delete at once | workers load, change and save the manifest whole, while another one sweeps | no take is forgotten; a sweep takes what its policies ask for and no more |
| Capture starts (`capture-start-lock.ts`, `channel-conflicts.ts`) | a promise chain per node | check and create under the lock | the check reads a snapshot; claims and ends go on meanwhile | no channel is captured twice, no node is over its capacity |
| Schedules (`schedule-runner.ts`, `schedule-engine.ts`) | schedules, `nextRunAt` | due pass, queue, skip, advance, retry; edits, moves | crash between queueing and advancing; edits during a pass; calendar arithmetic | every occurrence runs once and none is passed over |
| Watchdog, health, liveness (`watchdog-*.ts`, `health-*.ts`, `node-liveness.ts`) | health events, the badge on a recording, samples in memory | sample, evaluate, open, acknowledge, resolve, derive the badge | resolving on stale evidence; the badge derived by several at once | what lasts is reported, what recovers is resolved; the badge shows the worst event |
| Switcher routing (`switcher-routing-runner.ts`) | what it remembers of the device | periodic pass: meetings, mappings, read-back, set | edits and hand routing during a pass; a device that drops out | outputs follow the live meetings; one event per outage |
| Node inventory (`node-inventory-reconcile.ts`, `node-store.ts`) | interface and channel rows | a report reconciled statement by statement; edits | overlapping reports; a statement that fails in the middle | the rows are as the hardware is; operators' labels stay |
| Node enrollment and credentials (`node-bootstrap-routes.ts`, `node-ssh-credential-*.ts`, `bootstrap.rs`, `runner.py`) | tokens and keys: rows, env file, `authorized_keys` | bootstrap, rotate, deploy, renew trust | two places that must agree, changed one after the other | one active credential of a kind; a node that was deployed is let in |
| Rooms and rosters (`room-*.ts`, `channel-room-routes.ts`, `schedule-routes.ts`) | the rooms of channels, their copy in each schedule, the copy of its assignees in the roster | assign, patch, create, move, delete; a roster reconciled in two statements | three copies of one fact, written by requests that overlap | the copies agree when nothing is under way |
| Auth, audit, settings, channel maps, meters, listening, metrics, web console, docs | configuration and views | CRUD, reads | | |

`PROJECT.json` lists every component with its files and whether it is
modelled, and every hazard with its line and the properties that would catch it.

### 1.2 How they interact

A *schedule* pass or an operator *starts* a capture under the node's lock: the
recording is inserted, then its job. The agent *claims* the job
(`claim-next-group`, `claim-next`, or by id); the controller moves the job's row
to `running` by a compare-and-set and saves the recording as `recording`. While
it captures, the agent *heartbeats*, which renews a 30 s lease, and polls the job
for a stop. When it is done it PUTs the audio (`cache-file`), whole or chunk by
chunk: the controller stores the file, saves the row as `cached`, completes the
job and enqueues an item for every matching upload policy. The *upload runner*
attempts due items and *reconciles* the recording to `uploaded` or `partial`,
releasing the cached file when a policy asks for it and every destination has
it. The *lease runner* fails jobs whose lease ran out and calls a listener that
marks their recordings. The *retention runner* removes old cached audio, the
agent's own retention removes uploaded takes from its disk. The *watchdog*
samples the meters of what is being recorded; the *switcher runner* routes the
rooms' inputs to the users who meet there. Operators start, stop, retry, delete
and edit everything.

The controller is one event loop and one replica
(`deploy/helm/rakkr-controller/values.yaml:44`): between two awaits nothing
else runs, and at every await anything may. That granularity is the models'
granularity. All of them use the Postgres stores: `find` and `list` return
copies, `save` upserts the copy, `transition` and `claim` compare the stored
status in the `UPDATE`. In the agent a step is the Rust code between two awaits,
and a crash may come between any two steps.

## 2. The modules

| Module | Models |
| --- | --- |
| `RecordingJobs` | the job table of one node and every request on it; implements `JobLifecycle` |
| `JobLifecycle` | what the table promises: the life of a job, one atomic step per call |
| `Recordings` | one recording's row, its file, chunks, items and jobs, under every handler; its job steps are `JobLifecycle`'s |
| `UploadQueue` | the items of one whole-file recording, the upload and retention runners, operators |
| `ChunkDelivery`, `ChunkPromise` | a chunked recording: the agent's delivery and recovery, the controller's chunk upload, pass and marking |
| `AgentCapture` | the agent's workers, state file, shared captures, recovery |
| `CacheRetention`, `CachePromise` | the agent's manifest of uploaded takes and its sweeps |
| `CaptureStart`, `CapturePromise` | starts of captures under the node's lock |
| `ScheduleEngine`, `ScheduleRunner` | recurrence arithmetic; the runner's pass and operators' edits |
| `WatchdogSignal`, `WatchPromise` | one recording's signal and one node's heartbeats as the watchdog sees them |
| `HealthEvents`, `HealthPromise` | health events and the badge under the watchdog's pass and concurrent requests |
| `SwitcherRouting` | the reconcile pass of the switcher runner |
| `NodeInventory`, `InventoryPromise` | reports of devices, statement by statement, beside edits |
| `NodeEnrollment`, `CredentialPromise` | tokens and keys of a node under bootstraps, rotations and deployments |
| `RoomBookings`, `RoomPromise` | rooms, schedules and rosters under every request that writes them, statement by statement |
| `Records` | records whose fields differ from step to step |
| `...Proofs` | theorems about the module they are named after; `StoresProofs` about schedules and health, `NodeProofs` about chunks, the cache, the credentials and the interfaces of a recorder, `BookingsProofs` about rooms and the starts of captures, `RunnersProofs` about the switcher runner and the watchdog |
| `MC...` | model values, and the harnesses that put several instances in one run |

A `...Promise` module holds what a component promises over the state its users
see; the component's module, which says how, extends it, and so do the harness
that checks the promise and the proofs.

**Requests.** In each module a request, a worker or a pass is a slot: a program
counter and the local variables the code carries over an await (`snap`, `copy`,
`list`, `loaded`, `seen`). `Begin...` actions receive a request; each later
action runs the code from one await to the next. A find that is followed at once
by a compare-and-set on the same condition is one step, since the
compare-and-set decides. `StoreFails`, `Outage` and `Fails` are a store call that
throws: the request ends, and what it wrote stays. `Restart` is the process
dying: every request in flight is gone, and the tables and files stay.

**History.** Variables that the code does not have are marked so: what was
captured (`heard`), delivered (`delivered`), queued (`runs`), and what excuses a
property (`exposed`, `dropped`, `torn`, `skipped`, `stale`, `spoilt`, `raced`, ...). No
guard reads them.

**RecordingJobs.** `rows` is the `recording_jobs` table. A row's lease
(`leaseExpiresAt`) and a stop request's grace time are a `timer`: `live` until
`Elapse`. `List`, `ExpireOne` and `EndExpiry` are `expireRecordingJobLeases`,
which every claim, stop, retry, heartbeat and completion starts with: a list, a
compare-and-set per expired row of it, newest first, and a second list if
something was expired. `Selection` is `nextRecordingJob` and the group filter;
`ClaimMember` claims the selected rows one by one, each after an expiry pass of
its own. `Respond` delivers the answer or loses it. `held` is what living agent
workers capture, `known` what some agent ever received: after a crash it
reports jobs from its state file.

**Recordings.** `row` is what the properties tell apart of the row: its status
and whether it names cached audio. `ScopeAllows` is the set of checks an upload
and a report must pass (`agent-job-recording-scope.ts`), made on a row read
before the body streams in; `UploadStore`, `UploadSave`, `UploadComplete`,
`UploadEnqueue` are the four effects of the PUT, each its own step. A failure of the
last is swallowed: the PUT is answered 201 and no item is there (`skipped`). A
failure of any other is an error, after which the agent replays. `MarkChunks`,
`MarkReread` and `Mark` are `markAgentJobTerminalRecording`, with
`TerminalStatus` its verdict. `BeginExpire` is the commit of an expiry,
`ExpireFind` the listener that follows in the same process. The deletion's
sweeps run in the code's order: file, chunks, jobs, items, row.

**UploadQueue.** `items` is the `upload_queue_items` table, `nextAttemptAt` a flag
that `Elapse` sets. The upload runner's pass is `RunnerDue` (the batch),
`RunnerStart` (the compare-and-set that counts and leases the attempt),
`RunnerUpload` (the provider's answer), `RunnerSettle`, then per recording
`RunnerList`, `RunnerReread`, `RunnerRelease`, `RunnerSave`. Retention is the
same shape.

**AgentCapture.** Audio is a set of pieces, captured in order; `disk` has the
files of each job (raw, segments, stitched, render). A worker claims a session
(a primary and the members that share its device), captures, loses its device
and goes on with a segment, stitches, renders each job, uploads, and deletes
what its policy says. The state file is one for all workers (the last writer
wins); `Boot` and the recovery read it at the start and after an outage. The
controller is what the agent sees of it: `Accepts`, `Attach`, `Report`.
A file is named after its recording (`RecordingOf`), which a job and its retry
share: a retry is claimed only when the job before it has ended and failed (`Due`),
and its capture overwrites what that one left (`Overwrite`). After a device loss the
capture is renamed to a segment or, when it is too short or the rename fails, it
is not, and the next capture overwrites it or it is removed (`LoseDevice`,
`Discard`, `dropped`). A respawn that fails is reported, or after a disk shortfall
ends the worker without a report. `exposed` names the jobs whose files something else
may have touched: a recovery that did not know all of them, or a retry.

**ChunkDelivery.** `agent` delivers chunks as they close, keeps failed ones
pending, and sends the total when the capture ends; `saved` is its state file.
`put` is the controller's handler of a chunk (object, row, items, listing,
stamping of the total, marking as cached), `pass` the upload runner's
reconciliation of the rows and of the recording, `mark` the marking after the
job's end. Each keeps copies that the others may have made old.

**CacheRetention.** `doing` has the workers and the idle main loop: a capture, an
upload, then `apply` (delete at once, or track under the manifest's lock), and
sweeps whose plan is made from age, size and free disk. A file that cannot be
removed, a manifest that cannot be saved and a restart are faults.

**CaptureStart.** `tail` is the promise chain. Under it a start lists the jobs,
decides (conflicts of channels in the window, capacity, group), inserts the
recording, then the job. Claims, stops, ends and retries take no lock.

**ScheduleEngine, ScheduleRunner.** Time is ticks of a small calendar; recurrence
(daily, weekly, monthly, once, always on, every n, skips, early start) is a set
of operators, `CalendarFrom` the reference the advance is compared with. The
runner's pass and each edit read a row, merge their update and write it whole
(`Store`). `slot` of a row is history: the occurrence it waits for. So are `runs`
(what was queued; a one-off that is moved starts anew), `cut` (queued and not
recorded), `stale` (written by one that had not seen the last write) and `slipped`
(a run once put off into another date).

**HealthEvents, WatchdogSignal.** The first has the store: events, concurrent
life cycle requests, the pass that writes what it listed, and
`syncRecordingHealth`, which re-derives the badge in several reads and a
compare-and-set; what a check finds is chosen freely. The second has what the
checks find: frames and their age, the window of samples, thresholds as marks of
a frame with cumulative seconds, heartbeats and the offline event.

**SwitcherRouting.** A pass lists the live meetings, reads the mappings, talks to
the device, reads back, sets what differs, and opens or resolves the event of an
outage. `during` is history: what was so at some time of the pass.

**NodeInventory, NodeEnrollment, RoomBookings.** Each is a table or two whose
requests are sequences of statements without a transaction around them (or with
one, where the code has it), interleaved freely, refused by the foreign keys and
unique indexes of the schema, failing and cut off by restarts.

## 3. The runs

A harness puts several components in one run: they share no state, each has
variables of its own, and the initial state chooses which part moves, so the run
checks each part by itself and never a mixture. `PROJECT.json` has the
properties of every run; each cfg says in a comment what its instance is.

| Run | Harness | Question | Instance |
| --- | --- | --- | --- |
| `Stores` | `MCStores` | What can overlapping requests do to the controller's stores? Jobs (`ClaimedOnce`, `EndsStand`, `ImplementsLifecycle`), starts (`CapturesFit`), health (`HealthAgrees`), inventory (`InventoryKept`), credentials (`CredentialsKept`), rooms (`RoomsAgree`) | 1 job, every call, 2 requests beside the lease runner; 2 starts, 2 jobs, a crash; 2 health requests and 2 passes; 3 reports and an edit; 2 changes of credentials; 2 requests about rooms; a fault for each |
| `Rows` | `MCRows` | Can a recording be left `recording` without a job or for ever, who may downgrade secured audio, does a deletion leave nothing behind, is what is cached queued? (`RowsHold`, `RowSettles`, `DowngradesSettled`, `RowsQueued`) | everything that ends a job with 2 requests; a job and its retry with outages and restarts beside the upload runner |
| `QueuePass` | `MCUploadQueue` | Do budgets hold, do items settle, is only delivered audio released, are recordings reconciled? (`BudgetKept`, `DeletedStays`, `ReleasedIsDelivered`, `Reconciled`, `ItemsSettle`) | 2 destinations, 2 items, 2 attempts, 1 pass cut short |
| `NodeParts` | `MCNode` | Does the recorder lose audio? (`AudioKept`, `StartKept`, `RecoveryEnds`; `ChunksKept`, `ChunksReconciled`; `NothingLeaks`, `SweepFits`) | a shared capture of 2 pieces with 2 faults, and a retry of one of its recordings into the same files with 1; 2 chunks with 1; 3 takes of 2 workers with 1 |
| `ControlParts` | `MCControl` | Does every occurrence run once, is none passed over, do one-offs run? (`RunOnce`, `CalendarAgrees`, `ComingKept`, `OnceRuns`) Do orphaned jobs end and stops resolve? (`LeasesEnd`) | 2 schedules over 5 ticks of a calendar with 3 ticks a day, an edit and a fault; a job and its retry |
| `RunnerParts` | `MCRunners` | Do outputs follow the meetings and outages open one event? (`OnlyWanted`, `OneEvent`, `Converges`, `OutagesFollowed`) Does the watchdog report what lasts, resolve what recovers and leave loud rooms alone? (`AlertsFollow`, `LoudStaysClear`) | 2 rooms, a user, 1 edit, 2 faults; 3 signals, 2 checks, 2 faults |
| `JobsStop`, `JobsSplit` | `MCRecordingJobs` | section 6 | the smallest that shows it |
| `RowReplayed`, `QueueSource`, `ChunksShort`, `SchedulesSlip` | `MCRecordings`, `MCUploadQueue`, `MCChunks`, `MCControl` | section 6 | the smallest that shows it |

What the properties relate:

- *Jobs.* `ClaimedOnce`: a job is won by one claim ever. `EndsStand`: once ended
  or deleted, a row is changed back by nobody except a heartbeat that had found
  it running. `LeasesEnd`: orphans end and stop requests resolve.
  `ImplementsLifecycle`: the refinement.
- *Rows.* `RowsHold` is `ActiveHasJob` and `DeleteLeavesNothing`. The first: with
  nothing in flight, `recording` implies a job that can still end it, unless the
  recording was retried or deleted or a request was cut off (`lost`). The second: a
  deleted recording left no job, chunk or item, unless the deletion met another
  HTTP request (`met`). `DowngradesSettled`: secured audio is downgraded only by a
  retry and the claim of its job, by a deletion, or by a write that was built on
  a copy from before it was secured. `RowsQueued`: what is cached gets queued,
  whatever was cut off or lost, unless the enqueueing itself failed (`skipped`),
  which nobody makes good (section 6).
- *Uploads.* `BudgetKept`: no item beyond `maxAttempts` but for attempts cut short.
  `ReleasedIsDelivered`: whoever deletes the source saw every item it listed
  delivered. `Reconciled`, `ItemsSettle`.
- *Recorder.* `AudioKept`: a captured piece is at the controller or on the disk, for
  the primary and every member, but for the pieces that a loss could not preserve
  (`dropped`) and jobs whose files were not theirs alone (`exposed`). `StartKept`: the
  controller has no piece of a job without the earlier ones, but for the same
  pieces and jobs and a crash between a loss and the record of its segment (`torn`).
  `ChunksKept`: a closed chunk is somewhere, and `uploaded` is whole. `NothingLeaks`: a delivered take that is on the disk is
  within reach of a sweep. `SweepFits`: a sweep that found its files removable
  leaves the policies satisfied and took nothing they did not ask for.
- *Starts.* `CapturesFit`: over claims, stops, ends and retries between a start's
  reads and its inserts, no channel is captured twice, an interface is one
  capture, operators' starts fit the capacity.
- *Schedules.* `RunOnce`, `ComingKept` and `CalendarAgrees` compare what the runner
  queued and set with the occurrences of the rule. A schedule is excused from the
  first when a run of it was cut off or a write of it was stale, from the others
  when a run of it was put off into another date (section 6, `SchedulesSlip`).
- *Health.* `BadgeAgrees`: when nothing is under way the badge shows the worst
  active event, unless the last two changes met. `OneActive`: one active event
  per check, unless somebody revived one. `LastingReported`, `RecoveryResolves`.
- *Nodes.* `InventoryWhole`, `LabelsKept`; `OneCredential`, `AdmittedNode`;
  `BookingsAgree`, `RetryDetects`.

The excuses in these properties are exactly what the code leaves open, each kept
in a history variable that only the event it names can set; where the excuse is
itself against a documented promise it is listed in section 6.

Every property of a passing run has a mutant in `PROJECT.json`: an operator
next to the definition it stands for (`CanClaimUnchecked`, `ListEventsOnce`,
`InsertTwo`, `ClearRowsKept`, ...), which is a plausible bug in that code and
breaks it.

## 4. Bounds and fairness

**Bounds.** `Calls` and `Kinds` are the calls made in a run, so that a run can
leave out what its question does not need; `Request` how many are in flight;
`Max...` how often something is inserted, begun or fails. Two requests beside a
runner are what the races of this code need: each is between one stale read and
one other writer, and the runner adds a third. One job covers every race on one
row; a second is there for groups and for retries, which are the only ways in
which two rows meet. Two items cover "one destination has it, another does not".
Two attempts have both a first failure that retries and a last one that gives
up. Two pieces are a start and a rest, which is what a lost start needs; two
chunks a whole and a missing one. Two faults let a fault hit the recovery from
another. Where a bound hides something (capture groups of two jobs in `Stores`,
three pieces, more faults), the theorems of section 5 hold without it.

The configurations say `CHECK_DEADLOCK FALSE` because their instances end: the
calls, faults and ticks are used up.

**Fairness.** Weak fairness of the handlers' steps: the event loop resumes every
promise whose call returned. Weak fairness of the runners' first steps: interval
timers (`recording-job-lease-runner.ts:4-35`, `upload-runner.ts`,
`schedule-runner.ts`, `switcher-routing-runner.ts`, `api-runners.ts`). Weak fairness
of time (`Elapse`, `Tick`), and of an agent that runs sending frames and
heartbeats. Strong fairness where an action is disabled again and again by
others: `BeginExpire` in `Recordings`, which stands for a lease that runs out and
the tick that finds it; the agent's `Tick`, which its workers delay; the
recovery's upload, which the link may interrupt but not for ever.
`RetriedUploads` adds that an agent with a finished capture replays its upload
until it is acknowledged, which the agent does from its state file, and that the
controller does not restart for ever. No fairness is assumed of operators, of
claims, of reports, of providers or of devices.

## 5. What is proved

TLAPS proves each of these for all values of the constants that meet the
module's named assumption (or, for a component that a harness instantiates, with
that assumption as a hypothesis of the theorem). Each invariant below was checked
by TLC on a small instance before it was proved. `PROJECT.json` lists the
theorems; the lemmas are in the modules.

| Theorem | States | Module |
| --- | --- | --- |
| `NoDoubleClaim`, `EndsAreFinal`, `TableImplementsLifecycle` | `ClaimedOnce`, `EndsStand`, `Spec => Lifecycle!Spec` | `RecordingJobsProofs` |
| `BudgetRespected`, `NoResurrection`, `OnlyDeliveredReleased` | `BudgetKept`, `DeletedStays`, `ReleasedIsDelivered` | `UploadQueueProofs` |
| `AudioIsKept`, `StartIsKept` | `AudioKept`, `StartKept` | `AgentCaptureProofs` |
| `NoChunkIsLost`, `NoTakeLeaks`, `SweepsFit` | `ChunksKept`, `NothingLeaks`, `SweepFits` | `NodeProofs` |
| `OccurrencesOnce`, `NonePassedOver`, `ScansAgree` | `RunOnce`, `ComingKept`, `CalendarAgrees` | `StoresProofs` |
| `RowsHoldAlways`, `DowngradesHold` | `RowsHold`, `DowngradesSettled` | `RecordingsProofs` |
| `RoomsAreAgreed`, `StartsFit` | `RoomsAgree`, `CapturesFit` | `BookingsProofs` |
| `OneEventPerOutage`, `RoutesOnlyWanted`, `LoudIsNeverLow` | `OneEvent`, `OnlyWanted`, `LoudStaysClear` | `RunnersProofs` |
| `InventoryIsKept`, `CredentialsAreKept` | `InventoryKept`, `CredentialsKept` | `NodeProofs` |
| `HealthAgreed` | `HealthAgrees` | `StoresProofs` |

and the type invariants of `RecordingJobs`, `Recordings`, `UploadQueue`,
`AgentCapture`, `ScheduleRunner`, `SwitcherRouting` and `WatchdogSignal`. The arguments:

**RecordingJobs.** `ClaimedOnce` is not inductive: that a row is queued says
nothing of how often it was claimed. `IInv` adds `Counted` (a queued row was never
claimed, a running one was), which the claim's compare turns into "at most
once"; `Fresh` (ids not inserted yet are untouched), for `Create` and `Retry`;
and `Remembers` (what a request carries over an await): a heartbeat about to
save found a job that had been claimed, since its blind save makes a row
`running`, and an expiry pass holds only rows that were `running` or
`stop_requested`. The last is also what shows that `ExpireOne` maps to the
life cycle's `End`. The refinement has one step per action, each a step of
`JobLifecycle` or a stutter. `Stores` checks one job; the proofs cover groups.

**UploadQueue.** `BudgetKept` needs `Left`: an item that is due and not in flight
has an attempt left, which lets the next start count one more. It needs in turn
what is in flight (`Flies`, `Asks`) and `Inserted`. A cut adds one to the allowance
because an attempt that was counted and never settled is the one that is lost.
`ReleasedIsDelivered` is about a list that is older than the deletion. It follows
from `Told` (an attempt that a pass knows to have succeeded is delivered, and so
is the policy of every succeeded item) and `Lists` (the list of whoever is about
to delete names only inserted items, whose policy never changes, and the
succeeded ones of it are delivered); `delivered` only grows, so what a list said
stays true however old it gets.

**AgentCapture.** `AudioKept` by files: until a job's audio is received, a piece
is in its raw file, its segments, its stitched master or its render, or a loss
dropped it, and every other deletion follows an acceptance. `Works` says what each
worker relies on at each await, `Recorded` what the state file may claim about a session that no worker
holds, `Recovering` what a recovery has read. A recovery that does not know the
whole session and a retry that captures over an earlier job's files add what they
handle to `exposed`, and nothing is claimed of it (`Exposure`: a primary takes its
members along).
`StartKept` is over an invariant of its own (`SInv`). Files hold only what was
captured, and a master is received whole (`Captured`, `Delivers`). A worker
remembers every segment until it stitches them, so that its master is then
everything captured (`Remembering`). The state file names every segment, so that a
recovery which sends the raw file sends it because there is no other, unless a
worker is ahead of the file (between a device loss and the record of its segment):
a crash there is what `torn` names (`StateWhole`, `RecoveryWhole`).

**ChunkDelivery.** `Requests`: the chunk of a request whose object is stored is
safe, and the agent waits for the answer about its own chunk. `Witnessed`: what a
row or a copy of it calls uploaded is at a destination. `TrueTotals`,
`AgentTotals`: as long as no total was guessed every total that anyone carries is
none or the true one. Then a pass that counts as many delivered chunks as the
total has them all, by cardinality.

**CacheRetention.** Whoever has the manifest's lock reads it as it is
(`Exclusive`), so a whole write loses nothing. Each take on the disk is then in
the manifest, with a process that will put it there, or named by the state file
(`WithinReach`); a sweep that drops a take has all of its files to remove (`Sweeps`). What
a sweep plans is arithmetic. A size is the number of bytes of a set of files, so
sizes add up by cardinality (`SizeSplits`), and the oldest takes that make up a size
come before all others, suffice, and do not without the last of them
(`EldestFirst`, `EldestSuffice`, `EldestNeeded`): that is one policy
(`OnePolicyFits`). The plan is a recursive function over the policies, and what it
has after each of them is shown by the least policy for which it would fail
(`PlansExist`, `UpToGrows`), since the library's rules of induction cannot be
instantiated. `SweepInv` adds to the invariant of the manifest that its takes have
different places, so that the candidates are strictly ordered (`CandidatesRanked`).

**CaptureStart.** Only the head of the lock's queue goes on and no time passes
under the lock (`Lock`); what it has read can only have shrunk when it decides:
a job that it did not read is a retry, and one that was claimed meanwhile in time
holds no more than it did when it was queued (`Informed`). From the decision to
the job's insert nothing else is granted (`Granting`).

**SwitcherRouting.** Whatever a pass has read and computed was so at some time of
the pass (`Witnessed`), whoever edited meanwhile. An event is unresolved only while
the runner remembers the outage (`Followed`), until a restart or an operator.

**Recordings.** Each action is first reduced to what it does to the slots, the row,
its jobs and its data (`...Does`), and the invariant is proved over those.
`ActiveHasJob` needs to know who will still end a recording: while nothing failed and
nothing was retried, a row that reads `recording` has an active job, or a start that
is about to insert it, or an ending whose marking is under way, and no upload or
late copy can write `recording` back (`Ends`). That rests on who holds a job: the
request that claimed it, alone, then the agent that knows it (`Holding`), and on
nothing being retried before the first job was handed out (`FirstJob`).
`DeleteLeavesNothing`: each phase of a deletion that runs alone has removed its share
and nobody brings it back (`Deletes`). `DowngradesSettled`: the audio of a recording
whose job nobody knows is not secured (`Unsecured`), and the upload runner and the
late markings save copies that were (`Shapes`).

**ScheduleRunner.** None of the three is inductive, since a pass and a request write
updates that they computed from rows they read some steps ago. `Passing` and
`Asking` say what those updates are, and from which row. `RunOnce` needs that
whoever waits for an occurrence has not been queued for it, a recurring schedule
for no later one either (`Waits`): the row, every copy that a pass has listed
(`Fresh`), and what a rollback will bring back (`Moved`). `ComingKept` and
`CalendarAgrees` need that a row, a copy or a row with the update over it waits for
an occurrence of its own rule and phase (`Good`) and, unless its run was once put
off into another date, for the first to come (`Ahead`). The lemmas under them are
about the calendar and hold for every one: dates and instants are in order
(`RunDate`, `RunOrder`), a phase goes on from each of its own occurrences
(`Follows`), and the scan returns the least candidate, by the least element of a
set of naturals and no recursion. A calendar is the first date of each month, an
increasing function of any length.

**WatchdogSignal.** `LoudStaysClear` ties what the history says of the room (`good`,
`fresh`) to what the controller has: the last frame is at most a tick old and loud
(`Framed`), and every sample of the window that was taken since shows it
(`Sampled`). A window of such samples, and it is not empty, is not low whatever
the spans, since what is marked loud is then all of it (`LoudWindow`): no sum has to
be computed.

**HealthEvents.** The badge is right at rest because the last derivation was: unless
two of them met (`clash`), whoever syncs alone has read the row's badge and works
out the badge of the events as they are (`Alone`, `Derives`), since every change of
an event is followed by a sync of the same request, whose compare-and-set then
compares what nobody else wrote. One event for a check: the pass opens one only
when it found none active, and what became active since was brought back
(`Opening`).

**NodeInventory.** A report lists the rows once and goes on for many statements, so
the invariant says what it still knows of them. Reports that are in flight together
have met (`Encounters`), and a device that one of them writes while it has met
another is excused from then on; so a report that has met none knows the devices it
inserts to be new (`Enlisted`), a device has one row (`Sole`) and one report that
reconciles it (`Apart`), and the channels it lists are those it later completes
(`Knows`). A label outlives its channel nowhere (`Blank`), which is why an inserted
channel may start without one. Rows are whole, torn or being reconciled
(`Complete`); a report that runs alone has agreed with the rows it is done with,
those it skipped included (`Progress`). At its end that is `InventoryWhole`, with a
count of channels by a bijection with their indices (`ChannelsCounted`).

**NodeEnrollment.** A revocation and its insert commit together, so one token is
active throughout (`Singles`). Requests in flight together have met (`Meetings`); one
that has met none knows which credentials are active and which the node has
(`Holds`), at every await and after every failure, so that what it places last is
what is active.

**RoomBookings.** `RoomsAgree` speaks of moments with no request in flight, so the
invariant must say what the requests in flight are about to put right. Each has a
scope, the schedules that it may write, and two whose scopes meet know it
(`MutuallyRaced`); outside the scopes every unspoilt schedule is in order
(`Settled`). A request that met nobody relies on what it read (`Holding`): the row
it is about to write is the one there is, or has the room its channels have, and
only the schedule it is writing may be out of order. An assignment of channels
(`AssignHolding`) has some schedules done and in order and some left, which are in
the roster of the room they had and are listed with a room that is not their
channels' any more. That, with `UndoneAside`, is `RetryDetects`: a move that is
undone puts back a room that is not the channels'. The deletion of a group
(`GroupHolding`) leaves rosters right but for the group. One lemma (`RoomStepKept`)
then shows that a step that writes only what its request reserves (`RoomStep`) keeps
the invariant of all others, so that each of the twelve statements is checked for
its own request only.

**Only model-checked**, and why:

- Liveness (`LeasesEnd`, `RowSettles`, `RowsQueued`, `ItemsSettle`, `Reconciled`,
  `RecoveryEnds`, `ChunksReconciled`, `OnceRuns`, `Converges`, `OutagesFollowed`,
  `AlertsFollow`): fairness and `ENABLED` are out of the prover's reach.
- The types of the harnesses (`StoreTypes`, `RowTypes`, `NodeTypes`, `ControlTypes`,
  `RunnerTypes`), which put those of several components together.

## 6. Where the code and its documentation disagree

Each of the first six is a run that TLC ends with a counterexample, and a finding
in `PROJECT.json` with the quoted line.

- `JobsStop`: a heartbeat finds a running row, a stop commits, the heartbeat
  saves its copy: the stop request is gone. The guide says a stop is honored
  mid-capture.
- `JobsSplit`: two workers each win a part of one capture group. The baseline
  says the agent claims the whole group.
- `RowReplayed`: a replayed upload sets a delivered recording back to `cached`,
  and the reused succeeded item never promotes it again. The comment calls the
  duplicate upload idempotent.
- `QueueSource`: an item enqueued after the pass listed the items loses its
  source. The guide says that never happens.
- `ChunksShort`: a capture that ends on a chunk boundary with uploads pending
  takes the number uploaded so far for the total; after a restart a recording
  with a lost chunk reads `uploaded`. The comment says a gap means `partial`.
- `SchedulesSlip`: a run that is put off into the next day takes that day's own
  occurrence with it. The baseline says each occurrence creates one recording.

The properties that hold are stated so that they are exactly as strong as these
allow: `EndsStand` exempts the heartbeat and nothing else, `ReleasedIsDelivered`
speaks of the items the deleter listed, `ChunksKept` excuses a guessed total,
`ComingKept` a run that strays into another date, and the rollback of a move of a
schedule that had one.

Met while modelling and not run:

- *Rows.* A controller restart between the commit of an expiry
  (`recording-jobs.ts:459`) and its listener (`index.ts:86-103`) strands the
  recording as `recording` (`recording.md:75-77` says a crashed agent never does).
  A crash between the inserts of a recording and its job does the same
  (`recording-start-routes.ts:305`). Two retries at once insert two jobs. The
  expiry's compare-and-set is on the status, so it ignores a lease that was
  renewed since the list. A save after a deletion inserts the row again
  (`recording-delete.ts:268`).
- *Enqueueing.* A destination lookup or an insert that fails while a finished upload
  is enqueued is caught and filed as a health event, and the PUT answers 201
  (`agent-cache-uploads.ts:180-213`, `agent-routes.ts:728-764`). The agent does not
  replay an upload that was acknowledged, so the recording stays `cached` with no item
  for the policy, where the guide says that the controller enqueues one per enabled
  policy (`storage-and-uploads.md:62-63`). For a chunk it is the same
  (`agent-cache-uploads.ts:384-468`): acknowledged, and never queued. `RowsQueued`
  excuses it; `ChunkDelivery` has the case.
- *Agent, files.* A job's files are named after its recording
  (`recording-jobs.ts:124`, `channel_map.rs:31-36`), and a retry clones the command
  (`recording-jobs.ts:314`): on the same node its capture overwrites what the failed
  job left, which may be the only copy. In the model it does so at once and to all
  of the recording's files. After a device loss
  `preserve_recovered_capture_segment` gives nothing for a capture below
  `min_output_bytes` and for a rename that failed
  (`recording_job_segments.rs:76-87`); the capture is then removed
  (`recording_job_recovery.rs:678`) or overwritten, the job goes on and completes
  without it. A respawn that fails after a disk shortfall leaves through `?`
  without a report (`job_runner.rs:225-237`), so that only the lease ends the job.
- *Agent.* No heartbeat is sent during the work after a capture, so a lease may
  run out (`recording.md:75-76`). An agent that sees `stop_requested` cancels
  without finalizing (`job_runner.rs:610`, against `recording.md:64-66`). After a
  stitching whose new state was not written yet a restart finds the raw file gone
  and reports the job failed, although the stitched audio is on the disk.
- *Recorder cache.* Recovered interrupted captures carry no cache policy and are
  never tracked; members of a shared capture are never tracked either; entries of
  a policy that was removed are never swept; disk use is measured before the lock,
  so a later sweep may take more than it needs.
- *Chunks.* The items of a chunk are enqueued before the recording is marked
  cached.
- *Health.* A loud room may be reported as silent right after a restart of the
  controller (`LoudIsNotLow` in `WatchdogSignal`; the checked property excuses the
  window). A pass that writes the status it listed revives an event that was
  resolved meanwhile.
- *Nodes.* Channels that a fault left unfinished are not repaired by the next
  report, whose shortcut compares the row only (`node-onboarding.md:169`);
  overlapping reports insert a device twice. The bootstrap consumes its token,
  stores the inventory and rotates in separate calls ("one transaction",
  `node-onboarding.md:147-150`), and errors of the inventory are swallowed
  (`node-bootstrap-routes.ts:185`). When no token can be minted the deployment
  writes an env file without one (`node-ssh-credential-routes.ts:183-184` says the
  prior one is used). After a rotation of the key, renewing trust cannot log in.
- *Rooms.* An upsert after a deletion brings a schedule back; a whole-row write
  overwrites a move made meanwhile; two failures in a row strand a schedule
  (`channel-room-routes.ts:225`); an undone move whose channels are assigned back
  leaves a roster that the assignment skips; the deletion of a room does not move
  schedules that spanned it; the deletion of a group racing a PATCH brings its
  rows back.

## 7. What is left out

- *Data.* Names, channels, formats, checksums, waveforms, paths, audit events,
  permissions and node-credential checks: no property tells them apart.
- *The JSON store* of a development setup: synchronous, so its calls have no gap.
- *Writes that keep the status.* Metadata edits save a recording by
  compare-and-set on the status they read, so they cannot move it. Imported
  recordings have no job.
- *Overlapping deletions.* `DeleteLeavesNothing` excuses a deletion that met another
  HTTP request; what two do is in section 6.
- *Capture groups of two jobs* are in `JobsSplit` and in the proofs only.
- *Many controllers.* The deployment runs one; in-process locks and flags rely
  on it.
- *The web console, the documentation site, settings, channel maps, the audit log,
  authentication and access policies, meters, listening, metrics, the providers'
  protocols, telemetry, deployment*: views, configuration, pure input and output, or
  who may call an operation rather than what it does. Together they are most of
  the repository's lines, so the map covers a small share of it; the models cover
  the state machines behind them.
- Everything in `PROJECT.json` with status `not_modelled`, with the reason there.

## 8. Plan

Done: the modules of section 2, the runs of section 3, the theorems of section 5.

Next: the buffers of schedules and changes of summer time in `ScheduleEngine`.
