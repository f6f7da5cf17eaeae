# Recolecta: a verification project in TLA+

Recolecta collects files from remote servers (FTP, FTPS, SFTP, SMB, WebDAV) into
local folders, once a day or on request, from a Windows tray application with a
local web panel. This directory holds TLA+ models of its core (`src/app`, Python),
the TLC runs that check them on small instances, and TLAPS proofs of the theorems
that hold for instances of any size.

`tlc -config X.cfg M` runs a model; `tlapm M.tla` checks the proofs of a module.
`PROJECT.json` lists the runs, the properties of each, the bug (a "mutant") that
each property catches, the source lines behind every definition, the hazards of
the code and the disagreements found between the code and its documents.

## 1. The system

| Component | State it keeps | Operations | Interacts with |
|---|---|---|---|
| Run coordinator, `orchestrator.py` | a lock of each connection, cancel events | `execute_connection`, `submit_connection`, `delete_connection`, `cancel`, `execute_all`, the run itself (`_execute_queued`) | everything below, by calls |
| Repositories, `db.py` | SQLite: `connections`, `runs`, `run_files`, `alerts_log`, reservations of destinations | one transaction for each method | coordinator, scheduler, panel, retention |
| Download engine, `downloader.py`, `integrity.py` | staging files, pool of workers | `download_files`, `_download_one`, `_attempt` | transports, throttle, file system |
| Courtesy throttle, `throttle.py` | semaphore, lock and last launch of each host, token buckets | `transfer_slot`, `consume` | all workers of all runs |
| Windows and scheduler, `scheduler.py`, `calculate_window`, `_classify_file` | jobs in memory, history of the runs | daily jobs, `run_catchup`, clock jump, `configure` | coordinator, run history |
| Destinations, `naming.py` | reserved paths | `resolve_conflict`, `reserve_destinations`, the preview (`dry_run`) | coordinator, file system |
| Progress registry, `progress.py` | active runs shown in the panel | start, update, finish, snapshot | coordinator, workers, panel |
| Alerts, `alerts.py` | `alerts_log` | evaluate a run, claim, send, finish | coordinator |
| Retention, `retention.py` | none of its own | `purge` of runs, logs, exports | database |
| Startup, `main.py`, `commands.py`, `single_instance.py` | a mutex of the machine | recovery, cleanup of staging, delegation of the command line | all |
| API and panel, `api/`, templates | none of its own | requests | coordinator, repositories |
| Transports | network sessions | list, stat, download, with a restart offset or not | engine |
| Validation, import, exports, error catalogue, secrets, settings, desktop platform | files and single rows | sequential | panel |

**What runs at once.** The jobs of APScheduler, the catch-up thread, API requests
and their background threads, the tray and the command line all call the
coordinator. Each run has a pool of download workers. Runs of different
connections go in parallel and meet in the throttle, in the database and in the
destination folders. The process can be closed or killed at any moment; the tray
starts it again.

**What is hard.** Exclusion with a lock in memory and a row in the database;
verdicts computed from counters while the rows are written by other
transactions; error handlers whose own steps may fail; a cancel event read at a
few places of a long procedure; resuming a partial file of a server that may have
replaced it; waits that can be interrupted; a history of windows from which the
next window is computed; decisions (candidates of a catch-up, identities already
downloaded) taken long before they are acted upon. The list with the line of each is
`hazards` in `PROJECT.json`.

**What makes each component correct.**

- *Coordinator*: one run at a time for a connection; a run that ended has no open
  file, its verdict agrees with its rows and is final; nothing keeps a connection
  busy for ever; no file is downloaded twice; only idle connections are deleted.
- *Engine*: a published file has the listed size and is not a mix of versions;
  downloads end; once the server is quiet the local file is the remote one, or one that
  full reconciliation does not tell apart from it.
- *Throttle*: at most the limit of attempts at once, spaced launches, no permit
  lost, everyone served, the cancelled leave.
- *Scheduling*: no file falls between two windows; no window is collected twice
  by the scheduler; a job collects its own day; what was missed is caught up.
- *Destinations*: a path belongs to one remote file for ever; the preview announces
  the statuses and counts that the run will give, decided from the same paths; what was planned is queued; no download destroys the
  file of another connection or remote.
- *Progress*: what is shown is being executed and its figures add up.
- *Alerts*: whatever a run deserves an alert for is tried on every channel, once.
- *Statuses*: what a run is shown as and what it is selected as are the same.
- *Command line*: an order is carried out once, by one process, and its exit code
  is true; a process that starts never closes a run of another that lives.

## 2. Modules

| Module | Models | Size of the instance checked |
|---|---|---|
| `RunLifecycle` (`MCRunLifecycle`) | coordinator and repositories, recovery, retention | 2 callers, 2 runs, 1 connection, 2 files (1 for liveness) |
| `RunLifecycleProofs` | theorems about it | any |
| `FileTransfer` (`MCFileTransfer`) | download engine, one path, its server | 4 versions of up to 3 blocks, 2 faults |
| `FileTransferProofs` | theorems about it | any |
| `Destinations` (`MCDestinations`) | local paths: reservation, preview, downloads into shared folders | 2 connections, 2 remotes whose names differ in case, 2 scopes |
| `DestinationsProofs` | theorems about it | any |
| `Application` (`MCApplication`) | resident, command line and the executions of both; uses `Progress` and `Alerts` | 2 connections, 2 threads, 2 runs, 3 files |
| `Progress`, `Alerts` | panel of live runs; alerts and derived results | as in `Application` |
| `ApplicationProofs`, `ApplicationOrdersProofs` | theorems about `Application` | any |
| `Throttle` (`MCThrottle`) | `transfer_slot`, managers, settings | 3 workers of 2 runs at one host |
| `ThrottleProofs` | theorems about it | any |
| `BandwidthMeter` | what a bandwidth limit promises (abstract) | |
| `TokenBucket` (`MCTokenBucket`) | `TokenBucket.consume`, `bandwidth_buckets`, `on_chunk` | 3 workers, 2 buckets, chunks of 1 and 4 |
| `TokenBucketProofs` | theorems about it, and that it implements the meter | any |
| `Scheduling` (`MCScheduling`) | windows, jobs, catch-up, history | 4 units to a day, 3 to 4 days |
| `SchedulingProofs` | theorems about it | any |

Each module looks at the system at the grain that its properties need. `RunLifecycle` has
every step of one execution and every way to interrupt it; `Application` keeps of an execution what
processes, panel and alerts see; `Destinations` keeps the discovery and the reservation, and takes from
`RunLifecycle` that a connection has one run at a time; `FileTransfer` is one download
of such a run; `Scheduling` is what decides that a run begins, and with which window.

### RunLifecycle

A *thread* is any caller of the coordinator; its program counter `pc` names the
place where it stands in `_reserve_connection`, `_execute_reserved_connection` and
`_execute_queued`. There is one action for each stretch of code between two
points where another thread or a crash may be noticed: each database transaction
is one action, and so is each change of the shared memory (`lock`, `event`,
`progress`). `conn`, `runStatus`, `fileStatus` are rows and survive `Crash`;
everything else does not. `Restart` is `recover_interrupted`. A transaction may
raise at any point of the guarded block (`Raise`), after which the handler's own steps
follow (`FailQueue`, `FailRun`, `Close`, `ReleaseLock`); with `AllowDbFailure` those
may raise as well.

Abstractions: a file is an identity, and its row has a status only; the listing is a
choice of batches; rows of the sample of decisions that nobody acts upon are left out;
the streak of the circuit breaker is a choice to stop after a recorded batch; which
pending rows are claimed first is a choice; retention may hit any run that has been
open for a while, not one just opened (it keeps at least a day); `FullScan` does not
change while the system runs.

### FileTransfer

The path of one file, followed by `stage` through `_download_one` and `_attempt`.
Content is a sequence of blocks, each named by the version of the file it was
read from, so that a splice is visible. The server replaces the file at any moment
and never reuses an identity; a listing may lack the size or a reliable time, which
decides whether a partial may be resumed. Transfers drop, end early or ignore the
offset; a crash loses buffered blocks or runs the cleanup of the staging folder.
`CleanStaging` removes old partials when the process starts; each removal may fail.
A run plans what `NeedsDownload` says. Under "skip" and "overwrite" it is a dated file whose identity has no successful
row. Full reconciliation ("replace") looks at the disk instead (`LocalPresent`): the size must agree if it is listed, the time within
`Tolerance` if it is listed (`LOCAL_MTIME_TOLERANCE_S`, two seconds), and a file of which nothing is listed is always taken. So a
replacement of the same size within two seconds is not fetched: the code does what `docs/SPEC.md:388-391` says. `Converges` says how far
that goes: the final path holds the whole of what the server has, or an older version that its listing does not tell apart from it
(`ToldApart`). The policy belongs to the connection; `EditConnection` changes it between runs.
Not modelled: the policy that stores each version under a new name, hashing,
the checks of disk space.

### Destinations

A remote is one entry of a server; a mapping scope (template, root and remote paths) gives it a
candidate name, and `Fold` says which names Windows cannot tell apart. A run follows `_execute_queued`:
`StartRun` takes the listing, `Discover` classifies a batch of it and reserves its paths in one transaction
(`reserve_destinations`), `Record` compares it with the folder and queues what is missing,
`Download` and `FinishRun` end the run. Publication and recording are one step
here; `FileTransfer` has both, and no property of `Destinations` tells them apart. A reservation is the path that the remote already owns, or the candidate,
or the candidate with a marker of the hash of the remote, longer and longer, or `path_invalid` when no marker
fits. `Preview` does the same with a copy of the table, as `dry_run` does, and counts its
items as `PreviewItems`; `PreviewIsKept` compares each preview, which carries no path, with the statuses and counts of the run that the
same listing would give. `LooksLike` says which version on the disk full reconciliation takes for which listed one (size, and time
within two seconds). Downloads then skip or overwrite what is in the folder that the connections share.

Abstractions: the name a template renders is data; entries of an SMB server that differ in case
only are one remote; a token such as `{run_id}` or `{yyyy}` is another candidate; the preview of a draft
that was not saved, and the limit of its sample, are left out; so are names made for each version of a
conflict. The reservations of a deleted connection go with it.

### Application, Progress and Alerts

The single-instance mutex, the resident (`off`, `opening`, `serving`, `exiting`), the command line
with its attempts, its timeout and its exit code, and *jobs*: threads of either process that execute the
connections of an order one after the other. `ResidentOpen` and `OpenCli` run the
recovery; `Exit` releases the mutex as `run_resident` does, while threads of the scheduler go
on; `CrashResident` and `CrashCli` take the threads, the panel and the mutex of a process. An execution begins
its row (`BeginRun`) and opens its entry of the panel (`OpenRun`), adds batches, claims rows (`ClaimBatch`) and shows them (`ShowBatch`), records and finishes,
or the circuit breaker or an error ends it. Between claim and panel the code estimates the space of the batch, which may fail:
an execution that stands there has claimed rows that the panel has not, and `PanelAddsUp` says so of that stage alone. Posting an order to the
resident is tried again after a refused connection only (`PostRefused`); any other timeout gives the order up (`Timeout`). Then the alerts
that its row deserves are claimed and sent one by one on each channel, some of which fail, and the next
connection of the order begins.

`Progress` is the registry: entry, totals, files in hand, `Snapshot`. `Alerts` has the causes,
the claim under the unique index and its result, and the derived result of a run in Python
(`ResultStatus`) against the filter of the list in SQL (`Selected`), over rows of this release and of older ones.

Abstractions: an execution is coarser than in `RunLifecycle`: nobody cancels it, its reservation and its first row are one
step, failures of the run log and windows already completed are left out, and so is the length
of the streak that opens the circuit. An order is never empty. A second resident would behave
as the command line does. The daemon threads of the catch-up and of `POST /run` end with the process: a crash
covers them. `EndListing` tells apart two values of what a listing found besides the queue: nothing and everything.
`Overlap` says whether the command line may start while a resident is exiting: it may, in the program, and the run
`application_exit` shows what follows; the other run and the proofs say what holds when it does not.

### Throttle

`_acquire_interruptibly` is a loop of `PollEvent` (look at the event) and an acquire with a
timeout (`AcquireTimesOut` or the acquire itself); between both the event may be
set. `AcquireHost` computes the wait for the spacing under the lock of the host,
`Launch` records the instant and frees the lock, `AcquireSlot` takes the permit.
`SaveSettings` replaces the manager of the coordinator; an engine keeps its own.
Time elapsed is kept up to the spacing, since the code only uses differences.

### TokenBucket and BandwidthMeter

`BandwidthMeter` states a limit without a bucket: `excess` is the most that any interval ending
now has passed beyond its rate, and it never exceeds the capacity, so every interval of
length d passes at most `Capacity + Rate * d`. In `TokenBucket` each chunk that a
transport delivers (`ReceiveChunk`) goes through the bucket of its connection, then the
global one. `Take` and `ComeBackLater` are the two branches under the lock of the bucket: both
refill it from the time since the last refill (`Level`), then take a part of at most
the capacity or compute a wait, rounded up to whole units. Between wait and retry others
may take the bytes; the event ends the wait. The refinement maps `excess` to what is missing
for a full bucket, as if it were refilled all the time. Not modelled: amounts that
are not whole (floating point), and other errors of the callback, which end the attempt.
What is limited is the pace of the callback: a chunk was read from
the network before it is metered.

### Scheduling

Time is discrete, `Day` units to a day. For each connection: the set `ok` of the windows that
succeeded (what `last_successful_end` and `has_successful_window` read), the run in
progress, the next daily time, and one file with the instant it appeared. A run takes its
window from `CalculateWindow`, is listed at some later instant (`Classify`) and ends
well or not. `FireJob` is the daily job anywhere within its jitter or later;
planners (the thread of the start and the job of the clock jump) read the history
in one step and execute their candidates one by one. A candidate whose connection is busy is refused
and dropped, as the code does (`scheduler.py`, `run_catchup`); only a later catch-up finds it again. Saving the settings within
the jitter of a job removes it and schedules the next day: the run of today waits for a catch-up too. Integers replace instants, so an overlap
of `Quiet + Jitter - 1` units is what `NothingLeftBehind` needs; the defaults (15 minutes, 2 minutes, no jitter) have it. Left out: daylight saving and changes of zone, glob and size
filters, purges of old runs. The planner reads the history of all connections in one step.
`JitterAssumption` says that twice the jitter is less than a day; the settings page does not enforce it.

## 3. Runs

| Run | Question | Answer |
|---|---|---|
| `coordinator_one_connection` | Exclusion, queue, verdict, deduplication, final history, workers under the lock, with failing handlers, purges and crashes | hold |
| `coordinator_liveness` | Runs end, cancel events are dropped, locks are freed (`RunsEnd`); nothing stays active without an owner; only idle connections are deleted | hold |
| `file_transfer` | Size, no splice, no unchecked publication after a stale resume; downloads end; the final path converges to the remote file | hold |
| `planning` | A preview is kept by the run, what was planned is queued, paths are stable, no file is lost to another remote or connection | hold |
| `application` | Recovery spares the living, orders are carried out once and answered truly, alerts go out, the panel adds up, results are honest | hold |
| `application_exit` | One process executes a connection (SPEC.md RF-4) although the command line starts while a resident exits | **violated** |
| `throttle` | Permits, spacing; service and cancellation | hold |
| `bandwidth` | Buckets implement the meter, waits are not longer than needed, every `consume` ends | hold |
| `scheduling_since_last` | No file left behind, in windows since the last success | hold |
| `scheduling_daily` | No automatic window twice; a job collects its day | hold |
| `scheduling_quiet` | A quiet file is taken next, in rolling windows (SPEC.md §2) | **violated** |
| `scheduling_full` | A catch-up finds what was missed (SPEC.md RF-4) | **violated** |

The violated ones are the `findings` of `PROJECT.json`, each with the line of the code and
the sentence it contradicts.

**Other disagreements between the documents and the code**, met while modelling and not turned into a run:
an attempt may begin after its run was cancelled, because the event is not read between the semaphore and the
launch (`throttle.py:196`; `DECISIONS.md:430`, `SPEC.md:442`); launches are spaced, openings of
connections are not (`throttle.py:123`; `DECISIONS.md:99`); saving the settings replaces the semaphore and
the buckets, so both limits add up until the runs in progress end (`routes.py:863`; `DECISIONS.md:99`);
`--run-now` exits with 0 although a run that it executed ended as failed (`OPERATIONS.md:15`), which is why
`OrderIsHonoured` speaks of a verdict and not of a success; the margin of disk space is asked before the first batch
and of each stream, not of the whole queue (`downloader.py:111`; `OPERATIONS.md:35`).

**Bounds.** Each bound is a CONSTANT: `MaxRuns`, `BatchLimit`, `MaxVersion`, `MaxFaults`, `Retries`,
`MaxManagers`, `MaxAttempts`, `MaxChunks`, `MaxDays`, `MaxTime`, `MaxOk`, `MaxListed`, `MaxEdits`, `Room`, `MaxTries`. Two runs of two files with
batches of one give a second claim, a run after a crash and a run that meets what
the first downloaded; two callers give every race for a lock that is not queued for.
The runs of the coordinator have one connection: lock and rows belong to a connection, and the theorems hold
for any number of them. The liveness run collects it in full-scan mode, which skips deduplication.
Four versions, two faults and one retry give a partial of an old version that is
found twice. The second has neither size nor time in its listing and is the longest; the others have one size, the third a
time two seconds after the first (what the tolerance just admits) and the fourth three seconds after the third (what it does not), so
full reconciliation meets a file that it tells apart from the disk and one that it does not; 2.0 million states. Three workers, two permits, two managers and an attempt of each give a wait at each of
the three places and an exchange of managers. Chunks of 4 in buckets of 2 and 3 are taken in parts, and three workers
take what others wait for. Three days give a missed day, a
late job and a catch-up between two successes.

`planning`: one connection overwrites and filters one remote, the other skips and scans everything; two remotes
whose names differ in case in one scope and are equal in the other, one marker (`Room` 1), batches and listings of two entries and one edit (of a
connection or of a file on the server) give each collision, its repetition in a later run, a name that no marker saves, and a
file listed twice; 879,807 states. `application`: one order of two connections, two threads, two runs and one row of an older
release, batches of one, three files of which one has a forbidden path, two channels of which one
always fails, two of the twenty attempts to reach the resident, one kind of error and one crash that leaves runs. Nothing begins when no row of `runs` is left
(`RowLeft`); 2,026,955 states.
Symmetry is used only in safety runs: over threads and files of the coordinator, over threads and
files that play the same part in the application. `CHECK_DEADLOCK FALSE` appears where the bound on
attempts, edits, chunks or faults lets the model come to rest.

**Fairness.** `RunLifecycle`: each thread and each download that has begun goes on, since
the operating system schedules them and transports bound their network waits; the tray restarts the
process. Nothing is assumed of users, of the purge or of crashes (the runs
are bounded, crashes are not). Liveness is checked without failures of the database inside the handlers,
which do break it. `FileTransfer`: workers go on and the scheduler plans again and again;
`Converges` is about a server, faults and edits that stop, ignores the windows, and supposes that from some
point on the policy is "overwrite" and the listing has size and time of the last version, or the policy is "replace" and the listing has the size. `Throttle`: waiting threads are scheduled and the
clock runs; that attempts end is not assumed but a hypothesis inside
`WaitersAreServed`, and the weak fairness of an acquire is enough because the
instance has a bounded number of attempts, after which a permit stays free. `TokenBucket`: a worker that consumes
is scheduled and the clock runs. `ConsumesEnd` rests on the bound on chunks too: buckets have no queue, so
with an endless supply of chunks the code promises to nobody in particular that its turn comes.
`Destinations` and `Application` state no fairness: all their properties are about safety.
The safety properties of a run with fairness do not depend on it.

## 4. Proofs

Assumptions are the `ConstantsAssumption` of each module, and those named below.

- `RunLifecycleProofs`: `TypeCorrect`, `OneRunPerConnection` (`OneActiveRun`),
  `WorkersUnderLock` (`EnginesUnderLock`), `OnlyIdleDeleted` (`DeletedIsQuiet`) and `OwnersHoldMarks` (`NothingLeaks`). *Argument*: `Typed` adds to the types that an
  owning thread has a run and a connection. `Exclusion` says that a thread past its
  reservation holds the lock of its connection, that a running row belongs to the owner
  (or was orphaned by a failed handler, which the check `has_active_run` then sees) and that
  a thread past the check found nothing active. `OneActiveRun` is not inductive without it: the insertion of a row is safe only
  because of what was checked earlier and of a lock that nobody else can take.
  `NothingLeaks` assumes `~AllowDbFailure` and adds `Handed`: what a stage knows of its row, event and entry, so that
  when the owner gives up its run nothing marks it as active; an opening cannot meet a purged row, because
  retention keeps a day at least.
  `NothingLeftOpen` (`QueueClosed`): `StageFacts` says for each stage what the
  thread knows of its rows, e.g. that when the queue is drained the event is set or no
  row is open; the event cannot be cleared, so the second reading sees it.
  `VerdictIsTrue` (`VerdictMatchesRows`), `NothingTwice` (`DownloadedOnce`) and `AuditIsFinal` (`HistoryIsFinal`): `Ledger` says what the counters in the memory of a thread tell of the rows of its run, so a verdict taken from
  the counters is true of the rows. `NewToHistory` says that what the run may still download was never downloaded before; it holds when a batch is
  planned and no step of another thread can break it, since only a run of the same connection adds to what is known and the lock keeps those
  away. `WorksOnClaimed` says that outcomes are only of claimed files, so what is recorded never replaces an outcome.
  `HistoryIsFinal` is about rows and verdicts that others might rewrite; the second verdict that the handler of a run may write over its own is
  admitted (hazard of `orchestrator.py:1385`, which no property covers).
- `ThrottleProofs`: `TypeCorrect`, `NoPermitLost`, `HostLockFreed`, `SpacingRespected`. The spacing
  rests on the invariant that the time elapsed plus what is left of the wait reaches the
  spacing while the worker holds the lock of the host.
- `TokenBucketProofs`: `TypeCorrect`, `WaitsNotLonger` (`WaitsAreShort`) and `BucketsMeter` (`Metered`), the refinement of `BandwidthMeter`.
  *Argument*: `LevelWhenSet` and `LevelWhenTimePasses` say what a step does to the level of a refilled
  bucket, whatever its stored tokens: a part taken is a `Pass` of the meter, a tick is its `Elapse`, and a refill changes
  nothing. `WaitsFit` adds that the level and the time left of a wait stay within one unit of the request, since others only lower the level.
- `SchedulingProofs`: `TypeCorrect`, `WindowsNotRepeated` (`NoWindowRepeated`), `NothingMissed` (`NothingLeftBehind`) and
  `JobsOnTheirDay` (`JobsCollectTheirDay`). *Argument*: every non-empty history has a first start and a last end, so the `CHOOSE`
  in `LastEnd` and `FirstStart` is meaningful (`Typed`). `WindowsNotRepeated` follows from the check of the history when a run begins and
  from one run at a time. `NothingMissed` assumes that no run is asked for an arbitrary date (`~AllowDates`) and `OverlapCovers`: the overlap covers
  the jitter, and with one unit more the quiet period plus the jitter (integers replace instants).
  `ChainInv` says that a window begins no later than the last end minus the overlap, that it ends at most the jitter after its start, and what a file was,
  taken, too young or not yet there, when a run listed it; so what an ended run left is still inside the next window.
  With `AllowDates` a manual run of a later date moves the last end past uncollected files and the property fails.
- `FileTransferProofs`: `TypeCorrect`, `WholeFiles` (`SizeMatchesListing`), `OneVersion` (`NoSplice`) and `StaleIsChecked`
  (`StaleNotPublishedUnchecked`). *Argument*: `Recent` says that a staged block is of the version that names its file or of a later one,
  never later than the server's. When the check after a resumed transfer finds the listed version on the server, no later version exists, so every
  block is of that version (`Vouched`); a transfer that nothing vouches for began from zero. `Distrusted` says that after a failed check the
  listed version is gone for good and the partial is still worth the same check, so the download never reaches an unchecked transfer.
  It rests on servers that never reuse an identity, which is how the model (and the code) takes them.
- `ApplicationProofs`: `RecoveryIsSafe` (`RecoverySparesTheLiving`), `NeverTwice` (`NeverExecutedTwice`), `PanelIsRight`
  (`PanelAddsUp`) and `ResultsAgree` (`ResultsAreHonest`), for `~Overlap`.
  *Argument*: `Owner` ties the mutex to the states of both processes, `Hands` says which process may have threads, `OneThreadOfCli` that the
  command line has one. So a process that runs the recovery finds no thread alive. `BeginsAlone` is the check under the lock: no row of the connection is running, so
  those who execute others have other rows. `NeverExecutedTwice` is needed in turn, since the run that ends must not be one that another thread goes on with.
  `PanelInv` gives each execution a row and an entry of its own and says of every stage what the entry counts: what is shown, an outcome and a recording move
  files between queue, hands and done, and the sum stays (cardinalities of finite sets). From a claim until it is shown the entry has nothing
  in hand; opening the entry and showing a batch change the stage of one thread and nothing of the others (`PcMoves`). It needs that a recovery finds no thread, hence the mutex.
  `ResultInv` says that what is downloaded was found, that a run in execution has downloaded nothing yet as far as its row says,
  and that a stored success has no row that failed; `EndedHonest` shows it of every way in which a run ends.
- `ApplicationOrdersProofs`: `AlertsGoOut` (`AlertsAreOut`), `OrdersAreHonoured` (`OrderIsHonoured`) and `TypesHold` (`TypeOK`), for `~Overlap`.
  *Argument*: `AlertsInv` says that the latest run of a connection is the one in execution, so what earlier runs deserve no longer changes,
  and that what a thread has still to send, is sending and has settled is all that its run deserves. `OrderInv` says of an order which of
  its connections have a run, which is in execution and which wait, so that an exit code is given when every one has its verdict. The types need the counts
  of the panel (`CountsInv`).
- `DestinationsProofs`: `TypesHold` (`TypeOK`), `PathsStay` (`PathsAreStable`), `FilesSurvive` (`NoFileLost`), `QueueAsAnnounced` (`PlannedAreQueued`)
  and `PreviewHolds` (`PreviewIsKept`). *Argument*: what goes through a batch is a recursive function over `0..n`. `LeastNumber` (from the
  well-foundedness of the finite subsets of a set) gives `UpToInduction`, induction stated with a set instead of an operator parameter, and
  `Recursion`, the existence of the function; each recursive operator of the module then has a lemma that unfolds it (`TablesAre`, `MemoriesAre`,
  `KeptAre`, `QueuesAre`). `ReserveIs` says that one candidate keeps the table `Keyed` (one row for a key, one for a remote and candidate), only adds to it, and that the answer
  is reserved for who asked; `PlanIs` says the same of a batch. The inductive invariant `IInv` adds `RunFits`, that a path in the batch or in the queue of a run
  is reserved for its remote, and `DiskBacked`, that a file on the disk has the row of its key. A download and the file that it replaces then
  have one row, hence one connection and remote. `QueueGrows` counts the rows of a batch whose remotes the run had not met (`UniqueIs`), as many
  pending ones as were announced. For the preview, `Mirrors` relates its memory, after any number of candidates, to the table that a run would
  have written by then: the rows the run would have added are those in the memory. A listing names each remote once, so whoever asks next is new to both,
  sees the same free paths (`SameSearch`) and gets the same answer (`SameAnswer`).

`OneRunEach`, an assumption of `Application`, says that an order names a connection once, as `execute_all` goes through its list.

The SMT encoding of tlapm 1.4.5 states that a function has the domain `1..N` exactly when its `Len` is N, also of functions that are
no sequences. All proofs were checked a second time with that axiom reduced to what holds (a function over `1..N` has length N), so that none rests on it.

**Only model-checked**: liveness, which is out of reach of the provers as ENABLED is: `RunsEnd`, `DownloadsEnd`, `Converges`, `CancelledWaitersLeave`, `WaitersAreServed`
and `ConsumesEnd`. Every safety property of a passing run is a theorem. What a recursive definition computes can be proved where it is a function
over numbers, as above; the induction theorems of the library, which take an operator as parameter, are of no use to these provers.

## 5. Not modelled

- Parsing and validation of connections and of import files, pages, exports, logging, the error catalogue, encryption of secrets, key-value
  settings, the desktop shell: sequential or input and output; they state no property that several steps could break.
- The protocols of the transports, beyond what `stat` and `download_to` promise the engine.
- Bytes, speeds and the listed place of the panel; warnings and samples of outcomes of a run; pagination and summaries of the history; migrations.
- Hashing, disk space, versions of a conflict under new names.
- Daylight saving, changes of zone, glob and size filters.

`components` in `PROJECT.json` gives the reason for each; hazards without a property carry theirs.

## 6. Plan

Done, in order of importance:

- A `RunLifecycle`; B `FileTransfer`; C `Throttle` and `TokenBucket`, with its abstract `BandwidthMeter`; D `Scheduling`;
- E `Destinations`; F `Application` with `Progress` and `Alerts`; proofs of all of them.

Left:

- `RunQueue`: the counters of a run and the streak of the circuit breaker in detail, refining the choice in `RunLifecycle`.
- The versions of a conflict under new names, composed with `Destinations`.
- An abstract specification of a run as its audit trail shows it (started, ended once), implemented by `RunLifecycle`.
