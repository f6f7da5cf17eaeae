---------------------------- MODULE RunLifecycle ----------------------------
(***************************************************************************)
(* The life of a collection run: RunCoordinator (app/orchestrator.py) over *)
(* RunRepository and ConnectionRepository (app/db.py).                     *)
(*                                                                         *)
(* A thread is whatever calls execute_connection or submit_connection: the *)
(* scheduler, the catch-up thread, an API request, the tray or the CLI.    *)
(* Each holds the in-process lock of one connection while it plans a run,  *)
(* fills the queue of run_files rows, lets download workers drain it and   *)
(* closes the run.  Rows survive a crash of the process; locks, threads,   *)
(* cancel events and progress entries do not.  One process at a time: the  *)
(* CLI delegates to the resident process unless it gets its mutex.         *)
(*                                                                         *)
(* A file is a remote identity (path, mtime, size) of a connection.  Rows  *)
(* of the sample of non-actionable decisions are left out: nothing reads   *)
(* their status.                                                           *)
(***************************************************************************)
EXTENDS Naturals, FiniteSets

CONSTANTS
    Conns,          \* saved connections
    Threads,        \* callers of the coordinator
    Files,          \* remote identities
    FullScan,       \* connections with full_local_reconciliation
    MaxRuns,        \* bound: rows ever inserted in runs
    BatchLimit,     \* queue_limit of a claim
    AllowDbFailure, \* may a database call of an error handler fail too?
    NoThread, NoConn

ASSUME ConstantsAssumption ==
    /\ MaxRuns \in Nat
    /\ BatchLimit \in Nat \ {0}
    /\ FullScan \subseteq Conns
    /\ AllowDbFailure \in BOOLEAN
    /\ NoThread \notin Threads
    /\ NoConn \notin Conns
    /\ IsFiniteSet(Files)

VARIABLES
    (* SQLite: survives a crash *)
    conn,       \* the connection rows
    lastRun,    \* AUTOINCREMENT of runs.id
    runConn,    \* runs.connection_id
    runStatus,  \* runs.status
    fileStatus, \* run_files.status of each file of each run
    (* memory of the process *)
    up,         \* is the process alive?
    lock,       \* _connection_locks: who holds each
    event,      \* _cancel_events
    progress,   \* runs the ProgressRegistry shows
    (* one record of each thread's locals *)
    pc,         \* where it stands
    target,     \* its connection
    run,        \* its run_id, 0 before start_run
    tally,      \* outcome_counts: the results counted at least once
    working,    \* files whose download future has not completed
    outcome     \* outcomes of the completed futures of this batch

rowVars    == <<conn, lastRun, runConn, runStatus, fileStatus>>
sharedVars == <<up, lock, event, progress>>
localVars  == <<target, run, tally, working, outcome>>
vars       == <<rowVars, sharedVars, pc, localVars>>

RunIds     == 1..MaxRuns
Terminal   == {"ok", "partial", "failed", "cancelled"}
Unfinished == {"pending", "downloading"}
Outcomes   == {"ok", "skipped", "failed", "cancelled"}

\* Stages of a thread, in the order of the code.
Reserving == {"locked"}
Reserved  == {"reserved", "dryrun"}
Owning    == {"preflight", "opening", "opened", "discovering", "listed",
              "queue", "claim", "claimed", "batch", "recorded", "drained",
              "verdict", "finished", "failing", "failing2", "closing",
              "release"}
Stages    == {"idle"} \cup Reserving \cup Reserved \cup Owning

NoOutcome == [f \in Files |-> "none"]

TypeOK ==
    /\ conn \in [Conns -> {"enabled", "paused", "deleted"}]
    /\ lastRun \in 0..MaxRuns
    /\ runConn \in [RunIds -> Conns \cup {NoConn}]
    /\ runStatus \in [RunIds -> {"absent", "running"} \cup Terminal]
    /\ fileStatus \in [RunIds -> [Files -> {"none"} \cup Unfinished \cup Outcomes]]
    /\ up \in BOOLEAN
    /\ lock \in [Conns -> Threads \cup {NoThread}]
    /\ event \in [RunIds -> {"absent", "clear", "set"}]
    /\ progress \in SUBSET RunIds
    /\ pc \in [Threads -> Stages]
    /\ target \in [Threads -> Conns \cup {NoConn}]
    /\ run \in [Threads -> 0..MaxRuns]
    /\ tally \in [Threads -> SUBSET Outcomes]
    /\ working \in [Threads -> SUBSET Files]
    /\ outcome \in [Threads -> [Files -> {"none"} \cup Outcomes]]

Init ==
    /\ conn = [c \in Conns |-> "enabled"]
    /\ lastRun = 0
    /\ runConn = [r \in RunIds |-> NoConn]
    /\ runStatus = [r \in RunIds |-> "absent"]
    /\ fileStatus = [r \in RunIds |-> NoOutcome]
    /\ up = TRUE
    /\ lock = [c \in Conns |-> NoThread]
    /\ event = [r \in RunIds |-> "absent"]
    /\ progress = {}
    /\ pc = [t \in Threads |-> "idle"]
    /\ target = [t \in Threads |-> NoConn]
    /\ run = [t \in Threads |-> 0]
    /\ tally = [t \in Threads |-> {}]
    /\ working = [t \in Threads |-> {}]
    /\ outcome = [t \in Threads |-> NoOutcome]

-----------------------------------------------------------------------------
(* State functions the handlers are built from. *)

Goto(t, stage) == pc' = [pc EXCEPT ![t] = stage]

\* The thread's own handle on the event: clear until the user sets it.
CancelRequested(t) == event[run[t]] = "set"

RunsOf(c) == {r \in RunIds : runConn[r] = c /\ runStatus[r] # "absent"}

HasActiveRun(c) == \E r \in RunsOf(c) : runStatus[r] = "running"

\* Bug: only runs that ended without failures are looked at.
BugKnownOkOfGoodRuns(c, f) ==
    \E r \in RunsOf(c) : runStatus[r] = "ok" /\ fileStatus[r][f] = "ok"

\* successful_identities_for: what the surviving history knows as downloaded.
KnownOk(c, f) == \E r \in RunsOf(c) : fileStatus[r][f] = "ok"

PendingFiles(r) == {f \in Files : fileStatus[r][f] = "pending"}

\* Bug: the error type is written where the status goes.
BugCloseAsInterrupted(rows, status) ==
    [f \in Files |-> IF rows[f] \in Unfinished THEN "interrupted" ELSE rows[f]]

\* Bug: the statement has lost its condition on the status of the file.
BugCloseEveryRow(rows, status) ==
    [f \in Files |-> IF rows[f] # "none" THEN status ELSE rows[f]]

\* cancel_unfinished and fail_unfinished: one statement over the whole queue.
CloseUnfinished(rows, status) ==
    [f \in Files |-> IF rows[f] \in Unfinished THEN status ELSE rows[f]]

\* _run_status_from_counts; a planning failure is counted as a failure and is
\* the only source of warnings.
RunStatusFromCounts(counts, cancelled) ==
    IF cancelled THEN "cancelled"
    ELSE IF "failed" \in counts
         THEN IF "ok" \in counts THEN "partial" ELSE "failed"
    ELSE "ok"

\* ON DELETE CASCADE from runs to run_files.
DeleteRuns(gone) ==
    /\ runStatus' = [r \in RunIds |-> IF r \in gone THEN "absent" ELSE runStatus[r]]
    /\ fileStatus' = [r \in RunIds |-> IF r \in gone THEN NoOutcome ELSE fileStatus[r]]

-----------------------------------------------------------------------------
(* Reservation. *)

\* The non-blocking acquire of _reserve_connection; a busy lock is an error
\* to the caller and changes nothing.
AcquireLock(t, c) ==
    /\ up
    /\ pc[t] = "idle"
    /\ lock[c] = NoThread
    /\ lock' = [lock EXCEPT ![c] = t]
    /\ target' = [target EXCEPT ![t] = c]
    /\ Goto(t, "locked")
    /\ UNCHANGED <<rowVars, up, event, progress, run, tally, working, outcome>>

\* Bug: the lock is thought to be enough, so the table is not consulted.
BugTrustTheLock(t) ==
    /\ pc[t] = "locked"
    /\ conn[target[t]] = "enabled"
    /\ Goto(t, "reserved")
    /\ UNCHANGED <<rowVars, sharedVars, localVars>>

\* The checks of _reserve_connection under the lock.
PassChecks(t) ==
    /\ pc[t] = "locked"
    /\ conn[target[t]] = "enabled"
    /\ ~HasActiveRun(target[t])
    /\ Goto(t, "reserved")
    /\ UNCHANGED <<rowVars, sharedVars, localVars>>

\* A dry run may look at a paused connection.
PassDryRunChecks(t) ==
    /\ pc[t] = "locked"
    /\ conn[target[t]] # "deleted"
    /\ ~HasActiveRun(target[t])
    /\ Goto(t, "dryrun")
    /\ UNCHANGED <<rowVars, sharedVars, localVars>>

FreeLock(t) ==
    /\ lock' = [lock EXCEPT ![target[t]] = NoThread]
    /\ target' = [target EXCEPT ![t] = NoConn]
    /\ run' = [run EXCEPT ![t] = 0]
    /\ tally' = [tally EXCEPT ![t] = {}]
    /\ outcome' = [outcome EXCEPT ![t] = NoOutcome]
    /\ Goto(t, "idle")
    /\ UNCHANGED <<rowVars, up, event, progress, working>>

\* A missing or paused connection or an active run: release and raise.
RefuseReservation(t) ==
    /\ pc[t] = "locked"
    /\ conn[target[t]] # "enabled" \/ HasActiveRun(target[t])
    /\ FreeLock(t)

\* The returns that leave no row: a dry run, a window already completed, an
\* invalid window, a worker thread that does not start, start_run failing.
ReturnWithoutRun(t) ==
    /\ pc[t] \in Reserved
    /\ FreeLock(t)

-----------------------------------------------------------------------------
(* Opening a run. *)

\* start_run inserts the row as 'running'.
InsertRun(t, stage) ==
    /\ pc[t] = "reserved"
    /\ lastRun < MaxRuns
    /\ lastRun' = lastRun + 1
    /\ runConn' = [runConn EXCEPT ![lastRun + 1] = target[t]]
    /\ runStatus' = [runStatus EXCEPT ![lastRun + 1] = "running"]
    /\ run' = [run EXCEPT ![t] = lastRun + 1]
    /\ Goto(t, stage)
    /\ UNCHANGED <<conn, fileStatus, sharedVars, target, tally, working, outcome>>

StartRun(t) == InsertRun(t, "opening")

\* _record_preflight_failure: the secret or the transport was refused.
StartPreflightFailure(t) == InsertRun(t, "preflight")

\* finish_run, for a row that still exists.
FinishRow(t, status) ==
    /\ runStatus[run[t]] # "absent"
    /\ runStatus' = [runStatus EXCEPT ![run[t]] = status]
    /\ UNCHANGED <<conn, lastRun, runConn, fileStatus>>

\* finish_run raises KeyError when the row was purged; any call may also fail
\* because the database does.
FinishRaises(t) == AllowDbFailure \/ runStatus[run[t]] = "absent"

FinishPreflightFailure(t) ==
    /\ pc[t] = "preflight"
    /\ \/ FinishRow(t, "failed")
       \/ FinishRaises(t) /\ UNCHANGED rowVars
    /\ Goto(t, "release")
    /\ UNCHANGED <<sharedVars, localVars>>

\* The run log, the progress entry and the cancel event exist.
OpenRun(t) ==
    /\ pc[t] = "opening"
    /\ progress' = progress \cup {run[t]}
    /\ event' = [event EXCEPT ![run[t]] = "clear"]
    /\ Goto(t, "opened")
    /\ UNCHANGED <<rowVars, up, lock, localVars>>

\* Bug: the handler of the opening forgets the cancel event.
BugOpeningKeepsEvent(t) ==
    /\ pc[t] \in {"opening", "opened"}
    /\ FinishRow(t, "failed")
    /\ progress' = progress \ {run[t]}
    /\ Goto(t, "release")
    /\ UNCHANGED <<up, lock, event, localVars>>

\* The first handler: close the row, then drop the entries.  When finish_run
\* raises the entries stay, since nothing protects the lines after it.
FailOpening(t) ==
    /\ pc[t] \in {"opening", "opened"}
    /\ \/ /\ FinishRow(t, "failed")
          /\ progress' = progress \ {run[t]}
          /\ event' = [event EXCEPT ![run[t]] = "absent"]
       \/ /\ FinishRaises(t)
          /\ UNCHANGED <<rowVars, progress, event>>
    /\ Goto(t, "release")
    /\ UNCHANGED <<up, lock, localVars>>

BeginDiscovery(t) ==
    /\ pc[t] = "opened"
    /\ Goto(t, "discovering")
    /\ UNCHANGED <<rowVars, sharedVars, localVars>>

-----------------------------------------------------------------------------
(* Discovery: each batch of the listing is classified and queued. *)

RowIsRunning(t) == runStatus[run[t]] = "running"

\* known and seen_paths: what may still be queued by this run.
Plannable(t) ==
    {f \in Files : /\ fileStatus[run[t]][f] = "none"
                   /\ target[t] \in FullScan \/ ~KnownOk(target[t], f)}

\* Bug: files isolated while planning are not counted as failures.
BugForgetInvalidPaths(t) ==
    /\ pc[t] = "discovering"
    /\ RowIsRunning(t)
    /\ \E planned, invalid \in SUBSET Plannable(t) :
         /\ planned \cap invalid = {}
         /\ fileStatus' = [fileStatus EXCEPT ![run[t]] = [f \in Files |->
                IF f \in planned THEN "pending"
                ELSE IF f \in invalid THEN "failed"
                ELSE fileStatus[run[t]][f]]]
    /\ UNCHANGED <<conn, lastRun, runConn, runStatus, sharedVars, pc, localVars>>

\* add_file_batch and update_discovery.  A path without a legal local name is
\* stored as failed and isolated; a purged row makes both calls raise.
DiscoverBatch(t) ==
    /\ pc[t] = "discovering"
    /\ RowIsRunning(t)
    /\ \E planned, invalid \in SUBSET Plannable(t) :
         /\ planned \cap invalid = {}
         /\ planned \cup invalid # {}
         /\ fileStatus' = [fileStatus EXCEPT ![run[t]] = [f \in Files |->
                IF f \in planned THEN "pending"
                ELSE IF f \in invalid THEN "failed"
                ELSE fileStatus[run[t]][f]]]
         /\ tally' = [tally EXCEPT
                ![t] = @ \cup (IF invalid # {} THEN {"failed"} ELSE {})]
    /\ UNCHANGED <<conn, lastRun, runConn, runStatus, sharedVars, pc, target,
                   run, working, outcome>>

\* The listing ended, or stopped because of the cancel event.
FinishDiscovery(t) ==
    /\ pc[t] = "discovering"
    /\ RowIsRunning(t)
    /\ Goto(t, "listed")
    /\ UNCHANGED <<rowVars, sharedVars, localVars>>

-----------------------------------------------------------------------------
(* Draining the queue. *)

CloseQueue(t, status) ==
    /\ fileStatus' = [fileStatus EXCEPT
                        ![run[t]] = CloseUnfinished(@, status)]
    /\ UNCHANGED <<conn, lastRun, runConn, runStatus>>

\* Cancelled while listing: the queue never starts.
CancelBeforeQueue(t) ==
    /\ pc[t] = "listed"
    /\ CancelRequested(t)
    /\ CloseQueue(t, "cancelled")
    /\ Goto(t, "verdict")
    /\ UNCHANGED <<sharedVars, localVars>>

StartQueue(t) ==
    /\ pc[t] = "listed"
    /\ ~CancelRequested(t)
    /\ Goto(t, "queue")
    /\ UNCHANGED <<rowVars, sharedVars, localVars>>

\* The loop condition is read before the claim, not with it.
CheckCancel(t) ==
    /\ pc[t] = "queue"
    /\ Goto(t, IF CancelRequested(t) THEN "drained" ELSE "claim")
    /\ UNCHANGED <<rowVars, sharedVars, localVars>>

\* claim_pending_batch, ordered by row id: the model lets any be first.
ClaimBatch(t) ==
    /\ pc[t] = "claim"
    /\ \E batch \in SUBSET PendingFiles(run[t]) :
         /\ Cardinality(batch) <= BatchLimit
         /\ \/ Cardinality(batch) = BatchLimit
            \/ batch = PendingFiles(run[t])
         /\ fileStatus' = [fileStatus EXCEPT ![run[t]] = [f \in Files |->
                IF f \in batch THEN "downloading" ELSE fileStatus[run[t]][f]]]
         /\ working' = [working EXCEPT ![t] = batch]
         /\ Goto(t, IF batch = {} THEN "drained" ELSE "claimed")
    /\ UNCHANGED <<conn, lastRun, runConn, runStatus, sharedVars, target, run,
                   tally, outcome>>

\* Disk space was checked; the batch goes to the pool of the engine.
SubmitBatch(t) ==
    /\ pc[t] = "claimed"
    /\ Goto(t, "batch")
    /\ UNCHANGED <<rowVars, sharedVars, localVars>>

\* A download future completes, whatever the coordinator is doing by then.
WorkerDone(t, f) ==
    /\ f \in working[t]
    /\ pc[t] \notin {"claimed"}
    /\ \E result \in Outcomes :
         /\ result = "cancelled" => CancelRequested(t)
         /\ result = "skipped" => target[t] \notin FullScan
         /\ outcome' = [outcome EXCEPT ![t][f] = result]
    /\ working' = [working EXCEPT ![t] = @ \ {f}]
    /\ UNCHANGED <<rowVars, sharedVars, pc, target, run, tally>>

\* record_download_outcomes_batch raises when the rows were purged.
RecordBatch(t) ==
    /\ pc[t] = "batch"
    /\ working[t] = {}
    /\ runStatus[run[t]] # "absent"
    /\ fileStatus' = [fileStatus EXCEPT ![run[t]] = [f \in Files |->
            IF outcome[t][f] = "none" THEN fileStatus[run[t]][f]
            ELSE outcome[t][f]]]
    /\ tally' = [tally EXCEPT
            ![t] = @ \cup ({outcome[t][f] : f \in Files} \ {"none"})]
    /\ outcome' = [outcome EXCEPT ![t] = NoOutcome]
    /\ Goto(t, "recorded")
    /\ UNCHANGED <<conn, lastRun, runConn, runStatus, sharedVars, target, run,
                   working>>

NextBatch(t) ==
    /\ pc[t] = "recorded"
    /\ Goto(t, "queue")
    /\ UNCHANGED <<rowVars, sharedVars, localVars>>

\* The circuit breaker: enough equal failures in a row.  The length of the
\* streak is abstracted: a failure was counted and the user did not cancel.
TripCircuit(t) ==
    /\ pc[t] = "recorded"
    /\ "failed" \in tally[t]
    /\ ~CancelRequested(t)
    /\ CloseQueue(t, "failed")
    /\ Goto(t, "drained")
    /\ UNCHANGED <<sharedVars, localVars>>

-----------------------------------------------------------------------------
(* Closing the run. *)

\* Bug: the verdict of a cancelled run leaves its queue as it is.
BugKeepQueueOnCancel(t) ==
    /\ pc[t] = "drained"
    /\ Goto(t, "verdict")
    /\ UNCHANGED <<rowVars, sharedVars, localVars>>

CancelRest(t) ==
    /\ pc[t] = "drained"
    /\ IF CancelRequested(t)
       THEN CloseQueue(t, "cancelled")
       ELSE UNCHANGED rowVars
    /\ Goto(t, "verdict")
    /\ UNCHANGED <<sharedVars, localVars>>

\* The event is read again for the verdict.
FinishRun(t) ==
    /\ pc[t] = "verdict"
    /\ FinishRow(t, RunStatusFromCounts(tally[t], CancelRequested(t)))
    /\ Goto(t, "finished")
    /\ UNCHANGED <<sharedVars, localVars>>

\* run_log.write and the alerts went well.
ReturnExecution(t) ==
    /\ pc[t] = "finished"
    /\ Goto(t, "closing")
    /\ UNCHANGED <<rowVars, sharedVars, localVars>>

MayRaise == {"discovering", "listed", "claim", "claimed", "batch", "recorded",
             "drained", "verdict", "finished"}

\* Listing, disk space, database, run log and callbacks all raise into the
\* same handler; a claimed batch that was not submitted has no workers.
Raise(t) ==
    /\ pc[t] \in MayRaise
    /\ working' = IF pc[t] = "claimed" THEN [working EXCEPT ![t] = {}]
                  ELSE working
    /\ Goto(t, "failing")
    /\ UNCHANGED <<rowVars, sharedVars, target, run, tally, outcome>>

\* fail_unfinished of the handler.
FailQueue(t) ==
    /\ pc[t] = "failing"
    /\ \/ CloseQueue(t, "failed") /\ Goto(t, "failing2")
       \/ AllowDbFailure /\ Goto(t, "closing") /\ UNCHANGED rowVars
    /\ UNCHANGED <<sharedVars, localVars>>

\* finish_run of the handler; the exception that it raises skips nothing but
\* the run log, since the finally clause follows.
FailRun(t) ==
    /\ pc[t] = "failing2"
    /\ \/ FinishRow(t, "failed")
       \/ FinishRaises(t) /\ UNCHANGED rowVars
    /\ Goto(t, "closing")
    /\ UNCHANGED <<sharedVars, localVars>>

\* Bug: the pool is shut down without waiting for its workers.
BugCloseWithoutWaiting(t) ==
    /\ pc[t] = "closing"
    /\ progress' = progress \ {run[t]}
    /\ event' = [event EXCEPT ![run[t]] = "absent"]
    /\ Goto(t, "release")
    /\ UNCHANGED <<rowVars, up, lock, localVars>>

\* The finally clause: wait for the workers, drop the entries.
Close(t) ==
    /\ pc[t] = "closing"
    /\ working[t] = {}
    /\ progress' = progress \ {run[t]}
    /\ event' = [event EXCEPT ![run[t]] = "absent"]
    /\ Goto(t, "release")
    /\ UNCHANGED <<rowVars, up, lock, localVars>>

ReleaseLock(t) ==
    /\ pc[t] = "release"
    /\ FreeLock(t)

-----------------------------------------------------------------------------
(* The user, the retention job and the machine. *)

\* cancel: only a registered event can be set.
Cancel(r) ==
    /\ event[r] = "clear"
    /\ event' = [event EXCEPT ![r] = "set"]
    /\ UNCHANGED <<rowVars, up, lock, progress, pc, localVars>>

SetEnabled(c) ==
    /\ up
    /\ conn[c] # "deleted"
    /\ conn' = [conn EXCEPT ![c] = IF @ = "paused" THEN "enabled" ELSE "paused"]
    /\ UNCHANGED <<lastRun, runConn, runStatus, fileStatus, sharedVars, pc,
                   localVars>>

\* Bug: ConnectionRepository.delete_if_idle is called without the lock.
BugDeleteWithoutLock(c) ==
    /\ up
    /\ conn[c] # "deleted"
    /\ ~HasActiveRun(c)
    /\ conn' = [conn EXCEPT ![c] = "deleted"]
    /\ DeleteRuns(RunsOf(c))
    /\ UNCHANGED <<lastRun, runConn, sharedVars, pc, localVars>>

\* delete_connection takes the lock, deletes if idle and releases: one step,
\* since the lock is free before and after and the DELETE is one statement.
DeleteConnection(c) ==
    /\ up
    /\ lock[c] = NoThread
    /\ conn[c] # "deleted"
    /\ ~HasActiveRun(c)
    /\ conn' = [conn EXCEPT ![c] = "deleted"]
    /\ DeleteRuns(RunsOf(c))
    /\ UNCHANGED <<lastRun, runConn, sharedVars, pc, localVars>>

\* purge deletes by age whatever the status is.  Retention is a day at least,
\* so a run that has not begun its listing is never old enough.
Purge(k) ==
    /\ up
    /\ \A t \in Threads : pc[t] \in {"preflight", "opening", "opened"} => run[t] > k
    /\ DeleteRuns(1..k)
    /\ UNCHANGED <<conn, lastRun, runConn, sharedVars, pc, localVars>>

\* Kill, power loss, exit with daemon threads running.
Crash ==
    /\ up
    /\ up' = FALSE
    /\ lock' = [c \in Conns |-> NoThread]
    /\ event' = [r \in RunIds |-> "absent"]
    /\ progress' = {}
    /\ pc' = [t \in Threads |-> "idle"]
    /\ target' = [t \in Threads |-> NoConn]
    /\ run' = [t \in Threads |-> 0]
    /\ tally' = [t \in Threads |-> {}]
    /\ working' = [t \in Threads |-> {}]
    /\ outcome' = [t \in Threads |-> NoOutcome]
    /\ UNCHANGED rowVars

\* Bug: the service starts without recovering the interrupted runs.
BugRestartWithoutRecovery ==
    /\ ~up
    /\ up' = TRUE
    /\ UNCHANGED <<rowVars, lock, event, progress, pc, localVars>>

\* build_runtime: recover_interrupted runs before anything can start a run.
Restart ==
    /\ ~up
    /\ up' = TRUE
    /\ fileStatus' = [r \in RunIds |->
            IF runStatus[r] = "running"
            THEN CloseUnfinished(fileStatus[r], "failed") ELSE fileStatus[r]]
    /\ runStatus' = [r \in RunIds |->
            IF runStatus[r] = "running" THEN "failed" ELSE runStatus[r]]
    /\ UNCHANGED <<conn, lastRun, runConn, lock, event, progress, pc, localVars>>

-----------------------------------------------------------------------------
\* What the thread does on its own once it holds the lock.
ThreadStep(t) ==
    \/ PassChecks(t) \/ PassDryRunChecks(t) \/ RefuseReservation(t)
    \/ ReturnWithoutRun(t)
    \/ StartRun(t) \/ StartPreflightFailure(t) \/ FinishPreflightFailure(t)
    \/ OpenRun(t) \/ FailOpening(t) \/ BeginDiscovery(t)
    \/ DiscoverBatch(t) \/ FinishDiscovery(t)
    \/ CancelBeforeQueue(t) \/ StartQueue(t) \/ CheckCancel(t) \/ ClaimBatch(t)
    \/ SubmitBatch(t) \/ RecordBatch(t) \/ NextBatch(t) \/ TripCircuit(t)
    \/ CancelRest(t) \/ FinishRun(t) \/ ReturnExecution(t)
    \/ Raise(t) \/ FailQueue(t) \/ FailRun(t) \/ Close(t) \/ ReleaseLock(t)

Environment ==
    \/ \E r \in RunIds : Cancel(r)
    \/ \E c \in Conns : SetEnabled(c) \/ DeleteConnection(c)
    \/ \E k \in RunIds : Purge(k)
    \/ Crash

Next ==
    \/ \E t \in Threads, c \in Conns : AcquireLock(t, c)
    \/ \E t \in Threads : ThreadStep(t)
    \/ \E t \in Threads, f \in Files : WorkerDone(t, f)
    \/ Environment
    \/ Restart

Spec == Init /\ [][Next]_vars

\* The operating system schedules every live thread; transports bound their
\* network waits, so every future completes; the tray restarts the service.
Fairness ==
    /\ \A t \in Threads : WF_vars(ThreadStep(t))
    /\ \A t \in Threads, f \in Files : WF_vars(WorkerDone(t, f))
    /\ WF_vars(Restart)

FairSpec == Spec /\ Fairness
-----------------------------------------------------------------------------
(* What the coordinator promises. *)

\* A connection never has two runs in progress, whoever asked for them and
\* whatever crashed, was deleted or was purged before: the lock, the check of
\* has_active_run under it and the recovery at startup add up to that.
OneActiveRun ==
    \A c \in Conns : \A r, q \in RunsOf(c) :
        runStatus[r] = "running" /\ runStatus[q] = "running" => r = q

\* A run that has ended has no file left pending or downloading, although the
\* queue and the run are closed by separate transactions and the cancel event
\* is read twice between the last claim and the verdict.
QueueClosed ==
    \A r \in RunIds : runStatus[r] \in Terminal =>
        \A f \in Files : fileStatus[r][f] \notin Unfinished

\* The verdict, computed from counters in memory, agrees with the rows: a run
\* that ended well has nothing but downloaded or skipped files, and a partial
\* one has both a downloaded and a failed file.
VerdictMatchesRows ==
    \A r \in RunIds :
        /\ runStatus[r] = "ok" =>
             \A f \in Files : fileStatus[r][f] \in {"none", "ok", "skipped"}
        /\ runStatus[r] = "partial" =>
             /\ \E f \in Files : fileStatus[r][f] = "ok"
             /\ \E f \in Files : fileStatus[r][f] = "failed"

\* Deduplication: without full reconciliation, no remote identity is
\* downloaded by two runs that the history still holds, although what is known
\* is read when a batch is planned and written when it is recorded.
DownloadedOnce ==
    \A c \in Conns \ FullScan : \A r, q \in RunsOf(c) : \A f \in Files :
        fileStatus[r][f] = "ok" /\ fileStatus[q][f] = "ok" => r = q

\* No download worker outlives the lock of its connection: even after an error
\* of the coordinator, a later run cannot write beside an earlier one.
EnginesUnderLock ==
    \A t \in Threads :
        working[t] # {} => target[t] \in Conns /\ lock[target[t]] = t

\* Only an idle connection can be deleted: no thread is planning or running it.
DeletedIsQuiet ==
    \A c \in Conns : conn[c] = "deleted" =>
        \A t \in Threads : pc[t] \in Reserved \cup Owning => target[t] # c

\* While the process lives, whatever marks a run as active (its row, its
\* cancel event, its entry in the panel) belongs to the thread that owns it, so
\* nothing blocks the connection or lingers on the panel for ever.  Database
\* errors inside an error handler break this (AllowDbFailure).
NothingLeaks ==
    up => \A r \in RunIds :
        (runStatus[r] = "running" \/ event[r] # "absent" \/ r \in progress) =>
            \E t \in Threads : pc[t] \in Owning /\ run[t] = r

\* The audit history is final: the row of a file that has ended never changes
\* again, nor does the row of a run, except that both may be deleted and that
\* the error handler may still turn the verdict of its own run into failed.
HistoryIsFinal ==
    [][\A r \in RunIds :
         /\ runStatus[r] \in Terminal /\ runStatus'[r] # runStatus[r] =>
              \/ runStatus'[r] = "absent"
              \/ /\ runStatus'[r] = "failed"
                 /\ \E t \in Threads : run[t] = r /\ pc[t] = "failing2"
         /\ runStatus'[r] # "absent" =>
              \A f \in Files : fileStatus[r][f] \in Outcomes =>
                  fileStatus'[r][f] = fileStatus[r][f]]_vars

\* Nothing hangs for ever, whatever fails: every run ends or is deleted (its
\* thread brings it to a verdict, or the restart after a crash does), the event
\* of a run that the user cancelled is dropped with it, and every connection
\* becomes available again after a reservation.
RunsEnd ==
    /\ \A r \in RunIds : runStatus[r] = "running" ~> runStatus[r] # "running"
    /\ \A r \in RunIds : event[r] = "set" ~> event[r] = "absent"
    /\ \A c \in Conns : lock[c] # NoThread ~> lock[c] = NoThread
=============================================================================
