---------------------------- MODULE Application ----------------------------
(***************************************************************************)
(* The whole application: the resident process and the command line, of    *)
(* which the single-instance mutex lets one at a time own the database     *)
(* (app/platform/single_instance.py, app/commands.py, app/main.py); the    *)
(* jobs that execute connections in the owner, one after the other for an  *)
(* order to run them all; the panel of each run (Progress) and the alerts  *)
(* that follow it (Alerts).  An execution is coarser than in RunLifecycle: *)
(* nobody cancels it, and its reservation and its first row are one step.  *)
(*                                                                         *)
(* A job is a thread of the scheduler or of the server of the resident, or *)
(* the main thread of the command line.                                    *)
(***************************************************************************)
EXTENDS Progress, Alerts, Sequences

CONSTANTS
    Conns,       \* connections, all enabled
    Has,         \* files that the server of each connection may have
    Legacy,      \* connections of which an older release may have left a run
    Forbidden,   \* files with a path that may not be used
    Jobs,        \* threads that may execute connections at a time
    Orders,      \* what --run-now asks for: the connections, some, in order
    BatchSize,   \* queue_limit
    Down,        \* channels that fail
    Faults,      \* the errors that the executions meet
    MaxTries,    \* attempts of the command line to reach the resident
    Overlap      \* may the command line start while a resident is exiting?

\* execute_all goes through the connections of a list, each of them once.
OneRunEach(order) ==
    \A i, k \in DOMAIN order : order[i] = order[k] => i = k

ASSUME ApplicationAssumption ==
    /\ MaxTries \in Nat \ {0}
    /\ BatchSize \in Nat \ {0}
    /\ Threshold \in Nat \ {0}
    /\ Orders \subseteq Seq(Conns) \ {<<>>}
    /\ \A order \in Orders : OneRunEach(order)
    /\ IsFiniteSet(Files)
    /\ RunIds \subseteq Nat \ {0}
    /\ Has \in [Conns -> SUBSET Files]
    /\ Forbidden \subseteq Files
    /\ Legacy \subseteq Conns
    /\ Legacy # {} => Files # {}
    /\ Down \subseteq Channels
    /\ Faults \subseteq {"auth", "disk_space", "unknown"}
    /\ Overlap \in BOOLEAN

VARIABLES
    mutex,     \* who owns the single-instance mutex
    resident,  \* the resident process
    cli,       \* the command line, used once
    runs,      \* the rows of runs
    rows,      \* run_files.status of each run
    job,       \* the locals of each job
    outcome,   \* the outcomes of the batch of each job
    dead       \* history: runs that a process left when it died

dbVars  == <<runs, rows, alerts>>
jobVars == <<job, outcome, panel>>
vars    == <<mutex, resident, cli, dbVars, jobVars, dead>>

Errors   == {"none", "auth", "disk_space", "path_invalid",
             "unknown", "interrupted"}
Terminal == {"ok", "partial", "failed"}

NoRun ==
    [conn |-> "none", trigger |-> "none", status |-> "absent", found |-> 0,
     downloaded |-> 0, failed |-> 0, error |-> "none", warned |-> FALSE]

\* A run that an older release stored as partial because of a notice.
LegacyRun(c) ==
    [NoRun EXCEPT !.conn = c, !.trigger = "schedule", !.status = "partial",
                  !.found = 1, !.downloaded = 1]

NoRows == [f \in Files |-> "none"]

Idle ==
    [pc |-> "idle", proc |-> "none", trigger |-> "none", todo |-> <<>>, run |-> 0,
     warned |-> FALSE, due |-> {}, sending |-> {}, raising |-> FALSE]

Init ==
    /\ mutex = "none"
    /\ resident = "off"
    /\ cli = [pc |-> "off", asked |-> <<>>, tries |-> 0, code |-> "none"]
    /\ runs \in [RunIds -> {NoRun} \cup {LegacyRun(c) : c \in Legacy}]
    /\ \A r \in RunIds : runs[r] # NoRun => \A s \in RunIds : r <= s
    /\ rows = [r \in RunIds |-> NoRows]
    /\ job = [j \in Jobs |-> Idle]
    /\ outcome = [j \in Jobs |-> NoRows]
    /\ dead = {}
    /\ PanelInit
    /\ AlertsInit

AnAlert == [run: RunIds, cause: AlertCauses, channel: Channels]

TypeOK ==
    /\ mutex \in {"none", "resident", "cli"}
    /\ resident \in {"off", "opening", "serving", "exiting"}
    /\ cli \in [pc: {"off", "opening", "direct", "posting", "waiting", "done"},
                asked: Orders \cup {<<>>}, tries: 0..MaxTries-1,
                code: {"none", "zero", "one"}]
    /\ runs \in [RunIds ->
                   [conn: Conns \cup {"none"}, trigger: {"none", "schedule", "cli"},
                    status: {"absent", "running"} \cup Terminal,
                    found: 0..Cardinality(Files), downloaded: 0..Cardinality(Files),
                    failed: 0..Cardinality(Files), error: Errors, warned: BOOLEAN]]
    /\ rows \in [RunIds -> [Files -> {"none", "pending", "downloading", "ok", "failed"}]]
    /\ job \in [Jobs ->
                  [pc: {"idle", "next", "starting", "discovering", "estimating",
                        "downloading", "alerting"},
                   proc: {"none", "resident", "cli"},
                   trigger: {"none", "schedule", "cli"}, todo: Seq(Conns),
                   run: RunIds \cup {0}, warned: BOOLEAN,
                   due: SUBSET AnAlert, sending: SUBSET AnAlert, raising: BOOLEAN]]
    /\ outcome \in [Jobs -> [Files -> {"none", "ok", "failed"}]]
    /\ dead \subseteq RunIds
    /\ PanelTypeOK
    /\ AlertsTypeOK(RunIds)

-----------------------------------------------------------------------------
(* State functions and pieces of the steps. *)

Executing(j) ==
    job[j].pc \in {"starting", "discovering", "estimating", "downloading"}
JobsOf(p)    == {j \in Jobs : job[j].pc # "idle" /\ job[j].proc = p}
RunsOf(p)    == {job[j].run : j \in JobsOf(p)} \ {0}

\* _reserve_connection: refused while a thread of this process holds the lock
\* of the connection, or a row of it is running.
Busy(p, c) ==
    \/ \E r \in RunsOf(p) : runs[r].conn = c
    \/ \E r \in RunIds : runs[r].conn = c /\ runs[r].status = "running"

With(fs, status)  == {f \in Files : fs[f] = status}
Count(fs, status) == Cardinality(With(fs, status))
Persisted(fs)     == Cardinality(Files \ With(fs, "none"))

\* fail_unfinished.
FailUnfinished(fs) ==
    [f \in Files |-> IF fs[f] \in {"pending", "downloading"} THEN "failed" ELSE fs[f]]

\* RunRepository.finish_run: the counts are taken from the rows.
Ended(run, fs, status, error, warned) ==
    [run EXCEPT !.status = status, !.error = error, !.warned = warned,
                !.found = IF @ < Persisted(fs) THEN Persisted(fs) ELSE @,
                !.downloaded = Count(fs, "ok"),
                !.failed = Count(fs, "failed")]

\* _run_status_from_counts.
StatusOf(fs, warned) ==
    IF Count(fs, "failed") > 0 /\ Count(fs, "ok") = 0 THEN "failed"
    ELSE IF Count(fs, "failed") > 0 \/ warned THEN "partial" ELSE "ok"

\* _had_previous_files.
HadFiles(c, r) ==
    \E s \in RunIds : s < r /\ runs[s].conn = c /\ runs[s].found > 0

\* _evaluate_alerts starts from the row just written.
DueFor(r, run) == Due(r, run, HadFiles(run.conn, r))

\* recover_interrupted.
Recover ==
    /\ rows' = [r \in RunIds |-> IF runs[r].status = "running"
                                 THEN FailUnfinished(rows[r]) ELSE rows[r]]
    /\ runs' = [r \in RunIds |->
                  IF runs[r].status = "running"
                  THEN Ended(runs[r], rows'[r], "failed", "interrupted", runs[r].warned)
                  ELSE runs[r]]

\* Bound: nothing begins when no row is left for it.
RowLeft == \E r \in RunIds : runs[r] = NoRun

NewJob(p, trigger, todo) ==
    [Idle EXCEPT !.pc = "next", !.proc = p, !.trigger = trigger, !.todo = todo]

\* The command line exits with a code; what it was asked matters with 0 only.
Gone(code) ==
    [pc |-> "done", asked |-> IF code = "zero" THEN cli.asked ELSE <<>>,
     tries |-> 0, code |-> code]

\* A process ends: its threads and its panel go with it.
Die(p) ==
    /\ job' = [j \in Jobs |-> IF job[j].proc = p THEN Idle ELSE job[j]]
    /\ outcome' = [j \in Jobs |-> IF job[j].proc = p THEN NoRows ELSE outcome[j]]
    /\ panel' = [r \in RunIds |-> IF r \in RunsOf(p) THEN Absent ELSE panel[r]]
    /\ dead' = dead \cup RunsOf(p)

-----------------------------------------------------------------------------
(* The processes. *)

\* Bug: whether somebody else has the mutex is not asked.
BugAlwaysAcquires == TRUE
\* try_acquire.
Acquires == mutex = "none"

ResidentStart ==
    /\ resident = "off"
    /\ Acquires
    /\ mutex' = "resident"
    /\ resident' = "opening"
    /\ UNCHANGED <<cli, dbVars, jobVars, dead>>

\* build_runtime, and the server starts to serve.
ResidentOpen ==
    /\ resident = "opening"
    /\ Recover
    /\ resident' = "serving"
    /\ UNCHANGED <<mutex, cli, alerts, jobVars, dead>>

\* A scheduled time or a catch-up: one connection.
SchedulerJob(j, c) ==
    /\ resident = "serving"
    /\ RowLeft
    /\ job[j] = Idle
    /\ job' = [job EXCEPT ![j] = NewJob("resident", "schedule", <<c>>)]
    /\ UNCHANGED <<mutex, resident, cli, dbVars, outcome, panel, dead>>

\* The server stops once it has answered every request; the scheduler is told
\* to stop but its threads go on, and the mutex is released before they end.
Exit ==
    /\ resident = "serving"
    /\ \A j \in JobsOf("resident") : job[j].trigger # "cli"
    /\ resident' = "exiting"
    /\ mutex' = "none"
    /\ UNCHANGED <<cli, dbVars, jobVars, dead>>

\* The interpreter waits for those threads.
Exited ==
    /\ resident = "exiting"
    /\ JobsOf("resident") = {}
    /\ resident' = "off"
    /\ UNCHANGED <<mutex, cli, dbVars, jobVars, dead>>

\* Bound: one crash that leaves runs.
MayCrash(p) == dead = {} \/ RunsOf(p) = {}

\* A delegated order is lost: the connection of the request breaks.
CrashResident ==
    /\ resident # "off"
    /\ MayCrash("resident")
    /\ resident' = "off"
    /\ mutex' = IF mutex = "resident" THEN "none" ELSE mutex
    /\ cli' = IF cli.pc = "waiting" THEN Gone("one")
                                    ELSE cli
    /\ Die("resident")
    /\ UNCHANGED dbVars

CrashCli ==
    /\ cli.pc \in {"opening", "direct"}
    /\ MayCrash("cli")
    /\ cli' = Gone("one")
    /\ mutex' = "none"
    /\ Die("cli")
    /\ UNCHANGED <<resident, dbVars>>

-----------------------------------------------------------------------------
(* The command line. *)

OrderDirect(order) ==
    /\ cli.pc = "off"
    /\ RowLeft
    /\ Acquires
    /\ resident = "exiting" => Overlap
    /\ mutex' = "cli"
    /\ cli' = [cli EXCEPT !.pc = "opening", !.asked = order]
    /\ UNCHANGED <<resident, dbVars, jobVars, dead>>

\* build_runtime, and the order is carried out in this process.
OpenCli(j) ==
    /\ cli.pc = "opening"
    /\ job[j] = Idle
    /\ Recover
    /\ cli' = [cli EXCEPT !.pc = "direct"]
    /\ job' = [job EXCEPT ![j] = NewJob("cli", "cli", cli.asked)]
    /\ UNCHANGED <<mutex, resident, alerts, outcome, panel, dead>>

OrderDelegated(order) ==
    /\ cli.pc = "off"
    /\ RowLeft
    /\ ~Acquires
    /\ cli' = [cli EXCEPT !.pc = "posting", !.asked = order]
    /\ UNCHANGED <<mutex, resident, dbVars, jobVars, dead>>

\* POST /api/commands/run-now.
Post(j) ==
    /\ cli.pc = "posting"
    /\ resident = "serving"
    /\ job[j] = Idle
    /\ cli' = [cli EXCEPT !.pc = "waiting", !.tries = 0]
    /\ job' = [job EXCEPT ![j] = NewJob("resident", "cli", cli.asked)]
    /\ UNCHANGED <<mutex, resident, dbVars, outcome, panel, dead>>

\* ConnectError, as nobody listens: another attempt, up to the last one.
PostRefused ==
    /\ cli.pc = "posting"
    /\ resident # "serving"
    /\ cli' = IF cli.tries + 1 = MaxTries
              THEN Gone("one") ELSE [cli EXCEPT !.tries = @ + 1]
    /\ UNCHANGED <<mutex, resident, dbVars, jobVars, dead>>

\* Bug: an answer that is late is asked for again.
BugRetryLate == cli' = [cli EXCEPT !.pc = "posting"]
\* Any other HTTPError: the order is given up, although it goes on.
GiveUp == cli' = Gone("one")

\* Connecting takes too long, or the answer does.
Timeout ==
    /\ cli.pc \in {"posting", "waiting"}
    /\ GiveUp
    /\ UNCHANGED <<mutex, resident, dbVars, jobVars, dead>>

-----------------------------------------------------------------------------
(* The executions of a job. *)

\* The job ends: an error is raised to its caller, or every connection of its
\* order is done.  The caller of an order is told, if it still waits.
Over(j, code) ==
    /\ job' = [job EXCEPT ![j] = Idle]
    /\ cli' = IF job[j].proc = "cli" \/ (job[j].trigger = "cli" /\ cli.pc = "waiting")
              THEN Gone(code)
              ELSE cli
    /\ mutex' = IF job[j].proc = "cli" THEN "none" ELSE mutex

\* execute_all lets the error through.
Raise(j) == Over(j, "one")

RefuseRun(j) ==
    /\ job[j].pc = "next"
    /\ Busy(job[j].proc, Head(job[j].todo))
    /\ Raise(j)
    /\ UNCHANGED <<resident, dbVars, outcome, panel, dead>>

\* A new row, of the next connection.
Insert(j, r) ==
    /\ job[j].pc = "next"
    /\ ~Busy(job[j].proc, Head(job[j].todo))
    /\ runs[r] = NoRun
    /\ \A s \in RunIds : runs[s] = NoRun => r <= s

RowFor(j) ==
    [NoRun EXCEPT !.conn = Head(job[j].todo), !.trigger = job[j].trigger,
                  !.status = "running"]

BeginRun(j, r) ==
    /\ Insert(j, r)
    /\ runs' = [runs EXCEPT ![r] = RowFor(j)]
    /\ job' = [job EXCEPT ![j].pc = "starting", ![j].run = r,
                          ![j].todo = Tail(@), ![j].warned = FALSE]
    /\ UNCHANGED <<mutex, resident, cli, rows, alerts, outcome, panel, dead>>

\* Once the log of the run is open the panel shows it.
OpenRun(j) ==
    /\ job[j].pc = "starting"
    /\ StartEntry(job[j].run)
    /\ job' = [job EXCEPT ![j].pc = "discovering"]
    /\ UNCHANGED <<mutex, resident, cli, dbVars, outcome, dead>>

\* The secret or the transport fails: the run is recorded as failed.
FailPreflight(j, r, error) ==
    LET run == [RowFor(j) EXCEPT !.status = "failed", !.error = error]
    IN /\ Insert(j, r)
       /\ runs' = [runs EXCEPT ![r] = run]
       /\ job' = [job EXCEPT ![j].pc = "alerting", ![j].run = r, ![j].todo = Tail(@),
                             ![j].due = DueFor(r, run), ![j].raising = TRUE]
       /\ UNCHANGED <<mutex, resident, cli, rows, alerts, outcome, panel, dead>>

\* A batch of the listing: what is worth downloading is added to the queue, and
\* a file of a forbidden path as failed.
AddBatch(j, batch) ==
    LET r == job[j].run
    IN /\ job[j].pc = "discovering"
       /\ batch \subseteq Has[runs[r].conn] \cap With(rows[r], "none")
       /\ batch # {}
       /\ rows' = [rows EXCEPT ![r] =
                     [f \in Files |-> IF f \notin batch THEN @[f]
                                      ELSE IF f \in Forbidden THEN "failed"
                                      ELSE "pending"]]
       /\ runs' = [runs EXCEPT ![r].found = @ + Cardinality(batch)]
       /\ job' = [job EXCEPT ![j].warned = @ \/ batch \cap Forbidden # {}]
       /\ UNCHANGED <<mutex, resident, cli, alerts, outcome, panel, dead>>

\* The listing ends; the files that it found besides need no download.  Two
\* cases are told apart: there are none, or they are all the others.
EndListing(j, found) ==
    LET r == job[j].run
    IN /\ job[j].pc = "discovering"
       /\ found \in {runs[r].found, Cardinality(Has[runs[r].conn])}
       /\ runs' = [runs EXCEPT ![r].found = found]
       /\ SetTotals(r, Count(rows[r], "pending"))
       /\ job' = [job EXCEPT ![j].pc = "downloading"]
       /\ UNCHANGED <<mutex, resident, cli, rows, alerts, outcome, dead>>

\* claim_pending_batch.  The space that the files need is estimated next, and
\* may turn out to be missing, before the panel has them in hand.
ClaimBatch(j, batch) ==
    LET r == job[j].run
        pending == With(rows[r], "pending")
    IN /\ job[j].pc = "downloading"
       /\ With(rows[r], "downloading") = {}
       /\ batch # {} /\ batch \subseteq pending
       /\ batch = pending \/ Cardinality(batch) = BatchSize
       /\ Cardinality(batch) <= BatchSize
       /\ rows' = [rows EXCEPT ![r] =
                     [f \in Files |-> IF f \in batch THEN "downloading" ELSE @[f]]]
       /\ job' = [job EXCEPT ![j].pc = "estimating"]
       /\ UNCHANGED <<mutex, resident, cli, runs, alerts, outcome, panel, dead>>

\* There is space: the panel shows the files and the workers start.
ShowBatch(j) ==
    /\ job[j].pc = "estimating"
    /\ AddFiles(job[j].run, With(rows[job[j].run], "downloading"))
    /\ job' = [job EXCEPT ![j].pc = "downloading"]
    /\ UNCHANGED <<mutex, resident, cli, dbVars, outcome, dead>>

\* The thread of the job receives the outcome of a worker.
WorkerDone(j, f, result) ==
    /\ job[j].pc = "downloading"
    /\ rows[job[j].run][f] = "downloading"
    /\ outcome[j][f] = "none"
    /\ outcome' = [outcome EXCEPT ![j][f] = result]
    /\ FinishFile(job[j].run, f)
    /\ UNCHANGED <<mutex, resident, cli, dbVars, job, dead>>

\* record_download_outcomes_batch, once every worker is done.
RecordBatch(j) ==
    LET r == job[j].run
    IN /\ job[j].pc = "downloading"
       /\ With(rows[r], "downloading") # {}
       /\ \A f \in With(rows[r], "downloading") : outcome[j][f] # "none"
       /\ rows' = [rows EXCEPT ![r] =
                     [f \in Files |-> IF outcome[j][f] # "none" THEN outcome[j][f]
                                                                ELSE @[f]]]
       /\ outcome' = [outcome EXCEPT ![j] = NoRows]
       /\ UNCHANGED <<mutex, resident, cli, runs, alerts, job, panel, dead>>

\* finish_run with the files as they are left, and the evaluation of alerts.
EndRun(j, fs, status, error, raising) ==
    LET r == job[j].run
        run == Ended(runs[r], fs, status, error, job[j].warned)
    IN /\ rows' = [rows EXCEPT ![r] = fs]
       /\ runs' = [runs EXCEPT ![r] = run]
       /\ job' = [job EXCEPT ![j].pc = "alerting", ![j].raising = raising,
                             ![j].due = DueFor(r, run)]
       /\ UNCHANGED <<mutex, resident, cli, alerts, outcome, panel, dead>>

Verdict(j) ==
    LET fs == rows[job[j].run]
    IN /\ job[j].pc = "downloading"
       /\ With(fs, "pending") \cup With(fs, "downloading") = {}
       /\ EndRun(j, fs, StatusOf(fs, job[j].warned),
                 IF job[j].warned THEN "path_invalid" ELSE "none", FALSE)

\* The circuit breaker: a streak of failures of one kind (whose length is left
\* out) gives up what is pending.
OpenCircuit(j, error) ==
    LET fs == FailUnfinished(rows[job[j].run])
    IN /\ job[j].pc = "downloading"
       /\ With(rows[job[j].run], "downloading") = {}
       /\ With(rows[job[j].run], "failed") # {}
       /\ EndRun(j, fs, StatusOf(fs, job[j].warned), error, FALSE)

\* The log, the listing, the space on the disk or anything else of the thread
\* fails, with no file in hand.
Fail(j, error) ==
    /\ Executing(j)
    /\ panel[job[j].run].files = {} /\ outcome[j] = NoRows
    /\ EndRun(j, FailUnfinished(rows[job[j].run]), "failed", error, TRUE)

\* evaluate_run, one alert after the other in a fixed order.
TakeAlert(j) ==
    LET a == CHOOSE a \in job[j].due : TRUE
    IN /\ job[j].pc = "alerting"
       /\ job[j].due # {} /\ job[j].sending = {}
       /\ IF Claimed(a)
          THEN /\ job' = [job EXCEPT ![j].due = @ \ {a}]
               /\ UNCHANGED alerts
          ELSE /\ job' = [job EXCEPT ![j].due = @ \ {a}, ![j].sending = {a}]
               /\ Claim(a)
       /\ UNCHANGED <<mutex, resident, cli, runs, rows, outcome, panel, dead>>

\* Bug: a channel that fails ends the evaluation.
BugRest(j, a) == IF a.channel \in Down THEN {} ELSE job[j].due
\* A channel that fails does not stop the others.
Rest(j, a) == job[j].due

Send(j) ==
    \E a \in job[j].sending :
        /\ Settle(a, IF a.channel \in Down THEN "failed" ELSE "sent")
        /\ job' = [job EXCEPT ![j].sending = {}, ![j].due = Rest(j, a)]
        /\ UNCHANGED <<mutex, resident, cli, runs, rows, outcome, panel, dead>>

\* finally: the entry of the panel and the lock go, then the next connection.
CloseRun(j) ==
    /\ job[j].pc = "alerting"
    /\ job[j].due = {} /\ job[j].sending = {}
    /\ RemoveEntry(job[j].run)
    /\ IF job[j].raising THEN Raise(j)
       ELSE IF job[j].todo = <<>> THEN Over(j, "zero")
       ELSE /\ job' = [job EXCEPT ![j].pc = "next", ![j].run = 0]
            /\ UNCHANGED <<cli, mutex>>
    /\ UNCHANGED <<resident, dbVars, outcome, dead>>

-----------------------------------------------------------------------------
Processes ==
    ResidentStart \/ ResidentOpen \/ Exit \/ Exited \/ CrashResident \/ CrashCli

CommandLine ==
    \/ \E order \in Orders : OrderDirect(order) \/ OrderDelegated(order)
    \/ \E j \in Jobs : OpenCli(j) \/ Post(j)
    \/ PostRefused
    \/ Timeout

JobStep(j) ==
    \/ \E c \in Conns : SchedulerJob(j, c)
    \/ RefuseRun(j)
    \/ \E r \in RunIds : \/ BeginRun(j, r)
                         \/ \E error \in Faults \ {"disk_space"} : FailPreflight(j, r, error)
    \/ OpenRun(j)
    \/ \E batch \in SUBSET Files : AddBatch(j, batch)
    \/ \E found \in 0..Cardinality(Files) : EndListing(j, found)
    \/ \E batch \in SUBSET Files : ClaimBatch(j, batch)
    \/ ShowBatch(j)
    \/ \E f \in Files, result \in {"ok", "failed"} : WorkerDone(j, f, result)
    \/ RecordBatch(j)
    \/ Verdict(j)
    \/ \E error \in Faults \ {"disk_space"} : OpenCircuit(j, error)
    \/ \E error \in Faults : Fail(j, error)
    \/ TakeAlert(j)
    \/ Send(j)
    \/ CloseRun(j)

Next == Processes \/ CommandLine \/ \E j \in Jobs : JobStep(j)

Spec == Init /\ [][Next]_vars

-----------------------------------------------------------------------------
(* Safety. *)

\* A process that starts closes the runs that its predecessors left, never one
\* that is being executed (docs/DECISIONS.md D-024, D-025).
RecoverySparesTheLiving ==
    \A j \in Jobs : Executing(j) => runs[job[j].run].status = "running"

\* An order of the command line is carried out once at the most, whoever does
\* it and however late the answer is; and the code 0 is the word of whoever did
\* it that every connection of the order was executed to a verdict.
OrderIsHonoured ==
    LET Of(c) == {r \in RunIds : runs[r].trigger = "cli" /\ runs[r].conn = c}
    IN \A c \in Conns :
         /\ Cardinality(Of(c)) <= 1
         /\ cli.code = "zero" /\ c \in {cli.asked[i] : i \in DOMAIN cli.asked} =>
              \E r \in Of(c) : runs[r].status \in Terminal /\ r \notin dead

\* Once a run has left the hands of its job, everything it deserves an alert
\* for was tried on every channel, unless its process died (docs/SPEC.md RF-11).
AlertsAreOut ==
    \A r \in RunIds :
        runs[r].status \in Terminal /\ r \notin dead
        /\ (\A j \in Jobs : job[j].run # r)
        => \A a \in DueFor(r, runs[r]) : Settled(a)

\* Files that are claimed and not yet done.
InHand(j) == With(rows[job[j].run], "downloading") \cap With(outcome[j], "none")

\* The panel shows a run while somebody has it and no longer.  From the end of
\* the discovery on, what is done, claimed and in the queue adds up to the total
\* that it shows, while workers and claims go their way; the files that it shows
\* in hand, whose progress update_file_progress stores, are those claimed and not
\* done, or none while the space for a batch is being estimated.
PanelAddsUp ==
    /\ \A r \in RunIds : Shown(r) => \E j \in Jobs : job[j].run = r
    /\ \A j \in Jobs :
         LET r == job[j].run
             shown == Snapshot(r)
         IN /\ job[j].pc = "discovering" => shown.phase = "discovering"
            /\ job[j].pc \in {"estimating", "downloading"} =>
                 /\ shown.phase = "downloading"
                 /\ panel[r].files = IF job[j].pc = "downloading" THEN InHand(j) ELSE {}
                 /\ shown.total = shown.completed + Cardinality(InHand(j))
                                  + Count(rows[r], "pending")

\* A run shown as a success has no file that failed or was left, and the filter
\* of the list selects a run under the word that it is shown with, whatever
\* release stored it.
ResultsAreHonest ==
    \A r \in RunIds :
        LET result == ResultStatus(runs[r])
        IN /\ result \in Successes =>
                \A f \in Files : rows[r][f] \in {"none", "ok"}
           /\ \A filter \in Successes \cup {"partial", "failed", "running"} :
                Selected(runs[r], filter) <=> result = filter

\* The command line and the resident never execute a connection at the same
\* time (docs/SPEC.md RF-4, single instance).
NeverExecutedTwice ==
    \A j, k \in Jobs :
        j # k /\ Executing(j) /\ Executing(k)
        => runs[job[j].run].conn # runs[job[k].run].conn
=============================================================================
