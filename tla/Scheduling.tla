----------------------------- MODULE Scheduling -----------------------------
(***************************************************************************)
(* Which files the runs of a connection look at: calculate_window and      *)
(* _classify_file (app/orchestrator.py), the daily jobs, the catch-up and  *)
(* its planner (app/scheduler.py) and the history they consult             *)
(* (app/db.py).  The question is whether a file that appears on the server *)
(* at some instant falls in the window of some run that succeeds.          *)
(*                                                                         *)
(* Time is a number of units, Day units to a day, in a zone without        *)
(* daylight saving.  One file of each connection is followed.  What a run  *)
(* does with the files of its window is RunLifecycle's and FileTransfer's. *)
(***************************************************************************)
EXTENDS Integers, FiniteSets

CONSTANTS
    Conns,     \* enabled connections
    Mode,      \* window_mode of each connection
    FullScan,  \* connections with full_local_reconciliation
    Planners,  \* threads that run the catch-up
    Startup,   \* the one that the start of the process launches
    Day, At,   \* units of a day, schedule time in it
    Hours, Overlap, Quiet, Jitter,  \* connection and schedule settings
    MaxDays,   \* catchup.max_days
    AllowDates, \* may the user ask for the files of a date?
    MaxTime,   \* bound: the last instant
    MaxOk,     \* bound: windows completed for a connection
    NoConn

Modes == {"calendar_day", "rolling_hours", "since_last_run"}

ASSUME ConstantsAssumption ==
    /\ Mode \in [Conns -> Modes]
    /\ FullScan \subseteq Conns
    /\ Day \in Nat \ {0}
    /\ At \in 0..(Day - 1)
    /\ Hours \in Nat \ {0}
    /\ {Overlap, Quiet, Jitter, MaxOk} \subseteq Nat
    /\ MaxTime \in Nat /\ MaxTime >= 2 * Day
    /\ MaxDays \in Nat \ {0}
    /\ AllowDates \in BOOLEAN
    /\ NoConn \notin Conns
    /\ Startup \in Planners

\* A job fires nearer to its own daily time than to another; the settings do
\* not check it.
ASSUME JitterAssumption == 2 * Jitter < Day

VARIABLES
    now,      \* the clock
    up,       \* is the process alive?
    ok,       \* history: windows of the successful runs
    mtime,    \* when the file of each connection appeared, 0 before
    taken,    \* was it downloaded?
    run,      \* the run in progress of each connection
    next,     \* nominal time of the next scheduled run
    phase,    \* what each planner is doing
    pending,  \* its candidates
    awaiting, \* the connection whose run it waits for
    owed      \* history: end of a successful window that left the file as quiet

vars == <<now, up, ok, mtime, taken, run, next, phase, pending, awaiting, owed>>

Windows == [start : Int, end : Int]
Idle    == [stage |-> "idle"]
Runs    == {Idle} \cup
           [stage : {"started", "listed"}, window : Windows, started : Nat,
            auto : BOOLEAN, file : {"ignored", "quiet", "planned"}]

TypeOK ==
    /\ now \in 0..MaxTime
    /\ up \in BOOLEAN
    /\ ok \in [Conns -> SUBSET Windows]
    /\ mtime \in [Conns -> 0..MaxTime]
    /\ taken \in [Conns -> BOOLEAN]
    /\ run \in [Conns -> Runs]
    /\ next \in [Conns -> Int]
    /\ phase \in [Planners -> {"idle", "plan", "execute"}]
    /\ pending \in [Planners -> SUBSET (Conns \X Int)]
    /\ awaiting \in [Planners -> Conns \cup {NoConn}]
    /\ owed \in [Conns -> Int]

-----------------------------------------------------------------------------
(* Windows. *)

Midnight(t) == t - (t % Day)

\* last_successful_end, of a connection with history.
LastEnd(c) == CHOOSE e \in {w.end : w \in ok[c]} : \A w \in ok[c] : w.end <= e

\* calculate_window; a window is [start, end).
CalculateWindow(c, reference) ==
    IF Mode[c] = "calendar_day"
    THEN [start |-> Midnight(reference) - Day, end |-> Midnight(reference)]
    ELSE IF Mode[c] = "rolling_hours" \/ ok[c] = {}
    THEN [start |-> reference - Hours, end |-> reference]
    ELSE [start |-> LastEnd(c) - Overlap, end |-> reference]

\* since_last_run raises when the last success ends after the reference.
WindowRaises(c, reference) ==
    CalculateWindow(c, reference).start >= CalculateWindow(c, reference).end

\* The window of a date chosen by the user.
DateWindow(day) == [start |-> day * Day, end |-> (day + 1) * Day]

\* _classify_file and _classify_full_scan_eligibility of the file on the
\* server now; a full scan ignores the window.
Classify(c) ==
    IF \/ mtime[c] = 0
       \/ taken[c]
       \/ /\ c \notin FullScan
          /\ \/ mtime[c] < run[c].window.start
             \/ mtime[c] >= run[c].window.end
    THEN "ignored"
    ELSE IF mtime[c] > run[c].started - Quiet THEN "quiet" ELSE "planned"

-----------------------------------------------------------------------------
(* The schedule. *)

\* Bug: the jitter is forgotten, the latest daily time is taken.
BugLatestNominal(t) ==
    LET today == Midnight(t) + At
    IN  IF t < today THEN today - Day ELSE today

\* _nominal_scheduled_time: the daily time a job that fires now stands for.
NominalTime(t) ==
    LET today == Midnight(t) + At
    IN  IF t < today /\ today - t > Jitter THEN today - Day
        ELSE IF t >= today /\ today + Day - t <= Jitter THEN today + Day
        ELSE today

\* The first daily time whose trigger, Jitter before it, is not past.
NextNominal(t) ==
    CHOOSE n \in {Midnight(t) + At + k * Day : k \in 0..2} :
        n - Jitter >= t /\ n - Jitter < t + Day

\* The daily times that a catch-up looks at.
ScheduledTimes ==
    {s \in {Midnight(now) + At - k * Day : k \in 0..(MaxDays - 1)} : s <= now}

\* What it looks at for a full scan: the latest only.
Scheduled(c) ==
    IF c \in FullScan
    THEN {s \in ScheduledTimes : \A other \in ScheduledTimes : other <= s}
    ELSE {s \in ScheduledTimes : Mode[c] = "since_last_run" /\ ok[c] # {} => LastEnd(c) < s}

\* CatchUpPlanner.candidates raises when one of its windows does.
PlannerRaises == \E c \in Conns : \E s \in Scheduled(c) : WindowRaises(c, s)

\* has_successful_window: the same instants, of a run that counts as a success.
HasSuccessfulWindow(c, window) == window \in ok[c]

\* The daily times of c without a successful window.
Missing(c) ==
    {s \in Scheduled(c) : ~HasSuccessfulWindow(c, CalculateWindow(c, s))}

\* Bug: the pair is built the other way round.
BugSwappedCandidates == UNION {Missing(c) \X {c} : c \in Conns}

\* CatchUpPlanner.candidates.
Candidates == UNION {{c} \X Missing(c) : c \in Conns}

-----------------------------------------------------------------------------
\* What the planners do in a process that has just started.
AtStart == [p \in Planners |-> IF p = Startup THEN "plan" ELSE "idle"]

Init ==
    /\ now = 2 * Day
    /\ up = TRUE
    /\ ok = [c \in Conns |-> {}]
    /\ mtime = [c \in Conns |-> 0]
    /\ taken = [c \in Conns |-> FALSE]
    /\ run = [c \in Conns |-> Idle]
    /\ next = [c \in Conns |-> NextNominal(now)]
    /\ phase = AtStart
    /\ pending = [p \in Planners |-> {}]
    /\ awaiting = [p \in Planners |-> NoConn]
    /\ owed = [c \in Conns |-> 0]

-----------------------------------------------------------------------------
(* The runs of a connection, under its lock. *)

\* Bug: a scheduled run does not look for a successful one of its window.
BugSkipHistoryCheck(c, window, auto) ==
    run' = [run EXCEPT ![c] =
               [stage |-> "started", window |-> window, started |-> now,
                auto |-> auto, file |-> "ignored"]]

\* _execute_reserved_connection: a run starts unless the scheduler or the
\* catch-up asks for a window that was completed meanwhile.
Execute(c, window, auto) ==
    IF auto /\ c \notin FullScan /\ HasSuccessfulWindow(c, window)
    THEN UNCHANGED run
    ELSE run' = [run EXCEPT ![c] =
                    [stage |-> "started", window |-> window, started |-> now,
                     auto |-> auto, file |-> "ignored"]]

\* execute_connection for a reference time: refused while the lock is busy or
\* without a window.
Request(c, reference, auto) ==
    IF run[c] # Idle \/ WindowRaises(c, reference)
    THEN UNCHANGED run
    ELSE Execute(c, CalculateWindow(c, reference), auto)

\* The user asks for a run, from the panel or the command line.
RunManually(c) ==
    /\ up
    /\ Request(c, now, FALSE)
    /\ UNCHANGED <<now, up, ok, mtime, taken, next, phase, pending, awaiting, owed>>

RunDate(c, day) ==
    /\ up
    /\ AllowDates
    /\ run[c] = Idle
    /\ Execute(c, DateWindow(day), FALSE)
    /\ UNCHANGED <<now, up, ok, mtime, taken, next, phase, pending, awaiting, owed>>

\* The listing reaches the place of the file.
ListFile(c) ==
    /\ run[c] # Idle
    /\ run[c].stage = "started"
    /\ run' = [run EXCEPT ![c].stage = "listed", ![c].file = Classify(c)]
    /\ UNCHANGED <<now, up, ok, mtime, taken, next, phase, pending, awaiting, owed>>

\* Whoever waits for the run of c goes on.
Resume(c) ==
    awaiting' = [p \in Planners |-> IF awaiting[p] = c THEN NoConn ELSE awaiting[p]]

\* A run that succeeds has downloaded what it planned.
FinishOk(c) ==
    /\ run[c] # Idle
    /\ run[c].stage = "listed"
    /\ Cardinality(ok[c]) < MaxOk
    /\ ok' = [ok EXCEPT ![c] = @ \cup {run[c].window}]
    /\ taken' = [taken EXCEPT ![c] = @ \/ run[c].file = "planned"]
    /\ owed' = [owed EXCEPT ![c] =
                  IF run[c].file = "quiet" THEN run[c].window.end ELSE @]
    /\ run' = [run EXCEPT ![c] = Idle]
    /\ Resume(c)
    /\ UNCHANGED <<now, up, mtime, next, phase, pending>>

\* Bug: the end of the last run is taken, whatever its status.
BugAnyRunAdvances(c) ==
    /\ run[c] # Idle
    /\ taken' = [taken EXCEPT ![c] = @ \/ run[c].file = "planned"]
    /\ ok' = [ok EXCEPT ![c] = @ \cup {run[c].window}]
    /\ run' = [run EXCEPT ![c] = Idle]
    /\ Resume(c)
    /\ UNCHANGED <<now, up, mtime, next, phase, pending, owed>>

\* A run that does not succeed may have downloaded the file all the same.
FinishFailed(c) ==
    /\ run[c] # Idle
    /\ \/ UNCHANGED taken
       \/ run[c].file = "planned" /\ taken' = [taken EXCEPT ![c] = TRUE]
    /\ run' = [run EXCEPT ![c] = Idle]
    /\ Resume(c)
    /\ UNCHANGED <<now, up, ok, mtime, next, phase, pending, owed>>

-----------------------------------------------------------------------------
(* The scheduler. *)

\* The job of c fires within Jitter of its daily time, or later if the machine
\* slept or the pool was busy; daily times that passed meanwhile are coalesced.
FireJob(c) ==
    /\ up
    /\ now >= next[c] - Jitter
    /\ Request(c, NominalTime(now), TRUE)
    /\ \E n \in {next[c] + k * Day : k \in 1..(MaxTime \div Day)} :
         /\ n - Day - Jitter <= now
         /\ n + Jitter > now
         /\ next' = [next EXCEPT ![c] = n]
    /\ UNCHANGED <<now, up, ok, mtime, taken, phase, pending, awaiting, owed>>

\* configure: saving settings or a connection removes and adds every job.
Reconfigure ==
    /\ up
    /\ next' = [c \in Conns |-> NextNominal(now)]
    /\ next' # next
    /\ UNCHANGED <<now, up, ok, mtime, taken, run, phase, pending, awaiting, owed>>

\* _check_clock_jump: the machine slept, or its clock was set.
BeginCatchup(p) ==
    /\ up
    /\ p # Startup
    /\ phase[p] = "idle"
    /\ phase' = [phase EXCEPT ![p] = "plan"]
    /\ UNCHANGED <<now, up, ok, mtime, taken, run, next, pending, awaiting, owed>>

\* run_catchup: the planner, whose exception ends the catch-up.
PlanCatchup(p) ==
    /\ phase[p] = "plan"
    /\ IF PlannerRaises
       THEN /\ phase' = [phase EXCEPT ![p] = "idle"]
            /\ UNCHANGED pending
       ELSE /\ phase' = [phase EXCEPT ![p] = "execute"]
            /\ pending' = [pending EXCEPT ![p] = Candidates]
    /\ UNCHANGED <<now, up, ok, mtime, taken, run, next, awaiting, owed>>

\* run_catchup: the oldest candidate is executed, in this thread; a refusal is
\* noted and the candidate dropped.
ExecuteCandidate(p) ==
    /\ phase[p] = "execute"
    /\ awaiting[p] = NoConn
    /\ \E candidate \in pending[p] :
         LET c == candidate[1]
         IN  /\ \A other \in pending[p] : candidate[2] <= other[2]
             /\ pending' = [pending EXCEPT ![p] = @ \ {candidate}]
             /\ Request(c, candidate[2], TRUE)
             /\ awaiting' = [awaiting EXCEPT ![p] = IF run' = run THEN NoConn ELSE c]
    /\ UNCHANGED <<now, up, ok, mtime, taken, next, phase, owed>>

EndCatchup(p) ==
    /\ phase[p] = "execute"
    /\ awaiting[p] = NoConn
    /\ pending[p] = {}
    /\ phase' = [phase EXCEPT ![p] = "idle"]
    /\ UNCHANGED <<now, up, ok, mtime, taken, run, next, pending, awaiting, owed>>

-----------------------------------------------------------------------------
(* The world. *)

Tick ==
    /\ now < MaxTime
    /\ now' = now + 1
    /\ UNCHANGED <<up, ok, mtime, taken, run, next, phase, pending, awaiting, owed>>

FileAppears(c) ==
    /\ mtime[c] = 0
    /\ mtime' = [mtime EXCEPT ![c] = now]
    /\ UNCHANGED <<now, up, ok, taken, run, next, phase, pending, awaiting, owed>>

Crash ==
    /\ up
    /\ up' = FALSE
    /\ run' = [c \in Conns |-> Idle]
    /\ phase' = [p \in Planners |-> "idle"]
    /\ pending' = [p \in Planners |-> {}]
    /\ awaiting' = [p \in Planners |-> NoConn]
    /\ UNCHANGED <<now, ok, mtime, taken, next, owed>>

\* Jobs live in memory: a daily time that passed while the process was down
\* is left to the catch-up, which the lifespan of the server launches.
Restart ==
    /\ ~up
    /\ up' = TRUE
    /\ next' = [c \in Conns |-> NextNominal(now)]
    /\ phase' = AtStart
    /\ UNCHANGED <<now, ok, mtime, taken, run, pending, awaiting, owed>>

Next ==
    \/ \E c \in Conns :
         \/ RunManually(c) \/ ListFile(c) \/ FinishOk(c) \/ FinishFailed(c)
         \/ FireJob(c) \/ FileAppears(c)
         \/ \E day \in 1..(MaxTime \div Day) : RunDate(c, day)
    \/ \E p \in Planners : \/ BeginCatchup(p) \/ PlanCatchup(p)
                           \/ ExecuteCandidate(p) \/ EndCatchup(p)
    \/ Reconfigure \/ Tick \/ Crash \/ Restart

Spec == Init /\ [][Next]_vars
-----------------------------------------------------------------------------
(* What the windows promise. *)

FirstStart(c) == CHOOSE s \in {w.start : w \in ok[c]} : \A w \in ok[c] : s <= w.start

\* Under since_last_run a file that has not been downloaded is never left
\* behind the windows to come: whatever failed, crashed, was caught up late or
\* ran early because of the jitter, the next window reaches back to it.
NothingLeftBehind ==
    \A c \in Conns :
        /\ Mode[c] = "since_last_run" /\ c \notin FullScan /\ ok[c] # {}
        /\ mtime[c] # 0 /\ ~taken[c] /\ mtime[c] >= FirstStart(c)
        => mtime[c] >= LastEnd(c) - Overlap

\* The scheduler and the catch-up never run a window that has succeeded, though
\* the candidates of a catch-up are chosen long before they are executed.
NoWindowRepeated ==
    \A c \in Conns \ FullScan :
        run[c] # Idle /\ run[c].auto => run[c].window \notin ok[c]

\* A job that fires within its jitter collects the window of its own daily
\* time, whichever side of it, and of midnight, it fires on.
JobsCollectTheirDay ==
    [][\A c \in Conns :
         /\ next'[c] # next[c] /\ run'[c] # run[c] /\ run'[c] # Idle
         /\ now <= next[c] + Jitter
         => run'[c].window = CalculateWindow(c, next[c])]_vars

\* A file that a successful run left because it was being written is taken by
\* the next one that looks further, if it has rested by then (docs/SPEC.md,
\* section 2).
QuietFileTakenNext ==
    [][\A c \in Conns :
         /\ ok'[c] # ok[c] /\ owed[c] # 0
         /\ run[c].window.end > owed[c] /\ mtime[c] <= run[c].started - Quiet
         => taken'[c]]_vars

\* A catch-up finds the connections whose last daily window is missing
\* (docs/SPEC.md, RF-4).
CatchupFindsMissedWindows ==
    [][\A p \in Planners, c \in Conns :
         /\ phase[p] = "plan" /\ phase'[p] # "plan" /\ up'
         /\ \E s \in Missing(c) : ~WindowRaises(c, s)
         => \E candidate \in pending'[p] : candidate[1] = c]_vars
=============================================================================
