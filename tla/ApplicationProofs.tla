-------------------------- MODULE ApplicationProofs --------------------------
(***************************************************************************)
(* Theorems about Application for any connections, threads, runs, orders   *)
(* and channels, when the command line does not start while a resident is  *)
(* exiting.  Typed says what the records hold; on it rests Exclusion: who  *)
(* has the mutex, which process may have threads, and what the row of a    *)
(* run says while a thread executes it.  PanelInv and ResultInv add what   *)
(* the panel and the result of a run say of the rows of its files.         *)
(***************************************************************************)
EXTENDS Application, FiniteSetTheorems, TLAPS

JobRecords ==
    [pc: {"idle", "next", "starting", "discovering", "estimating", "downloading",
          "alerting"},
     proc: {"none", "resident", "cli"}, trigger: {"none", "schedule", "cli"},
     todo: Seq(Conns), run: RunIds \cup {0}, warned: BOOLEAN,
     due: SUBSET AnAlert, sending: SUBSET AnAlert, raising: BOOLEAN]

RunRecords ==
    [conn: Conns \cup {"none"}, trigger: {"none", "schedule", "cli"},
     status: {"absent", "running"} \cup Terminal, found: Nat, downloaded: Nat,
     failed: Nat, error: Errors, warned: BOOLEAN]

CliRecords ==
    [pc: {"off", "opening", "direct", "posting", "waiting", "done"},
     asked: Seq(Conns), tries: Nat, code: {"none", "zero", "one"}]

(* The records are well formed, and the next connection of a job exists. *)
Typed ==
    /\ job \in [Jobs -> JobRecords]
    /\ runs \in [RunIds -> RunRecords]
    /\ cli \in CliRecords
    /\ cli.pc \in {"opening", "direct", "posting"} => cli.asked # <<>>
    /\ \A j \in Jobs : job[j].pc = "next" => job[j].todo # <<>>
    /\ \A j \in Jobs : Executing(j) => job[j].run \in RunIds

-----------------------------------------------------------------------------
(* Lemmas about the pieces of the steps. *)

LEMMA CountsAreNat ==
    ASSUME NEW fs, NEW status
    PROVE  Count(fs, status) \in Nat /\ Persisted(fs) \in Nat
  <1>1. With(fs, status) \subseteq Files /\ Files \ With(fs, "none") \subseteq Files
    BY DEF With
  <1>2. IsFiniteSet(With(fs, status)) /\ IsFiniteSet(Files \ With(fs, "none"))
    BY <1>1, FS_Subset, ApplicationAssumption
  <1> QED
    BY <1>2, FS_CardinalityType DEF Count, Persisted

(* The counts of a row that ends change, its connection does not. *)
LEMMA EndedTyped ==
    ASSUME NEW run \in RunRecords, NEW fs, NEW status \in Terminal,
           NEW error \in Errors, NEW warned \in BOOLEAN
    PROVE  /\ Ended(run, fs, status, error, warned) \in RunRecords
           /\ Ended(run, fs, status, error, warned).status = status
           /\ Ended(run, fs, status, error, warned).conn = run.conn
  <1>1. Count(fs, "ok") \in Nat /\ Count(fs, "failed") \in Nat /\ Persisted(fs) \in Nat
    BY CountsAreNat
  <1> QED
    BY <1>1 DEF Ended, RunRecords

LEMMA DueTyped ==
    ASSUME NEW r \in RunIds, NEW run
    PROVE  DueFor(r, run) \subseteq AnAlert
  BY DEF DueFor, Due, Causes, AnAlert

LEMMA StatusTyped ==
    ASSUME NEW fs, NEW warned
    PROVE  StatusOf(fs, warned) \in Terminal
  BY DEF StatusOf, Terminal

LEMMA InitTyped == Init => Typed
  <1> SUFFICES ASSUME Init PROVE Typed
    OBVIOUS
  <1>1. Idle \in JobRecords
    BY DEF Idle, JobRecords
  <1>2. NoRun \in RunRecords
    BY DEF NoRun, RunRecords, Errors
  <1>3. ASSUME NEW c \in Legacy PROVE LegacyRun(c) \in RunRecords
    BY <1>3, ApplicationAssumption DEF LegacyRun, NoRun, RunRecords, Errors, Terminal
  <1>4. cli \in CliRecords /\ cli.pc = "off"
    BY DEF Init, CliRecords
  <1>5. runs \in [RunIds -> RunRecords]
    BY <1>2, <1>3 DEF Init
  <1> QED
    BY <1>1, <1>4, <1>5 DEF Init, Typed, Executing, Idle

(* A new row belongs to a connection. *)
LEMMA RowTyped ==
    ASSUME Typed, NEW j \in Jobs, job[j].pc = "next"
    PROVE  RowFor(j) \in RunRecords
  <1>1. job[j] \in JobRecords /\ job[j].todo # <<>>
    BY DEF Typed
  <1>2. Head(job[j].todo) \in Conns /\ job[j].trigger \in {"none", "schedule", "cli"}
    BY <1>1 DEF JobRecords
  <1>3. NoRun \in RunRecords
    BY DEF NoRun, RunRecords, Errors
  <1> QED
    BY <1>2, <1>3 DEF RowFor, RunRecords

(* Steps that end a run write a verdict and its alerts. *)
LEMMA EndRunTyped ==
    ASSUME Typed, NEW j \in Jobs, Executing(j), NEW fs, NEW status \in Terminal,
           NEW error \in Errors, NEW raising \in BOOLEAN,
           EndRun(j, fs, status, error, raising)
    PROVE  Typed'
  <1> DEFINE r   == job[j].run
             run == Ended(runs[r], fs, status, error, job[j].warned)
  <1>1. r \in RunIds /\ runs[r] \in RunRecords /\ job[j] \in JobRecords
    BY DEF Typed
  <1>2. run \in RunRecords
    BY <1>1, EndedTyped DEF JobRecords
  <1>3. DueFor(r, run) \subseteq AnAlert
    BY <1>1, DueTyped
  <1>4. /\ runs' = [runs EXCEPT ![r] = run]
        /\ job' = [job EXCEPT ![j] = [job[j] EXCEPT !.pc = "alerting", !.raising = raising,
                                                    !.due = DueFor(r, run)]]
        /\ cli' = cli
    BY DEF EndRun
  <1> HIDE DEF run
  <1>5. [job[j] EXCEPT !.pc = "alerting", !.raising = raising, !.due = DueFor(r, run)]
           \in JobRecords
    BY <1>1, <1>3 DEF JobRecords
  <1>6. job' \in [Jobs -> JobRecords]
    BY <1>4, <1>5 DEF Typed
  <1>7. runs' \in [RunIds -> RunRecords]
    BY <1>1, <1>2, <1>4 DEF Typed
  <1>8. job'[j].pc = "alerting" /\ \A k \in Jobs \ {j} : job'[k] = job[k]
    BY <1>1, <1>4 DEF Typed, JobRecords
  <1> QED
    BY <1>4, <1>6, <1>7, <1>8 DEF Typed, Executing

LEMMA GoneTyped ==
    ASSUME cli \in CliRecords, NEW code \in {"zero", "one"}
    PROVE  Gone(code) \in CliRecords /\ Gone(code).pc = "done"
  BY DEF Gone, CliRecords

LEMMA NewJobTyped ==
    ASSUME NEW p \in {"resident", "cli"}, NEW trigger \in {"schedule", "cli"},
           NEW todo \in Seq(Conns)
    PROVE  /\ NewJob(p, trigger, todo) \in JobRecords
           /\ NewJob(p, trigger, todo).pc = "next"
           /\ NewJob(p, trigger, todo).todo = todo
           /\ NewJob(p, trigger, todo).proc = p
  BY DEF NewJob, Idle, JobRecords

(* A step that changes one job, to a record that is well formed, and nothing
   else that Typed is about. *)
LEMMA OneJobTyped ==
    ASSUME Typed, NEW j \in Jobs, NEW new \in JobRecords,
           job' = [job EXCEPT ![j] = new],
           runs' \in [RunIds -> RunRecords],
           cli' \in CliRecords,
           cli'.pc \in {"opening", "direct", "posting"} => cli'.asked # <<>>,
           new.pc = "next" => new.todo # <<>>,
           new.pc \in {"starting", "discovering", "estimating", "downloading"} =>
             new.run \in RunIds
    PROVE  Typed'
  <1>1. job' \in [Jobs -> JobRecords]
    BY DEF Typed
  <1>2. job'[j] = new /\ \A k \in Jobs \ {j} : job'[k] = job[k]
    BY DEF Typed
  <1> QED
    BY <1>1, <1>2 DEF Typed, Executing

(* The steps of an execution that only move its thread on. *)
PcStep(j) ==
    OpenRun(j) \/ ShowBatch(j) \/ \E batch \in SUBSET Files : ClaimBatch(j, batch)

LEMMA PcMoves ==
    ASSUME Typed, NEW j \in Jobs, PcStep(j)
    PROVE  /\ UNCHANGED <<mutex, resident, cli, runs, alerts, outcome, dead>>
           /\ Executing(j) /\ Executing(j)'
           /\ job' \in [Jobs -> JobRecords]
           /\ \A k \in Jobs \ {j} : job'[k] = job[k]
           /\ \A k \in Jobs : /\ job'[k].run = job[k].run /\ job'[k].proc = job[k].proc
                             /\ job'[k].todo = job[k].todo
                             /\ job'[k].trigger = job[k].trigger
                             /\ job'[k].due = job[k].due
                             /\ job'[k].sending = job[k].sending
                             /\ job'[k].raising = job[k].raising
                             /\ job'[k].warned = job[k].warned
  <1>1. /\ UNCHANGED <<mutex, resident, cli, runs, alerts, outcome, dead>>
        /\ job[j].pc \in {"starting", "estimating", "downloading"}
    BY DEF PcStep, OpenRun, ShowBatch, ClaimBatch, dbVars
  <1>2. PICK pc \in {"discovering", "estimating", "downloading"} :
          job' = [job EXCEPT ![j] = [job[j] EXCEPT !.pc = pc]]
    BY DEF PcStep, OpenRun, ShowBatch, ClaimBatch
  <1>3. job[j] \in JobRecords
    BY DEF Typed
  <1>4. [job[j] EXCEPT !.pc = pc] \in JobRecords
    BY <1>3 DEF JobRecords
  <1>5. job'[j] = [job[j] EXCEPT !.pc = pc] /\ \A k \in Jobs \ {j} : job'[k] = job[k]
    BY <1>2 DEF Typed
  <1>6. /\ job'[j].pc = pc /\ job'[j].run = job[j].run /\ job'[j].proc = job[j].proc
        /\ job'[j].todo = job[j].todo /\ job'[j].trigger = job[j].trigger
        /\ job'[j].due = job[j].due /\ job'[j].sending = job[j].sending
        /\ job'[j].raising = job[j].raising /\ job'[j].warned = job[j].warned
    BY <1>3, <1>5 DEF JobRecords
  <1>7. job' \in [Jobs -> JobRecords]
    BY <1>2, <1>4 DEF Typed
  <1> QED
    BY <1>1, <1>5, <1>6, <1>7 DEF Executing

LEMMA OverTyped ==
    ASSUME Typed, NEW j \in Jobs, NEW code \in {"zero", "one"}, Over(j, code),
           runs' \in [RunIds -> RunRecords]
    PROVE  Typed'
  <1>1. Idle \in JobRecords /\ Idle.pc = "idle"
    BY DEF Idle, JobRecords
  <1>2. cli' \in CliRecords
    BY GoneTyped DEF Over, Typed
  <1>3. cli'.pc \in {"opening", "direct", "posting"} => cli'.asked # <<>>
    BY GoneTyped DEF Over, Typed
  <1>4. job' = [job EXCEPT ![j] = Idle]
    BY DEF Over
  <1> QED
    BY <1>1, <1>2, <1>3, <1>4, OneJobTyped

(* Every row that is still running is closed. *)
LEMMA RecoverTyped ==
    ASSUME Typed, Recover
    PROVE  /\ runs' \in [RunIds -> RunRecords]
           /\ \A r \in RunIds : runs'[r].status # "running"
           /\ \A r \in RunIds : runs'[r].conn = runs[r].conn
  <1>1. ASSUME NEW r \in RunIds, runs[r].status = "running"
        PROVE  /\ runs'[r] \in RunRecords
               /\ runs'[r].status = "failed"
               /\ runs'[r].conn = runs[r].conn
    <2>1. runs[r] \in RunRecords
      BY DEF Typed
    <2>2. runs'[r] = Ended(runs[r], rows'[r], "failed", "interrupted", runs[r].warned)
      BY <1>1 DEF Recover
    <2>3. runs[r].warned \in BOOLEAN
      BY <2>1 DEF RunRecords
    <2>4. "failed" \in Terminal /\ "interrupted" \in Errors
      BY DEF Terminal, Errors
    <2> QED
      BY <2>1, <2>2, <2>3, <2>4, EndedTyped
  <1>2. ASSUME NEW r \in RunIds, runs[r].status # "running"
        PROVE  runs'[r] = runs[r] /\ runs'[r] \in RunRecords
    BY <1>2 DEF Recover, Typed
  <1>3. runs' = [r \in RunIds |-> runs'[r]]
    BY DEF Recover
  <1>4. runs' \in [RunIds -> RunRecords]
    BY <1>1, <1>2, <1>3
  <1> QED
    BY <1>1, <1>2, <1>4

LEMMA DieTyped ==
    ASSUME Typed, NEW p, Die(p), UNCHANGED runs,
           cli' \in CliRecords,
           cli'.pc \in {"opening", "direct", "posting"} => cli'.asked # <<>>
    PROVE  Typed'
  <1>1. Idle \in JobRecords /\ Idle.pc = "idle"
    BY DEF Idle, JobRecords
  <1>2. job' \in [Jobs -> JobRecords]
    BY <1>1 DEF Die, Typed
  <1>3. \A j \in Jobs : job'[j] \in {Idle, job[j]}
    BY DEF Die
  <1> QED
    BY <1>1, <1>2, <1>3 DEF Typed, Executing

LEMMA TypedStep == Typed /\ [Next]_vars => Typed'
  <1> SUFFICES ASSUME Typed, [Next]_vars PROVE Typed'
    OBVIOUS
  <1>j. ASSUME NEW j \in Jobs PROVE job[j] \in JobRecords
    BY DEF Typed
  <1>1. CASE ResidentStart
    BY <1>1 DEF ResidentStart, dbVars, jobVars, Typed, Executing
  <1>2. CASE ResidentOpen
    BY <1>2, RecoverTyped DEF ResidentOpen, jobVars, Typed, Executing
  <1>3. CASE Exit
    BY <1>3 DEF Exit, dbVars, jobVars, Typed, Executing
  <1>4. CASE Exited
    BY <1>4 DEF Exited, dbVars, jobVars, Typed, Executing
  <1>5. CASE CrashResident
    <2>1. cli' \in CliRecords /\ (cli'.pc \in {"opening", "direct", "posting"} => cli'.asked # <<>>)
      BY <1>5, GoneTyped DEF CrashResident, Typed
    <2> QED
      BY <1>5, <2>1, DieTyped DEF CrashResident, dbVars
  <1>6. CASE CrashCli
    <2>1. cli' \in CliRecords /\ (cli'.pc \in {"opening", "direct", "posting"} => cli'.asked # <<>>)
      BY <1>6, GoneTyped DEF CrashCli, Typed
    <2> QED
      BY <1>6, <2>1, DieTyped DEF CrashCli, dbVars
  <1>7. ASSUME NEW order \in Orders, OrderDirect(order) \/ OrderDelegated(order)
        PROVE  Typed'
    BY <1>7, ApplicationAssumption
    DEF OrderDirect, OrderDelegated, dbVars, jobVars, Typed, Executing, CliRecords
  <1>8. ASSUME NEW j \in Jobs, OpenCli(j)
        PROVE  Typed'
    <2>1. cli.asked \in Seq(Conns) /\ cli.asked # <<>>
      BY <1>8 DEF OpenCli, Typed, CliRecords
    <2>2. cli' \in CliRecords /\ cli'.asked = cli.asked
      BY <1>8 DEF OpenCli, Typed, CliRecords
    <2>3. runs' \in [RunIds -> RunRecords]
      BY <1>8, RecoverTyped DEF OpenCli
    <2>4. job' = [job EXCEPT ![j] = NewJob("cli", "cli", cli.asked)]
      BY <1>8 DEF OpenCli
    <2>5. /\ NewJob("cli", "cli", cli.asked) \in JobRecords
          /\ NewJob("cli", "cli", cli.asked).pc = "next"
          /\ NewJob("cli", "cli", cli.asked).todo # <<>>
      BY <2>1, NewJobTyped
    <2> QED
      BY <2>1, <2>2, <2>3, <2>4, <2>5, OneJobTyped
  <1>9. ASSUME NEW j \in Jobs, Post(j)
        PROVE  Typed'
    <2>1. cli.asked \in Seq(Conns) /\ cli.asked # <<>>
      BY <1>9 DEF Post, Typed, CliRecords
    <2>2. cli' \in CliRecords /\ cli'.asked = cli.asked
      BY <1>9 DEF Post, Typed, CliRecords
    <2>3. runs' \in [RunIds -> RunRecords]
      BY <1>9 DEF Post, dbVars, Typed
    <2>4. job' = [job EXCEPT ![j] = NewJob("resident", "cli", cli.asked)]
      BY <1>9 DEF Post
    <2>5. /\ NewJob("resident", "cli", cli.asked) \in JobRecords
          /\ NewJob("resident", "cli", cli.asked).pc = "next"
          /\ NewJob("resident", "cli", cli.asked).todo # <<>>
      BY <2>1, NewJobTyped
    <2> QED
      BY <2>1, <2>2, <2>3, <2>4, <2>5, OneJobTyped
  <1>10. CASE PostRefused
    <2>1. cli' \in CliRecords /\ (cli'.pc \in {"opening", "direct", "posting"} => cli'.asked # <<>>)
      <3>1. CASE cli' = Gone("one")
        BY <3>1, GoneTyped DEF Typed
      <3>2. CASE cli' = [cli EXCEPT !.tries = @ + 1]
        BY <3>2 DEF Typed, CliRecords
      <3> QED
        BY <1>10, <3>1, <3>2 DEF PostRefused
    <2> QED
      BY <1>10, <2>1 DEF PostRefused, dbVars, jobVars, Typed, Executing
  <1>11. CASE Timeout
    <2>1. cli' \in CliRecords /\ (cli'.pc \in {"opening", "direct", "posting"} => cli'.asked # <<>>)
      BY <1>11, GoneTyped DEF Timeout, GiveUp, Typed
    <2> QED
      BY <1>11, <2>1 DEF Timeout, dbVars, jobVars, Typed, Executing
  <1>12. ASSUME NEW j \in Jobs, NEW c \in Conns, SchedulerJob(j, c)
         PROVE  Typed'
    <2> DEFINE todo == <<c>>
    <2>1. todo \in Seq(Conns) /\ todo # <<>>
      OBVIOUS
    <2>2. job' = [job EXCEPT ![j] = NewJob("resident", "schedule", todo)]
          /\ UNCHANGED <<runs, cli>>
      BY <1>12 DEF SchedulerJob, dbVars
    <2> HIDE DEF todo
    <2>3. /\ NewJob("resident", "schedule", todo) \in JobRecords
          /\ NewJob("resident", "schedule", todo).pc = "next"
          /\ NewJob("resident", "schedule", todo).todo # <<>>
      BY <2>1, NewJobTyped
    <2> QED
      BY <2>2, <2>3, OneJobTyped DEF Typed
  <1>13. ASSUME NEW j \in Jobs, RefuseRun(j)
         PROVE  Typed'
    <2>1. runs' \in [RunIds -> RunRecords]
      BY <1>13 DEF RefuseRun, dbVars, Typed
    <2> QED
      BY <1>13, <2>1, OverTyped DEF RefuseRun, Raise
  <1>14. ASSUME NEW j \in Jobs, NEW r \in RunIds, BeginRun(j, r)
         PROVE  Typed'
    <2>1. job[j].pc = "next"
      BY <1>14 DEF BeginRun, Insert
    <2>2. runs' \in [RunIds -> RunRecords]
      BY <1>14, <2>1, RowTyped DEF BeginRun, Typed
    <2>t. Tail(job[j].todo) \in Seq(Conns)
      BY <1>j, <2>1 DEF JobRecords, Typed
    <2>3. [job[j] EXCEPT !.pc = "starting", !.run = r, !.todo = Tail(@), !.warned = FALSE]
             \in JobRecords
      BY <1>j, <2>t DEF JobRecords
    <2>4. /\ job' = [job EXCEPT ![j] = [job[j] EXCEPT !.pc = "starting", !.run = r,
                                                      !.todo = Tail(@), !.warned = FALSE]]
          /\ cli' = cli
      BY <1>14 DEF BeginRun
    <2> QED
      BY <1>j, <2>2, <2>3, <2>4, OneJobTyped DEF Typed, JobRecords
  <1>15. ASSUME NEW j \in Jobs, NEW r \in RunIds, NEW error \in Faults \ {"disk_space"},
                FailPreflight(j, r, error)
         PROVE  Typed'
    <2> DEFINE run == [RowFor(j) EXCEPT !.status = "failed", !.error = error]
               new == [job[j] EXCEPT !.pc = "alerting", !.run = r, !.todo = Tail(@),
                                     !.due = DueFor(r, run), !.raising = TRUE]
    <2>1. job[j].pc = "next"
      BY <1>15 DEF FailPreflight, Insert
    <2>2. run \in RunRecords
      BY <2>1, RowTyped, ApplicationAssumption DEF RunRecords, Errors, Terminal
    <2>3. runs' = [runs EXCEPT ![r] = run] /\ job' = [job EXCEPT ![j] = new] /\ cli' = cli
      BY <1>15 DEF FailPreflight
    <2>4. runs' \in [RunIds -> RunRecords]
      BY <2>2, <2>3 DEF Typed
    <2>5. DueFor(r, run) \subseteq AnAlert
      BY DueTyped
    <2>t. Tail(job[j].todo) \in Seq(Conns)
      BY <1>j, <2>1 DEF JobRecords, Typed
    <2>6. new \in JobRecords /\ new.pc = "alerting"
      <3> HIDE DEF run
      <3> QED
        BY <1>j, <2>5, <2>t DEF JobRecords
    <2> QED
      BY <2>3, <2>4, <2>6, OneJobTyped DEF Typed
  <1>16. ASSUME NEW j \in Jobs, NEW batch \in SUBSET Files, AddBatch(j, batch)
         PROVE  Typed'
    <2> DEFINE r   == job[j].run
               new == [job[j] EXCEPT !.warned = @ \/ batch \cap Forbidden # {}]
    <2>1. r \in RunIds /\ runs[r] \in RunRecords
      BY <1>16 DEF AddBatch, Typed, Executing
    <2>2. Cardinality(batch) \in Nat
      BY FS_Subset, FS_CardinalityType, ApplicationAssumption
    <2>3. /\ runs' = [runs EXCEPT ![r] = [runs[r] EXCEPT !.found = @ + Cardinality(batch)]]
          /\ job' = [job EXCEPT ![j] = new]
          /\ cli' = cli
      BY <1>16 DEF AddBatch
    <2>4. [runs[r] EXCEPT !.found = @ + Cardinality(batch)] \in RunRecords
      BY <2>1, <2>2 DEF RunRecords
    <2>5. runs' \in [RunIds -> RunRecords]
      BY <2>3, <2>4 DEF Typed
    <2>6. new \in JobRecords /\ new.pc = "discovering" /\ new.run = r
      BY <1>16, <1>j DEF AddBatch, JobRecords
    <2> QED
      BY <2>1, <2>3, <2>5, <2>6, OneJobTyped DEF Typed
  <1>17. ASSUME NEW j \in Jobs, NEW found \in 0..Cardinality(Files), EndListing(j, found)
         PROVE  Typed'
    <2> DEFINE r   == job[j].run
               new == [job[j] EXCEPT !.pc = "downloading"]
    <2>1. r \in RunIds /\ runs[r] \in RunRecords
      BY <1>17 DEF EndListing, Typed, Executing
    <2>2. /\ runs' = [runs EXCEPT ![r] = [runs[r] EXCEPT !.found = found]]
          /\ job' = [job EXCEPT ![j] = new]
          /\ cli' = cli
      BY <1>17 DEF EndListing
    <2>f. found \in Nat
      BY FS_CardinalityType, ApplicationAssumption
    <2>3. runs' \in [RunIds -> RunRecords]
      BY <2>1, <2>2, <2>f DEF RunRecords, Typed
    <2>4. new \in JobRecords /\ new.pc = "downloading" /\ new.run = r
      BY <1>17, <1>j DEF EndListing, JobRecords
    <2> QED
      BY <2>1, <2>2, <2>3, <2>4, OneJobTyped DEF Typed
  <1>18. ASSUME NEW j \in Jobs, PcStep(j)
         PROVE  Typed'
    BY <1>18, PcMoves DEF Typed, Executing
  <1>19. ASSUME NEW j \in Jobs, NEW f \in Files, NEW result \in {"ok", "failed"},
                WorkerDone(j, f, result)
         PROVE  Typed'
    BY <1>19 DEF WorkerDone, dbVars, Typed, Executing
  <1>20. ASSUME NEW j \in Jobs, RecordBatch(j)
         PROVE  Typed'
    BY <1>20 DEF RecordBatch, Typed, Executing
  <1>21. ASSUME NEW j \in Jobs, Verdict(j)
         PROVE  Typed'
    <2> DEFINE status == StatusOf(rows[job[j].run], job[j].warned)
               error  == IF job[j].warned THEN "path_invalid" ELSE "none"
    <2>1. status \in Terminal
      BY StatusTyped
    <2>2. error \in Errors
      BY DEF Errors
    <2>3. EndRun(j, rows[job[j].run], status, error, FALSE) /\ Executing(j)
      BY <1>21 DEF Verdict, Executing
    <2> HIDE DEF status, error
    <2> QED
      BY <2>1, <2>2, <2>3, EndRunTyped
  <1>22. ASSUME NEW j \in Jobs, NEW error \in Faults \ {"disk_space"}, OpenCircuit(j, error)
         PROVE  Typed'
    <2> DEFINE fs     == FailUnfinished(rows[job[j].run])
               status == StatusOf(fs, job[j].warned)
    <2>1. status \in Terminal
      BY StatusTyped
    <2>2. error \in Errors
      BY ApplicationAssumption DEF Errors
    <2>3. EndRun(j, fs, status, error, FALSE) /\ Executing(j)
      BY <1>22 DEF OpenCircuit, Executing
    <2> HIDE DEF status, fs
    <2> QED
      BY <2>1, <2>2, <2>3, EndRunTyped
  <1>23. ASSUME NEW j \in Jobs, NEW error \in Faults, Fail(j, error)
         PROVE  Typed'
    <2>1. error \in Errors /\ "failed" \in Terminal
      BY ApplicationAssumption DEF Errors, Terminal
    <2>2. EndRun(j, FailUnfinished(rows[job[j].run]), "failed", error, TRUE) /\ Executing(j)
      BY <1>23 DEF Fail
    <2> QED
      BY <2>1, <2>2, EndRunTyped
  <1>24. ASSUME NEW j \in Jobs, TakeAlert(j)
         PROVE  Typed'
    <2> DEFINE a == CHOOSE a \in job[j].due : TRUE
    <2>1. /\ job[j].pc = "alerting" /\ a \in job[j].due
          /\ UNCHANGED <<cli, runs>>
      BY <1>24 DEF TakeAlert
    <2>2. \/ job' = [job EXCEPT ![j] = [job[j] EXCEPT !.due = @ \ {a}]]
          \/ job' = [job EXCEPT ![j] = [job[j] EXCEPT !.due = @ \ {a}, !.sending = {a}]]
      BY <1>24 DEF TakeAlert
    <2> HIDE DEF a
    <2>3. /\ [job[j] EXCEPT !.due = @ \ {a}] \in JobRecords
          /\ [job[j] EXCEPT !.due = @ \ {a}].pc = "alerting"
      BY <1>j, <2>1 DEF JobRecords
    <2>4. /\ [job[j] EXCEPT !.due = @ \ {a}, !.sending = {a}] \in JobRecords
          /\ [job[j] EXCEPT !.due = @ \ {a}, !.sending = {a}].pc = "alerting"
      BY <1>j, <2>1 DEF JobRecords
    <2> QED
      BY <2>1, <2>2, <2>3, <2>4, OneJobTyped DEF Typed
  <1>25. ASSUME NEW j \in Jobs, Send(j)
         PROVE  Typed'
    <2>1. PICK a \in job[j].sending :
             job' = [job EXCEPT ![j] = [job[j] EXCEPT !.sending = {}, !.due = Rest(j, a)]]
      BY <1>25 DEF Send
    <2>2. UNCHANGED <<cli, runs>>
      BY <1>25 DEF Send
    <2>3. [job[j] EXCEPT !.sending = {}, !.due = Rest(j, a)] \in JobRecords
      BY <1>j, <2>1 DEF JobRecords, Rest
    <2>4. \A k \in Jobs : job'[k].pc = job[k].pc /\ job'[k].run = job[k].run
                          /\ job'[k].todo = job[k].todo
      BY <1>j, <2>1 DEF JobRecords, Typed
    <2>5. job' \in [Jobs -> JobRecords]
      BY <2>1, <2>3 DEF Typed
    <2> QED
      BY <2>2, <2>4, <2>5 DEF Typed, Executing
  <1>26. ASSUME NEW j \in Jobs, CloseRun(j)
         PROVE  Typed'
    <2>1. runs' \in [RunIds -> RunRecords]
      BY <1>26 DEF CloseRun, dbVars, Typed
    <2>2. CASE Over(j, "one") \/ Over(j, "zero")
      BY <2>1, <2>2, OverTyped
    <2>3. CASE /\ job[j].todo # <<>>
               /\ job' = [job EXCEPT ![j] = [job[j] EXCEPT !.pc = "next", !.run = 0]]
               /\ UNCHANGED cli
      <3>1. /\ [job[j] EXCEPT !.pc = "next", !.run = 0] \in JobRecords
            /\ [job[j] EXCEPT !.pc = "next", !.run = 0].todo = job[j].todo
            /\ [job[j] EXCEPT !.pc = "next", !.run = 0].pc = "next"
        BY <1>j DEF JobRecords
      <3> QED
        BY <2>1, <2>3, <3>1, OneJobTyped DEF Typed
    <2> QED
      BY <1>26, <2>2, <2>3 DEF CloseRun, Raise
  <1>27. CASE UNCHANGED vars
    BY <1>27 DEF vars, dbVars, jobVars, Typed, Executing
  <1> QED
    BY <1>1, <1>2, <1>3, <1>4, <1>5, <1>6, <1>7, <1>8, <1>9, <1>10, <1>11, <1>12, <1>13,
       <1>14, <1>15, <1>16, <1>17, <1>18, <1>19, <1>20, <1>21, <1>22, <1>23, <1>24, <1>25,
       <1>26, <1>27
    DEF Next, Processes, CommandLine, JobStep, PcStep

-----------------------------------------------------------------------------
(* Who has the mutex and which process has threads. *)

Owner ==
    /\ ~Overlap
    /\ resident \in {"off", "opening", "serving", "exiting"}
    /\ mutex = "resident" <=> resident \in {"opening", "serving"}
    /\ mutex = "cli" <=> cli.pc \in {"opening", "direct"}
    /\ cli.pc \in {"opening", "direct"} => resident = "off"

Hands ==
    \A j \in Jobs : job[j].pc # "idle" =>
        \/ job[j].proc = "resident" /\ resident \in {"serving", "exiting"}
        \/ job[j].proc = "cli" /\ cli.pc = "direct"

OneThreadOfCli ==
    \A j, k \in Jobs :
        /\ job[j].pc # "idle" /\ job[j].proc = "cli"
        /\ job[k].pc # "idle" /\ job[k].proc = "cli"
        => j = k

Processed == Owner /\ Hands /\ OneThreadOfCli

LEMMA InitProcessed == Init /\ ~Overlap => Processed
  BY DEF Init, Processed, Owner, Hands, OneThreadOfCli, Idle

(* A job that goes on, in the process where it began. *)
LEMMA JobGoesOn ==
    ASSUME Typed, Processed, UNCHANGED <<mutex, resident, cli>>,
           job' \in [Jobs -> JobRecords],
           \A k \in Jobs : job'[k].pc # "idle" =>
               job[k].pc # "idle" /\ job'[k].proc = job[k].proc
    PROVE  Processed'
  BY DEF Processed, Owner, Hands, OneThreadOfCli

LEMMA JobKept ==
    ASSUME Typed, Typed', Processed, NEW j \in Jobs, NEW new,
           job' = [job EXCEPT ![j] = new], job[j].pc # "idle",
           new.proc = job[j].proc, UNCHANGED <<mutex, resident, cli>>
    PROVE  Processed'
  <1>1. \A k \in Jobs : job'[k].pc # "idle" =>
            job[k].pc # "idle" /\ job'[k].proc = job[k].proc
    BY DEF Typed
  <1> QED
    BY <1>1, JobGoesOn DEF Typed

(* A step of the evaluation of alerts changes what is due and being sent. *)
LEMMA AlertKeepsJob ==
    ASSUME Typed, NEW j \in Jobs, TakeAlert(j) \/ Send(j)
    PROVE  /\ UNCHANGED <<mutex, resident, cli, runs>>
           /\ \A k \in Jobs : /\ job'[k].pc = job[k].pc /\ job'[k].proc = job[k].proc
                              /\ job'[k].run = job[k].run
  <1>j. job[j] \in JobRecords /\ job \in [Jobs -> JobRecords]
    BY DEF Typed
  <1>1. CASE TakeAlert(j)
    <2> DEFINE due == job[j].due \ {CHOOSE a \in job[j].due : TRUE}
               sending == {CHOOSE a \in job[j].due : TRUE}
    <2>1. UNCHANGED <<mutex, resident, cli, runs>>
      BY <1>1 DEF TakeAlert
    <2>2. \/ job' = [job EXCEPT ![j] = [job[j] EXCEPT !.due = due]]
          \/ job' = [job EXCEPT ![j] = [job[j] EXCEPT !.due = due, !.sending = sending]]
      BY <1>1 DEF TakeAlert
    <2> HIDE DEF due, sending
    <2>3. CASE job' = [job EXCEPT ![j] = [job[j] EXCEPT !.due = due]]
      BY <1>j, <2>1, <2>3 DEF JobRecords
    <2>4. CASE job' = [job EXCEPT ![j] = [job[j] EXCEPT !.due = due, !.sending = sending]]
      BY <1>j, <2>1, <2>4 DEF JobRecords
    <2> QED
      BY <2>2, <2>3, <2>4
  <1>2. CASE Send(j)
    <2>1. UNCHANGED <<mutex, resident, cli, runs>>
      BY <1>2 DEF Send
    <2>2. PICK a \in job[j].sending :
             job' = [job EXCEPT ![j] = [job[j] EXCEPT !.sending = {}, !.due = Rest(j, a)]]
      BY <1>2 DEF Send
    <2> DEFINE due == Rest(j, a)
    <2>3. job' = [job EXCEPT ![j] = [job[j] EXCEPT !.sending = {}, !.due = due]]
      BY <2>2
    <2> HIDE DEF due
    <2> QED
      BY <1>j, <2>1, <2>3 DEF JobRecords
  <1> QED
    BY <1>1, <1>2

(* The three ways in which the execution of a run ends. *)
LEMMA Ends ==
    ASSUME Typed, NEW j \in Jobs, NEW error,
           Verdict(j) \/ OpenCircuit(j, error) \/ Fail(j, error)
    PROVE  /\ Executing(j)
           /\ \E fs, status, err, raising : EndRun(j, fs, status, err, raising)
  <1>1. CASE Verdict(j)
    <2> DEFINE fs  == rows[job[j].run]
               status == StatusOf(fs, job[j].warned)
               err == IF job[j].warned THEN "path_invalid" ELSE "none"
    <2>1. EndRun(j, fs, status, err, FALSE) /\ Executing(j)
      BY <1>1 DEF Verdict, Executing
    <2> HIDE DEF fs, status, err
    <2> QED
      BY <2>1
  <1>2. CASE OpenCircuit(j, error)
    <2> DEFINE fs  == FailUnfinished(rows[job[j].run])
               status == StatusOf(fs, job[j].warned)
    <2>1. EndRun(j, fs, status, error, FALSE) /\ Executing(j)
      BY <1>2 DEF OpenCircuit, Executing
    <2> HIDE DEF fs, status
    <2> QED
      BY <2>1
  <1>3. CASE Fail(j, error)
    <2> DEFINE fs  == FailUnfinished(rows[job[j].run])
    <2>1. EndRun(j, fs, "failed", error, TRUE) /\ Executing(j)
      BY <1>3 DEF Fail
    <2> HIDE DEF fs
    <2> QED
      BY <2>1
  <1> QED
    BY <1>1, <1>2, <1>3

LEMMA JobEnds ==
    ASSUME Typed, Processed, NEW j \in Jobs, job[j].pc # "idle",
           NEW code, Over(j, code), UNCHANGED resident
    PROVE  Processed'
  <1>1. job'[j].pc = "idle" /\ \A k \in Jobs \ {j} : job'[k] = job[k]
    BY DEF Over, Typed, Idle
  <1>2. CASE job[j].proc = "cli"
    <2>1. mutex' = "none" /\ cli'.pc = "done"
      BY <1>2 DEF Over, Gone
    <2>2. cli.pc = "direct" /\ resident = "off"
      BY <1>2 DEF Processed, Hands, Owner
    <2>3. \A k \in Jobs : job'[k].pc = "idle"
      BY <1>1, <1>2, <2>2 DEF Processed, Hands, OneThreadOfCli
    <2> QED
      BY <2>1, <2>2, <2>3 DEF Processed, Owner, Hands, OneThreadOfCli
  <1>3. CASE job[j].proc # "cli"
    <2>1. mutex' = mutex
      BY <1>3 DEF Over
    <2>2. cli' = cli \/ (cli.pc = "waiting" /\ cli'.pc = "done")
      BY <1>3 DEF Over, Gone
    <2> QED
      BY <1>1, <2>1, <2>2 DEF Processed, Owner, Hands, OneThreadOfCli
  <1> QED
    BY <1>2, <1>3

LEMMA ProcessedStep == Typed /\ Processed /\ [Next]_vars => Processed'
  <1> SUFFICES ASSUME Typed, Processed, [Next]_vars PROVE Processed'
    OBVIOUS
  <1>t. Typed'
    BY TypedStep
  <1>j. ASSUME NEW j \in Jobs PROVE job[j] \in JobRecords
    BY DEF Typed
  <1>1. CASE ResidentStart
    BY <1>1 DEF ResidentStart, Acquires, jobVars, Processed, Owner, Hands, OneThreadOfCli
  <1>2. CASE ResidentOpen
    BY <1>2 DEF ResidentOpen, jobVars, Processed, Owner, Hands, OneThreadOfCli
  <1>3. CASE Exit
    BY <1>3 DEF Exit, jobVars, Processed, Owner, Hands, OneThreadOfCli
  <1>4. CASE Exited
    BY <1>4 DEF Exited, JobsOf, jobVars, Processed, Owner, Hands, OneThreadOfCli
  <1>5. CASE CrashResident
    <2>1. \A j \in Jobs : job'[j].pc # "idle" => job'[j] = job[j] /\ job[j].proc # "resident"
      BY <1>5 DEF CrashResident, Die, Idle
    <2>2. cli' = cli \/ (cli.pc = "waiting" /\ cli'.pc = "done")
      BY <1>5 DEF CrashResident, Gone
    <2>3. resident # "off" /\ resident' = "off"
          /\ mutex' = IF mutex = "resident" THEN "none" ELSE mutex
      BY <1>5 DEF CrashResident
    <2> QED
      BY <2>1, <2>2, <2>3 DEF Processed, Owner, Hands, OneThreadOfCli
  <1>6. CASE CrashCli
    <2>1. \A j \in Jobs : job'[j].pc # "idle" => job'[j] = job[j] /\ job[j].proc # "cli"
      BY <1>6 DEF CrashCli, Die, Idle
    <2>2. cli.pc \in {"opening", "direct"} /\ cli'.pc = "done" /\ mutex' = "none"
          /\ resident' = resident
      BY <1>6 DEF CrashCli, Gone
    <2> QED
      BY <2>1, <2>2 DEF Processed, Owner, Hands, OneThreadOfCli
  <1>7. ASSUME NEW order \in Orders, OrderDirect(order)
        PROVE  Processed'
    <2>1. cli.pc = "off" /\ cli'.pc = "opening"
      BY <1>7 DEF OrderDirect, Typed, CliRecords
    <2>2. resident = "off"
      BY <1>7, <2>1 DEF OrderDirect, Acquires, Processed, Owner
    <2> QED
      BY <1>7, <2>1, <2>2 DEF OrderDirect, jobVars, Processed, Owner, Hands, OneThreadOfCli
  <1>8. ASSUME NEW order \in Orders, OrderDelegated(order)
        PROVE  Processed'
    <2>1. cli.pc = "off" /\ cli'.pc = "posting"
      BY <1>8 DEF OrderDelegated, Typed, CliRecords
    <2> QED
      BY <1>8, <2>1 DEF OrderDelegated, jobVars, Processed, Owner, Hands, OneThreadOfCli
  <1>9. ASSUME NEW j \in Jobs, OpenCli(j)
        PROVE  Processed'
    <2>1. cli.pc = "opening" /\ cli'.pc = "direct" /\ UNCHANGED <<mutex, resident>>
      BY <1>9 DEF OpenCli, Typed, CliRecords
    <2>2. \A k \in Jobs : job[k].pc = "idle"
      BY <2>1 DEF Processed, Owner, Hands
    <2>3. job'[j].proc = "cli" /\ \A k \in Jobs \ {j} : job'[k] = job[k]
      BY <1>9 DEF OpenCli, Typed, NewJob, Idle
    <2> QED
      BY <2>1, <2>2, <2>3 DEF Processed, Owner, Hands, OneThreadOfCli
  <1>10. ASSUME NEW j \in Jobs, Post(j)
         PROVE  Processed'
    <2>1. cli.pc = "posting" /\ cli'.pc = "waiting" /\ UNCHANGED <<mutex, resident>>
          /\ resident = "serving"
      BY <1>10 DEF Post, Typed, CliRecords
    <2>2. job'[j].proc = "resident" /\ \A k \in Jobs \ {j} : job'[k] = job[k]
      BY <1>10 DEF Post, Typed, NewJob, Idle
    <2> QED
      BY <2>1, <2>2 DEF Processed, Owner, Hands, OneThreadOfCli
  <1>11. CASE PostRefused \/ Timeout
    <2>1. cli.pc \in {"posting", "waiting"} /\ cli'.pc \in {"posting", "done"}
      BY <1>11 DEF PostRefused, Timeout, GiveUp, Gone, Typed, CliRecords
    <2> QED
      BY <1>11, <2>1 DEF PostRefused, Timeout, jobVars, Processed, Owner, Hands, OneThreadOfCli
  <1>12. ASSUME NEW j \in Jobs, NEW c \in Conns, SchedulerJob(j, c)
         PROVE  Processed'
    <2>1. job'[j].proc = "resident" /\ \A k \in Jobs \ {j} : job'[k] = job[k]
      BY <1>12 DEF SchedulerJob, Typed, NewJob, Idle
    <2> QED
      BY <1>12, <2>1 DEF SchedulerJob, Processed, Owner, Hands, OneThreadOfCli
  <1>13. ASSUME NEW j \in Jobs, RefuseRun(j)
         PROVE  Processed'
    BY <1>13, JobEnds DEF RefuseRun, Raise
  <1>14. ASSUME NEW j \in Jobs, NEW r \in RunIds, BeginRun(j, r)
         PROVE  Processed'
    <2>1. job[j].pc = "next"
          /\ job' = [job EXCEPT ![j] = [job[j] EXCEPT !.pc = "starting", !.run = r,
                                                      !.todo = Tail(@), !.warned = FALSE]]
          /\ UNCHANGED <<mutex, resident, cli>>
      BY <1>14 DEF BeginRun, Insert
    <2> QED
      BY <1>t, <2>1, JobGoesOn DEF Typed, JobRecords
  <1>15. ASSUME NEW j \in Jobs, NEW r \in RunIds, NEW error, FailPreflight(j, r, error)
         PROVE  Processed'
    <2>1. PICK due : job' = [job EXCEPT ![j] =
             [job[j] EXCEPT !.pc = "alerting", !.run = r, !.todo = Tail(@),
                            !.due = due, !.raising = TRUE]]
      BY <1>15 DEF FailPreflight
    <2>2. job[j].pc = "next" /\ UNCHANGED <<mutex, resident, cli>>
      BY <1>15 DEF FailPreflight, Insert
    <2> QED
      BY <1>t, <2>1, <2>2, JobGoesOn DEF Typed, JobRecords
  <1>16. ASSUME NEW j \in Jobs, NEW batch \in SUBSET Files, AddBatch(j, batch)
         PROVE  Processed'
    <2> DEFINE warned == job[j].warned \/ batch \cap Forbidden # {}
               new    == [job[j] EXCEPT !.warned = warned]
    <2>1. job' = [job EXCEPT ![j] = new] /\ UNCHANGED <<mutex, resident, cli>>
          /\ job[j].pc = "discovering"
      BY <1>16 DEF AddBatch
    <2> HIDE DEF warned
    <2>2. new.pc = job[j].pc /\ new.proc = job[j].proc
      BY <1>j DEF JobRecords
    <2> QED
      BY <1>t, <2>1, <2>2, JobKept
  <1>17. ASSUME NEW j \in Jobs, NEW found, EndListing(j, found)
         PROVE  Processed'
    <2>1. job' = [job EXCEPT ![j] = [job[j] EXCEPT !.pc = "downloading"]]
          /\ job[j].pc = "discovering" /\ UNCHANGED <<mutex, resident, cli>>
      BY <1>17 DEF EndListing
    <2>2. [job[j] EXCEPT !.pc = "downloading"].proc = job[j].proc
      BY <1>j DEF JobRecords
    <2> QED
      BY <1>t, <2>1, <2>2, JobKept
  <1>18. ASSUME NEW j \in Jobs, PcStep(j)
         PROVE  Processed'
    BY <1>18, <1>t, PcMoves, JobGoesOn DEF Typed, Executing
  <1>19. ASSUME NEW j \in Jobs, NEW f, NEW result, WorkerDone(j, f, result)
         PROVE  Processed'
    BY <1>19, <1>t, JobGoesOn DEF WorkerDone, Typed
  <1>20. ASSUME NEW j \in Jobs, RecordBatch(j)
         PROVE  Processed'
    BY <1>20, <1>t, JobGoesOn DEF RecordBatch, Typed
  <1>21. ASSUME NEW j \in Jobs, NEW fs, NEW status, NEW error, NEW raising,
                Executing(j), EndRun(j, fs, status, error, raising)
         PROVE  Processed'
    <2>1. PICK due : job' = [job EXCEPT ![j] =
             [job[j] EXCEPT !.pc = "alerting", !.raising = raising, !.due = due]]
      BY <1>21 DEF EndRun
    <2>2. UNCHANGED <<mutex, resident, cli>>
      BY <1>21 DEF EndRun
    <2> QED
      BY <1>21, <1>t, <2>1, <2>2, JobGoesOn DEF Executing, Typed, JobRecords
  <1>22. ASSUME NEW j \in Jobs, TakeAlert(j) \/ Send(j)
         PROVE  Processed'
    <2>1. /\ UNCHANGED <<mutex, resident, cli, runs>>
          /\ \A k \in Jobs : job'[k].pc = job[k].pc /\ job'[k].proc = job[k].proc
      BY <1>22, AlertKeepsJob
    <2> QED
      BY <1>t, <2>1, JobGoesOn DEF Typed
  <1>23. ASSUME NEW j \in Jobs, CloseRun(j)
         PROVE  Processed'
    <2>1. job[j].pc = "alerting" /\ UNCHANGED resident
      BY <1>23 DEF CloseRun
    <2>2. CASE Over(j, "one") \/ Over(j, "zero")
      BY <2>1, <2>2, JobEnds
    <2>3. CASE job' = [job EXCEPT ![j] = [job[j] EXCEPT !.pc = "next", !.run = 0]]
               /\ UNCHANGED <<cli, mutex>>
      BY <1>t, <2>1, <2>3, JobGoesOn DEF Typed, JobRecords
    <2> QED
      BY <1>23, <2>2, <2>3 DEF CloseRun, Raise
  <1>24. ASSUME NEW j \in Jobs, NEW error, Verdict(j) \/ OpenCircuit(j, error) \/ Fail(j, error)
         PROVE  Processed'
    <2>1. PICK fs, status, err, raising : EndRun(j, fs, status, err, raising) /\ Executing(j)
      BY <1>24, Ends
    <2> QED
      BY <1>21, <2>1
  <1>25. CASE UNCHANGED vars
    BY <1>25 DEF vars, jobVars, Processed, Owner, Hands, OneThreadOfCli
  <1> QED
    BY <1>1, <1>2, <1>3, <1>4, <1>5, <1>6, <1>7, <1>8, <1>9, <1>10, <1>11, <1>12, <1>13,
       <1>14, <1>15, <1>16, <1>17, <1>18, <1>19, <1>20, <1>22, <1>23, <1>24, <1>25
    DEF Next, Processes, CommandLine, JobStep, PcStep

-----------------------------------------------------------------------------
(* What the row of a run says while a thread executes it. *)

(* A step after which each thread that executes a run did so before, and that
   changes neither the status nor the connection of those runs. *)
LEMMA ExecutionsGoOn ==
    ASSUME RecoverySparesTheLiving, NeverExecutedTwice,
           \A k \in Jobs : Executing(k)' =>
               /\ Executing(k) /\ job'[k].run = job[k].run
               /\ runs'[job[k].run].status = runs[job[k].run].status
               /\ runs'[job[k].run].conn = runs[job[k].run].conn
    PROVE  RecoverySparesTheLiving' /\ NeverExecutedTwice'
  BY DEF RecoverySparesTheLiving, NeverExecutedTwice, Executing

LEMMA RecoveredAlone ==
    ASSUME Processed, RecoverySparesTheLiving, NeverExecutedTwice,
           ResidentOpen \/ (\E j \in Jobs : OpenCli(j)), Typed
    PROVE  RecoverySparesTheLiving' /\ NeverExecutedTwice'
  <1>1. CASE ResidentOpen
    <2>1. \A k \in Jobs : job[k].pc = "idle"
      BY <1>1 DEF ResidentOpen, Processed, Owner, Hands
    <2>2. job' = job
      BY <1>1 DEF ResidentOpen, jobVars
    <2> QED
      BY <2>1, <2>2, ExecutionsGoOn DEF Executing
  <1>2. ASSUME NEW j \in Jobs, OpenCli(j)
        PROVE  RecoverySparesTheLiving' /\ NeverExecutedTwice'
    <2>1. \A k \in Jobs : job[k].pc = "idle"
      BY <1>2 DEF OpenCli, Processed, Owner, Hands
    <2>2. job'[j].pc = "next" /\ \A k \in Jobs \ {j} : job'[k] = job[k]
      BY <1>2 DEF OpenCli, NewJob, Idle, Typed
    <2> QED
      BY <2>1, <2>2, ExecutionsGoOn DEF Executing
  <1> QED
    BY <1>1, <1>2

(* No row of the connection is running when its new row is written. *)
LEMMA BeginsAlone ==
    ASSUME Typed, RecoverySparesTheLiving, NeverExecutedTwice,
           NEW j \in Jobs, NEW r \in RunIds, BeginRun(j, r)
    PROVE  RecoverySparesTheLiving' /\ NeverExecutedTwice'
  <1> DEFINE c == Head(job[j].todo)
  <1>1. /\ runs[r] = NoRun /\ ~Executing(j)
        /\ \A s \in RunIds : runs[s].status = "running" => runs[s].conn # c
    BY DEF BeginRun, Insert, Busy, Executing
  <1>2. RowFor(j).status = "running" /\ RowFor(j).conn = c
    BY DEF RowFor, NoRun
  <1>3. runs'[r] = RowFor(j) /\ \A s \in RunIds \ {r} : runs'[s] = runs[s]
    BY DEF BeginRun, Typed
  <1>4. job'[j].run = r /\ \A k \in Jobs \ {j} : job'[k] = job[k]
    BY DEF BeginRun, Typed, JobRecords
  <1>5. \A k \in Jobs \ {j} : Executing(k)' =>
            /\ Executing(k) /\ job'[k].run = job[k].run
            /\ job[k].run \in RunIds \ {r}
            /\ runs'[job[k].run] = runs[job[k].run]
            /\ runs[job[k].run].status = "running" /\ runs[job[k].run].conn # c
    BY <1>1, <1>3, <1>4 DEF Typed, Executing, RecoverySparesTheLiving, NoRun
  <1>6. runs'[job'[j].run].status = "running" /\ runs'[job'[j].run].conn = c
    BY <1>2, <1>3, <1>4
  <1> HIDE DEF c
  <1>7. RecoverySparesTheLiving'
    BY <1>5, <1>6 DEF RecoverySparesTheLiving
  <1>8. NeverExecutedTwice'
    BY <1>5, <1>6 DEF NeverExecutedTwice
  <1> QED
    BY <1>7, <1>8

(* The run that ends belongs to another connection than those that go on. *)
LEMMA EndsAlone ==
    ASSUME Typed, RecoverySparesTheLiving, NeverExecutedTwice, NEW j \in Jobs,
           NEW fs, NEW status, NEW error, NEW raising,
           Executing(j), EndRun(j, fs, status, error, raising)
    PROVE  RecoverySparesTheLiving' /\ NeverExecutedTwice'
  <1>1. /\ job'[j].pc = "alerting" /\ \A k \in Jobs \ {j} : job'[k] = job[k]
        /\ \A s \in RunIds \ {job[j].run} : runs'[s] = runs[s]
    BY DEF EndRun, Typed, JobRecords
  <1>2. ASSUME NEW k \in Jobs, Executing(k)'
        PROVE  /\ Executing(k) /\ job'[k] = job[k]
               /\ runs'[job[k].run] = runs[job[k].run]
    <2>1. k # j /\ Executing(k) /\ job'[k] = job[k]
      BY <1>1, <1>2 DEF Executing
    <2>2. job[k].run \in RunIds /\ job[k].run # job[j].run
      BY <2>1 DEF Typed, NeverExecutedTwice
    <2> QED
      BY <1>1, <2>1, <2>2
  <1> QED
    BY <1>2, ExecutionsGoOn

LEMMA AloneStep ==
    Typed /\ Processed /\ RecoverySparesTheLiving /\ NeverExecutedTwice /\ [Next]_vars
    => RecoverySparesTheLiving' /\ NeverExecutedTwice'
  <1> SUFFICES ASSUME Typed, Processed, RecoverySparesTheLiving, NeverExecutedTwice,
                      [Next]_vars
               PROVE  RecoverySparesTheLiving' /\ NeverExecutedTwice'
    OBVIOUS
  <1>j. ASSUME NEW j \in Jobs PROVE job[j] \in JobRecords
    BY DEF Typed
  <1>1. CASE ResidentStart \/ Exit \/ Exited \/ PostRefused \/ Timeout
             \/ (\E order \in Orders : OrderDirect(order) \/ OrderDelegated(order))
             \/ UNCHANGED vars
    <2>1. UNCHANGED <<runs, job>>
      BY <1>1 DEF ResidentStart, Exit, Exited, PostRefused, Timeout, OrderDirect,
                  OrderDelegated, vars, dbVars, jobVars
    <2> QED
      BY <2>1, ExecutionsGoOn DEF Executing
  <1>2. CASE ResidentOpen \/ (\E j \in Jobs : OpenCli(j))
    BY <1>2, RecoveredAlone
  <1>3. CASE CrashResident \/ CrashCli
    <2>1. runs' = runs /\ \A k \in Jobs : job'[k].pc = "idle" \/ job'[k] = job[k]
      BY <1>3 DEF CrashResident, CrashCli, Die, dbVars, Idle
    <2> QED
      BY <2>1, ExecutionsGoOn DEF Executing
  <1>4. ASSUME NEW j \in Jobs, Post(j) \/ (\E c \in Conns : SchedulerJob(j, c))
        PROVE  RecoverySparesTheLiving' /\ NeverExecutedTwice'
    <2>1. /\ runs' = runs /\ job'[j].pc = "next"
          /\ \A k \in Jobs \ {j} : job'[k] = job[k]
      BY <1>4 DEF Post, SchedulerJob, NewJob, Idle, dbVars, Typed
    <2> QED
      BY <2>1, ExecutionsGoOn DEF Executing
  <1>5. ASSUME NEW j \in Jobs, RefuseRun(j) \/ CloseRun(j)
        PROVE  RecoverySparesTheLiving' /\ NeverExecutedTwice'
    <2>1. /\ runs' = runs /\ job'[j].pc \in {"idle", "next"}
          /\ \A k \in Jobs \ {j} : job'[k] = job[k]
      BY <1>5 DEF RefuseRun, CloseRun, Raise, Over, Idle, dbVars, Typed, JobRecords
    <2> QED
      BY <2>1, ExecutionsGoOn DEF Executing
  <1>6. ASSUME NEW j \in Jobs, NEW r \in RunIds, BeginRun(j, r)
        PROVE  RecoverySparesTheLiving' /\ NeverExecutedTwice'
    BY <1>6, BeginsAlone
  <1>7. ASSUME NEW j \in Jobs, NEW r \in RunIds, NEW error, FailPreflight(j, r, error)
        PROVE  RecoverySparesTheLiving' /\ NeverExecutedTwice'
    <2>1. /\ runs[r] = NoRun
          /\ \A s \in RunIds \ {r} : runs'[s] = runs[s]
          /\ job'[j].pc = "alerting" /\ \A k \in Jobs \ {j} : job'[k] = job[k]
      BY <1>7 DEF FailPreflight, Insert, Typed, JobRecords
    <2>2. ASSUME NEW k \in Jobs, Executing(k)'
          PROVE  /\ Executing(k) /\ job'[k] = job[k]
                 /\ runs'[job[k].run] = runs[job[k].run]
      <3>1. Executing(k) /\ job'[k] = job[k]
        BY <2>1, <2>2 DEF Executing
      <3>2. job[k].run \in RunIds \ {r}
        BY <2>1, <3>1 DEF Typed, RecoverySparesTheLiving, NoRun
      <3> QED
        BY <2>1, <3>1, <3>2
    <2> QED
      BY <2>2, ExecutionsGoOn
  <1>8. ASSUME NEW j \in Jobs, NEW batch \in SUBSET Files, AddBatch(j, batch)
        PROVE  RecoverySparesTheLiving' /\ NeverExecutedTwice'
    <2> DEFINE r      == job[j].run
               found  == runs[r].found + Cardinality(batch)
               warned == job[j].warned \/ batch \cap Forbidden # {}
    <2>1. /\ runs' = [runs EXCEPT ![r] = [runs[r] EXCEPT !.found = found]]
          /\ job' = [job EXCEPT ![j] = [job[j] EXCEPT !.warned = warned]]
      BY <1>8 DEF AddBatch
    <2> HIDE DEF found, warned
    <2>2. \A k \in Jobs : job'[k].pc = job[k].pc /\ job'[k].run = job[k].run
      BY <1>j, <2>1 DEF Typed, JobRecords
    <2>3. \A s \in RunIds : runs'[s].status = runs[s].status /\ runs'[s].conn = runs[s].conn
      BY <2>1 DEF Typed, RunRecords
    <2> QED
      BY <2>2, <2>3, ExecutionsGoOn DEF Executing, Typed
  <1>9. ASSUME NEW j \in Jobs, NEW found, EndListing(j, found)
        PROVE  RecoverySparesTheLiving' /\ NeverExecutedTwice'
    <2> DEFINE r == job[j].run
    <2>1. /\ runs' = [runs EXCEPT ![r] = [runs[r] EXCEPT !.found = found]]
          /\ job' = [job EXCEPT ![j] = [job[j] EXCEPT !.pc = "downloading"]]
          /\ Executing(j)
      BY <1>9 DEF EndListing, Executing
    <2>2. \A k \in Jobs : /\ k # j => job'[k] = job[k]
                          /\ job'[k].run = job[k].run
      BY <1>j, <2>1 DEF Typed, JobRecords
    <2>3. \A s \in RunIds : runs'[s].status = runs[s].status /\ runs'[s].conn = runs[s].conn
      BY <2>1 DEF Typed, RunRecords
    <2> QED
      BY <2>1, <2>2, <2>3, ExecutionsGoOn DEF Executing, Typed
  <1>10. ASSUME NEW j \in Jobs,
                \/ \E f \in Files, result \in {"ok", "failed"} : WorkerDone(j, f, result)
                \/ RecordBatch(j)
         PROVE  RecoverySparesTheLiving' /\ NeverExecutedTwice'
    <2>1. UNCHANGED <<runs, job>>
      BY <1>10 DEF WorkerDone, RecordBatch, dbVars
    <2> QED
      BY <2>1, ExecutionsGoOn DEF Executing
  <1>11. ASSUME NEW j \in Jobs, NEW error, Verdict(j) \/ OpenCircuit(j, error) \/ Fail(j, error)
         PROVE  RecoverySparesTheLiving' /\ NeverExecutedTwice'
    BY <1>11, Ends, EndsAlone
  <1>12. ASSUME NEW j \in Jobs, TakeAlert(j) \/ Send(j)
         PROVE  RecoverySparesTheLiving' /\ NeverExecutedTwice'
    <2>1. runs' = runs /\ \A k \in Jobs : job'[k].pc = job[k].pc /\ job'[k].run = job[k].run
      BY <1>12, AlertKeepsJob
    <2> QED
      BY <2>1, ExecutionsGoOn DEF Executing
  <1>13. ASSUME NEW j \in Jobs, PcStep(j)
         PROVE  RecoverySparesTheLiving' /\ NeverExecutedTwice'
    BY <1>13, PcMoves, ExecutionsGoOn DEF Executing
  <1> QED
    BY <1>1, <1>2, <1>3, <1>4, <1>5, <1>6, <1>7, <1>8, <1>9, <1>10, <1>11, <1>12, <1>13
    DEF Next, Processes, CommandLine, JobStep, PcStep

-----------------------------------------------------------------------------
Exclusion == Typed /\ Processed /\ RecoverySparesTheLiving /\ NeverExecutedTwice

LEMMA ExclusionInvariant == ~Overlap /\ Spec => []Exclusion
  <1>1. ~Overlap /\ Init => Exclusion
    <2> SUFFICES ASSUME ~Overlap, Init PROVE Exclusion
      OBVIOUS
    <2>1. \A j \in Jobs : ~Executing(j)
      BY DEF Init, Idle, Executing
    <2> QED
      BY <2>1, InitTyped, InitProcessed
      DEF Exclusion, RecoverySparesTheLiving, NeverExecutedTwice
  <1>2. Exclusion /\ [Next]_vars => Exclusion'
    BY TypedStep, ProcessedStep, AloneStep DEF Exclusion
  <1> QED
    BY <1>1, <1>2, PTL DEF Spec

(* A process that starts, the resident or the command line, never closes the
   row of a run that a thread is executing (recover_interrupted under the
   single-instance mutex). *)
THEOREM RecoveryIsSafe == ~Overlap /\ Spec => []RecoverySparesTheLiving
  <1>1. Exclusion => RecoverySparesTheLiving
    BY DEF Exclusion
  <1> QED
    BY <1>1, ExclusionInvariant, PTL

(* Two threads, of whatever processes, never execute one connection at the same
   time (the mutex, the lock of the connection and its running row). *)
THEOREM NeverTwice == ~Overlap /\ Spec => []NeverExecutedTwice
  <1>1. Exclusion => NeverExecutedTwice
    BY DEF Exclusion
  <1> QED
    BY <1>1, ExclusionInvariant, PTL

-----------------------------------------------------------------------------
(* The panel.  Each execution has a row and an entry of its own, and the entry
   counts what the rows and the outcomes of its thread say. *)

RowStatuses == {"none", "pending", "downloading", "ok", "failed"}

PanelTyped ==
    /\ rows \in [RunIds -> [Files -> RowStatuses]]
    /\ outcome \in [Jobs -> [Files -> {"none", "ok", "failed"}]]
    /\ panel \in [RunIds -> [phase: {"absent", "discovering", "downloading"},
                             total: Nat, done: Nat, files: SUBSET Files]]

JobFacts(j) ==
    /\ job[j].pc \in {"idle", "next"} => job[j].run = 0
    /\ job[j].pc \notin {"idle", "next"} =>
         job[j].run \in RunIds /\ runs[job[j].run] # NoRun
    /\ job[j].pc # "downloading" => outcome[j] = NoRows
    /\ job[j].pc \in {"starting", "discovering"} =>
         With(rows[job[j].run], "downloading") = {}
    /\ job[j].pc = "discovering" =>
         panel[job[j].run] = [Absent EXCEPT !.phase = "discovering"]
    /\ job[j].pc \in {"estimating", "downloading"} =>
         /\ panel[job[j].run].phase = "downloading"
         /\ panel[job[j].run].files = IF job[j].pc = "downloading" THEN InHand(j) ELSE {}
         /\ panel[job[j].run].total =
              panel[job[j].run].done + Cardinality(InHand(j))
              + Count(rows[job[j].run], "pending")
         /\ \A f \in Files :
              outcome[j][f] # "none" => rows[job[j].run][f] = "downloading"

PanelInv ==
    /\ PanelTyped
    /\ \A r \in RunIds : runs[r] = NoRun => rows[r] = NoRows
    /\ \A r \in RunIds : Shown(r) => \E j \in Jobs : job[j].run = r
    /\ \A j, k \in Jobs : j # k /\ job[j].run = job[k].run => job[j].run = 0
    /\ \A j \in Jobs : JobFacts(j)

(* At the start nobody works and nothing is shown. *)
LEMMA InitPanel == Init => PanelInv
  <1> SUFFICES ASSUME Init PROVE PanelInv
    OBVIOUS
  <1>1. PanelTyped
    BY DEF Init, PanelInit, PanelTyped, RowStatuses, NoRows, Absent
  <1>2. \A j \in Jobs : JobFacts(j)
    BY DEF Init, JobFacts, Idle
  <1> QED
    BY <1>1, <1>2 DEF Init, PanelInit, PanelInv, Shown, Idle

(* Steps that change no entry, row or outcome, and no execution. *)
LEMMA PanelSame ==
    ASSUME PanelInv, UNCHANGED <<rows, outcome, panel>>,
           \A r \in RunIds : runs'[r] = NoRun <=> runs[r] = NoRun,
           \A k \in Jobs :
               \/ job'[k].pc = job[k].pc /\ job'[k].run = job[k].run
               \/ /\ job[k].pc \in {"idle", "next"}
                  /\ job'[k].pc \in {"idle", "next"} /\ job'[k].run = 0
    PROVE  PanelInv'
  <1>1. \A k \in Jobs : job'[k].run = job[k].run
    BY DEF PanelInv, JobFacts
  <1>2. ASSUME NEW k \in Jobs PROVE JobFacts(k)'
    <2>1. JobFacts(k) /\ job'[k].run = job[k].run /\ outcome'[k] = outcome[k]
      BY <1>1 DEF PanelInv
    <2>2. /\ rows'[job'[k].run] = rows[job[k].run]
          /\ panel'[job'[k].run] = panel[job[k].run]
      BY <2>1
    <2>3. InHand(k)' = InHand(k)
      BY <2>1, <2>2 DEF InHand, With
    <2>4. Count(rows'[job'[k].run], "pending") = Count(rows[job[k].run], "pending")
      BY <2>2
    <2>5. CASE job'[k].pc = job[k].pc
      BY <2>1, <2>2, <2>3, <2>4, <2>5 DEF JobFacts
    <2>6. CASE job[k].pc \in {"idle", "next"} /\ job'[k].pc \in {"idle", "next"}
      BY <2>1, <2>6 DEF JobFacts
    <2> QED
      BY <2>5, <2>6
  <1>3. \A r \in RunIds : Shown(r)' <=> Shown(r)
    BY DEF Shown
  <1>4. PanelTyped'
    BY DEF PanelInv, PanelTyped
  <1> QED
    BY <1>1, <1>2, <1>3, <1>4 DEF PanelInv

(* A step of one job on the row and the entry of one run that is nobody
   else's. *)
LEMMA PanelOfOne ==
    ASSUME PanelInv, PanelTyped', NEW j \in Jobs, NEW own \in RunIds,
           \A k \in Jobs \ {j} : /\ job'[k] = job[k] /\ outcome'[k] = outcome[k]
                                 /\ job[k].run # own,
           job[j].run \in {0, own}, job'[j].run \in {0, own},
           \A r \in RunIds \ {own} :
               /\ rows'[r] = rows[r] /\ panel'[r] = panel[r]
               /\ runs'[r] = NoRun <=> runs[r] = NoRun,
           runs'[own] # NoRun,
           panel'[own] # Absent => job'[j].run = own,
           JobFacts(j)'
    PROVE  PanelInv'
  <1>0. 0 \notin RunIds
    BY ApplicationAssumption
  <1>1. \A r \in RunIds : runs'[r] = NoRun => rows'[r] = NoRows
    BY DEF PanelInv
  <1>2. ASSUME NEW r \in RunIds, Shown(r)'
        PROVE  \E k \in Jobs : job'[k].run = r
    <2>1. CASE r = own
      BY <1>2, <2>1 DEF Shown
    <2>2. CASE r # own
      <3>1. Shown(r)
        BY <1>2, <2>2 DEF Shown
      <3>2. PICK k \in Jobs : job[k].run = r
        BY <3>1 DEF PanelInv
      <3> QED
        BY <1>0, <2>2, <3>2
    <2> QED
      BY <2>1, <2>2
  <1>3. \A i, k \in Jobs : i # k /\ job'[i].run = job'[k].run => job'[i].run = 0
    BY DEF PanelInv
  <1>4. ASSUME NEW k \in Jobs \ {j} PROVE JobFacts(k)'
    <2>1. JobFacts(k) /\ job'[k] = job[k] /\ outcome'[k] = outcome[k]
      BY DEF PanelInv
    <2>2. CASE job[k].pc \in {"idle", "next"}
      BY <2>1, <2>2 DEF JobFacts
    <2>3. CASE job[k].pc \notin {"idle", "next"}
      <3>1. job[k].run \in RunIds \ {own}
        BY <2>1, <2>3 DEF JobFacts
      <3>2. /\ rows'[job'[k].run] = rows[job[k].run]
            /\ panel'[job'[k].run] = panel[job[k].run]
            /\ runs'[job'[k].run] = NoRun <=> runs[job[k].run] = NoRun
        BY <2>1, <3>1
      <3> QED
        BY <2>1, <3>1, <3>2 DEF JobFacts, InHand, With, Count
    <2> QED
      BY <2>2, <2>3
  <1> QED
    BY <1>1, <1>2, <1>3, <1>4 DEF PanelInv

(* A recovery finds no thread, so nothing is shown that it could falsify. *)
LEMMA PanelRecovered ==
    ASSUME Typed, PanelInv, Recover, UNCHANGED <<outcome, panel>>,
           \A k \in Jobs : /\ job[k].pc = "idle" /\ job'[k].pc \in {"idle", "next"}
                           /\ job'[k].run = 0
    PROVE  PanelInv'
  <1>1. \A k \in Jobs : job[k].run = 0 /\ outcome[k] = NoRows
    BY DEF PanelInv, JobFacts
  <1>0. 0 \notin RunIds
    BY ApplicationAssumption
  <1>2. \A r \in RunIds : ~Shown(r)
    BY <1>0, <1>1 DEF PanelInv
  <1>3. \A fs \in [Files -> RowStatuses] : FailUnfinished(fs) \in [Files -> RowStatuses]
    BY DEF FailUnfinished, RowStatuses
  <1>4. rows' \in [RunIds -> [Files -> RowStatuses]]
    <2>1. rows' = [r \in RunIds |-> IF runs[r].status = "running"
                                    THEN FailUnfinished(rows[r]) ELSE rows[r]]
      BY DEF Recover
    <2>2. \A r \in RunIds : rows[r] \in [Files -> RowStatuses]
      BY DEF PanelInv, PanelTyped
    <2> QED
      BY <1>3, <2>1, <2>2
  <1>5. ASSUME NEW r \in RunIds, runs'[r] = NoRun
        PROVE  rows'[r] = NoRows
    <2>1. runs[r].status # "running"
      <3>1. ASSUME runs[r].status = "running"
            PROVE  FALSE
        <4>1. runs'[r] = Ended(runs[r], rows'[r], "failed", "interrupted", runs[r].warned)
          BY <3>1 DEF Recover
        <4>2. runs[r] \in RunRecords
          BY DEF Typed
        <4>3. runs'[r].status = "failed"
          BY <4>1, <4>2, EndedTyped DEF RunRecords, Terminal, Errors
        <4> QED
          BY <1>5, <4>3 DEF NoRun
      <3> QED
        BY <3>1
    <2>2. runs'[r] = runs[r] /\ rows'[r] = rows[r]
      BY <2>1 DEF Recover
    <2> QED
      BY <1>5, <2>2 DEF PanelInv
  <1>6. \A k \in Jobs : JobFacts(k)'
    BY <1>1 DEF JobFacts
  <1> QED
    BY <1>2, <1>4, <1>5, <1>6 DEF PanelInv, PanelTyped, Shown

(* The entries of a process that dies go with its threads. *)
LEMMA PanelOfDead ==
    ASSUME PanelInv, Typed, NEW p, Die(p), UNCHANGED <<runs, rows>>
    PROVE  PanelInv'
  <1>0. 0 \notin RunIds
    BY ApplicationAssumption
  <1>1. \A k \in Jobs :
          /\ job'[k] = IF job[k].proc = p THEN Idle ELSE job[k]
          /\ outcome'[k] = IF job[k].proc = p THEN NoRows ELSE outcome[k]
    BY DEF Die
  <1>2. \A r \in RunIds : panel'[r] = IF r \in RunsOf(p) THEN Absent ELSE panel[r]
    BY DEF Die
  <1>3. PanelTyped'
    <2>1. outcome' \in [Jobs -> [Files -> {"none", "ok", "failed"}]]
      BY DEF Die, PanelInv, PanelTyped, NoRows
    <2>2. panel' \in [RunIds -> [phase: {"absent", "discovering", "downloading"},
                                 total: Nat, done: Nat, files: SUBSET Files]]
      BY DEF Die, PanelInv, PanelTyped, Absent
    <2> QED
      BY <2>1, <2>2 DEF PanelInv, PanelTyped
  <1>4. ASSUME NEW r \in RunIds, Shown(r)'
        PROVE  \E k \in Jobs : job'[k].run = r
    <2>1. r \notin RunsOf(p) /\ Shown(r)
      BY <1>2, <1>4 DEF Shown
    <2>2. PICK k \in Jobs : job[k].run = r
      BY <2>1 DEF PanelInv
    <2>3. job[k].pc # "idle"
      BY <1>0, <2>2 DEF PanelInv, JobFacts
    <2>4. job[k].proc # p
      BY <1>0, <2>1, <2>2, <2>3 DEF RunsOf, JobsOf
    <2> QED
      BY <1>1, <2>2, <2>4
  <1>5. ASSUME NEW k \in Jobs PROVE JobFacts(k)'
    <2>1. CASE job[k].proc = p
      BY <1>1, <2>1 DEF JobFacts, Idle
    <2>2. CASE job[k].proc # p
      <3>1. JobFacts(k) /\ job'[k] = job[k] /\ outcome'[k] = outcome[k]
        BY <1>1, <2>2 DEF PanelInv
      <3>2. CASE job[k].pc \in {"idle", "next"}
        BY <3>1, <3>2 DEF JobFacts
      <3>3. CASE job[k].pc \notin {"idle", "next"}
        <4>1. job[k].run \in RunIds
          BY <3>1, <3>3 DEF JobFacts
        <4>2. job[k].run \notin RunsOf(p)
          <5> SUFFICES ASSUME job[k].run \in RunsOf(p) PROVE FALSE
            OBVIOUS
          <5>1. PICK i \in JobsOf(p) : job[i].run = job[k].run
            BY DEF RunsOf
          <5>2. i \in Jobs /\ i # k
            BY <2>2, <5>1 DEF JobsOf
          <5> QED
            BY <1>0, <4>1, <5>1, <5>2 DEF PanelInv
        <4>3. panel'[job[k].run] = panel[job[k].run]
          BY <1>2, <4>1, <4>2
        <4> QED
          BY <3>1, <4>1, <4>3 DEF JobFacts, InHand, With, Count
      <3> QED
        BY <3>2, <3>3
    <2> QED
      BY <2>1, <2>2
  <1>6. \A i, k \in Jobs : i # k /\ job'[i].run = job'[k].run => job'[i].run = 0
    BY <1>1 DEF PanelInv, Idle
  <1> QED
    BY <1>3, <1>4, <1>5, <1>6 DEF PanelInv

(* A new row, to which no entry belongs yet. *)
LEMMA PanelBegins ==
    ASSUME Typed, PanelInv, NEW j \in Jobs, NEW r \in RunIds, NEW error,
           BeginRun(j, r) \/ FailPreflight(j, r, error)
    PROVE  PanelInv'
  <1>j. job[j] \in JobRecords /\ job \in [Jobs -> JobRecords]
    BY DEF Typed
  <1>1. /\ runs[r] = NoRun /\ job[j].pc = "next" /\ job[j].run = 0
        /\ outcome[j] = NoRows /\ rows[r] = NoRows
    BY DEF BeginRun, FailPreflight, Insert, PanelInv, JobFacts
  <1>2. \A k \in Jobs : job[k].run # r
    <2> SUFFICES ASSUME NEW k \in Jobs, job[k].run = r PROVE FALSE
      OBVIOUS
    <2>1. JobFacts(k) /\ r # 0
      BY ApplicationAssumption DEF PanelInv
    <2> QED
      BY <1>1, <2>1 DEF JobFacts
  <1>3. ~Shown(r)
    BY <1>2 DEF PanelInv
  <1>4. /\ job'[j].run = r /\ \A k \in Jobs \ {j} : job'[k] = job[k]
        /\ UNCHANGED <<rows, outcome>>
        /\ runs'[r] # NoRun /\ \A s \in RunIds \ {r} : runs'[s] = runs[s]
    <2>1. CASE BeginRun(j, r)
      <3>1. runs' = [runs EXCEPT ![r] = RowFor(j)]
        BY <2>1 DEF BeginRun
      <3>2. RowFor(j).status = "running"
        BY DEF RowFor, NoRun
      <3>3. runs'[r] # NoRun /\ \A s \in RunIds \ {r} : runs'[s] = runs[s]
        BY <3>1, <3>2 DEF NoRun, Typed
      <3> QED
        BY <2>1, <1>j, <3>3 DEF BeginRun, JobRecords
    <2>2. CASE FailPreflight(j, r, error)
      <3> DEFINE run == [RowFor(j) EXCEPT !.status = "failed", !.error = error]
      <3>1. runs' = [runs EXCEPT ![r] = run]
        BY <2>2 DEF FailPreflight
      <3>2. run.status = "failed"
        BY DEF RowFor, NoRun
      <3> HIDE DEF run
      <3>3. runs'[r] # NoRun /\ \A s \in RunIds \ {r} : runs'[s] = runs[s]
        BY <3>1, <3>2 DEF NoRun, Typed
      <3> QED
        BY <2>2, <1>j, <3>3 DEF FailPreflight, JobRecords
    <2> QED
      BY <2>1, <2>2
  <1>5. CASE BeginRun(j, r)
    <2>1. job'[j].pc = "starting" /\ UNCHANGED panel
      BY <1>5, <1>j DEF BeginRun, JobRecords
    <2>2. With(rows'[r], "downloading") = {}
      BY <1>1, <1>4 DEF With, NoRows
    <2>3. JobFacts(j)'
      BY <1>1, <1>4, <2>1, <2>2 DEF JobFacts
    <2>4. PanelTyped'
      BY <1>4, <2>1 DEF PanelInv, PanelTyped
    <2>5. panel'[r] = Absent
      BY <1>3, <2>1 DEF Shown
    <2> QED
      BY <1>1, <1>2, <1>4, <2>1, <2>3, <2>4, <2>5, PanelOfOne
  <1>6. CASE FailPreflight(j, r, error)
    <2>1. job'[j].pc = "alerting" /\ UNCHANGED panel
      BY <1>6, <1>j DEF FailPreflight, JobRecords
    <2>2. JobFacts(j)'
      BY <1>1, <1>4, <2>1 DEF JobFacts
    <2>3. PanelTyped'
      BY <1>4, <2>1 DEF PanelInv, PanelTyped
    <2>4. panel'[r] = Absent
      BY <1>3, <2>1 DEF Shown
    <2> QED
      BY <1>1, <1>2, <1>4, <2>1, <2>2, <2>3, <2>4, PanelOfOne
  <1> QED
    BY <1>5, <1>6

(* What a thread that executes a run may rely on. *)
LEMMA OwnEntry ==
    ASSUME PanelInv, NEW j \in Jobs, job[j].pc \notin {"idle", "next"}
    PROVE  /\ job[j].run \in RunIds /\ runs[job[j].run] # NoRun
           /\ \A k \in Jobs \ {j} : job[k].run # job[j].run
           /\ job[j].run # 0
  <1>1. job[j].run \in RunIds /\ runs[job[j].run] # NoRun
    BY DEF PanelInv, JobFacts
  <1>2. job[j].run # 0
    BY <1>1, ApplicationAssumption
  <1> QED
    BY <1>1, <1>2 DEF PanelInv

LEMMA FilesAreFinite ==
    ASSUME NEW S, S \subseteq Files
    PROVE  IsFiniteSet(S) /\ Cardinality(S) \in Nat
  <1>1. IsFiniteSet(Files)
    BY ApplicationAssumption
  <1>2. IsFiniteSet(S)
    BY <1>1, FS_Subset
  <1> QED
    BY <1>2, FS_CardinalityType

(* The listing: nothing is in hand, and at its end the total is the queue. *)
LEMMA PanelLists ==
    ASSUME Typed, PanelInv, RecoverySparesTheLiving, NEW j \in Jobs,
           \/ \E batch \in SUBSET Files : AddBatch(j, batch)
           \/ \E found : EndListing(j, found)
    PROVE  PanelInv'
  <1> DEFINE own == job[j].run
  <1>j. job[j] \in JobRecords /\ job \in [Jobs -> JobRecords]
    BY DEF Typed
  <1>p. job[j].pc = "discovering"
    BY DEF AddBatch, EndListing
  <1>o. /\ own \in RunIds /\ runs[own] # NoRun /\ own # 0
        /\ \A k \in Jobs \ {j} : job[k].run # own
    BY <1>p, OwnEntry
  <1>e. /\ panel[own] = [Absent EXCEPT !.phase = "discovering"]
        /\ With(rows[own], "downloading") = {} /\ outcome[j] = NoRows
    BY <1>p DEF PanelInv, JobFacts
  <1>r. runs[own] \in RunRecords
    BY <1>o DEF Typed
  <1>s. runs[own].status = "running"
    BY <1>p DEF RecoverySparesTheLiving, Executing
  <1>1. ASSUME NEW batch \in SUBSET Files, AddBatch(j, batch)
        PROVE  PanelInv'
    <2> DEFINE found  == runs[own].found + Cardinality(batch)
               warned == job[j].warned \/ batch \cap Forbidden # {}
               fs == [f \in Files |-> IF f \notin batch THEN rows[own][f]
                                      ELSE IF f \in Forbidden THEN "failed" ELSE "pending"]
    <2>1. /\ runs' = [runs EXCEPT ![own] = [runs[own] EXCEPT !.found = found]]
          /\ job' = [job EXCEPT ![j] = [job[j] EXCEPT !.warned = warned]]
          /\ rows' = [rows EXCEPT ![own] = fs]
          /\ UNCHANGED <<outcome, panel>>
          /\ batch \subseteq With(rows[own], "none") /\ batch # {}
      BY <1>1 DEF AddBatch
    <2>2. fs \in [Files -> RowStatuses] /\ With(fs, "downloading") = {}
      <3>1. rows[own] \in [Files -> RowStatuses]
        BY <1>o DEF PanelInv, PanelTyped
      <3> QED
        BY <3>1, <1>e DEF With, RowStatuses
    <2>2a. fs # NoRows
      BY <2>1 DEF NoRows
    <2> HIDE DEF found, warned, fs
    <2>3. PanelTyped'
      BY <1>o, <2>1, <2>2 DEF PanelInv, PanelTyped
    <2>4. /\ job'[j].pc = "discovering" /\ job'[j].run = own
          /\ \A k \in Jobs \ {j} : job'[k] = job[k]
      BY <1>j, <1>p, <2>1 DEF JobRecords
    <2>5. /\ rows'[own] = fs /\ \A s \in RunIds \ {own} : rows'[s] = rows[s] /\ runs'[s] = runs[s]
      BY <1>o, <2>1 DEF PanelInv, PanelTyped, Typed
    <2>6. runs'[own] # NoRun
      <3>1. runs'[own].status = runs[own].status
        BY <1>o, <1>r, <2>1 DEF Typed, RunRecords
      <3> QED
        BY <1>s, <3>1 DEF NoRun
    <2>7. JobFacts(j)'
      BY <1>o, <1>e, <2>1, <2>2, <2>4, <2>5, <2>6 DEF JobFacts
    <2> QED
      BY <1>o, <2>1, <2>3, <2>4, <2>5, <2>6, <2>7, PanelOfOne
  <1>2. ASSUME NEW found, EndListing(j, found)
        PROVE  PanelInv'
    <2> DEFINE total == Count(rows[own], "pending")
    <2>1. /\ runs' = [runs EXCEPT ![own] = [runs[own] EXCEPT !.found = found]]
          /\ job' = [job EXCEPT ![j] = [job[j] EXCEPT !.pc = "downloading"]]
          /\ UNCHANGED <<rows, outcome>>
          /\ SetTotals(own, total)
          /\ found \in {runs[own].found, Cardinality(Has[runs[own].conn])}
      BY <1>2 DEF EndListing
    <2>2. Shown(own)
      BY <1>e DEF Shown, Absent
    <2>3. panel' = [panel EXCEPT ![own] =
                      [panel[own] EXCEPT !.total = total, !.phase = "downloading"]]
      BY <2>1, <2>2 DEF SetTotals
    <2>4. total \in Nat
      BY CountsAreNat
    <2> HIDE DEF total
    <2>5. /\ panel'[own].phase = "downloading" /\ panel'[own].files = {}
          /\ panel'[own].done = 0 /\ panel'[own].total = total
          /\ \A s \in RunIds \ {own} : panel'[s] = panel[s]
      BY <1>o, <1>e, <2>3 DEF PanelInv, PanelTyped, Absent
    <2>6. PanelTyped'
      BY <1>o, <1>e, <2>1, <2>3, <2>4 DEF PanelInv, PanelTyped, Absent
    <2>7. /\ job'[j].pc = "downloading" /\ job'[j].run = own
          /\ \A k \in Jobs \ {j} : job'[k] = job[k]
      BY <1>j, <2>1 DEF JobRecords
    <2>8. InHand(j)' = {}
      BY <1>e, <2>1, <2>7 DEF InHand
    <2>9. runs'[own] # NoRun /\ \A s \in RunIds \ {own} : runs'[s] = runs[s]
      <3>1. /\ runs'[own].status = runs[own].status
            /\ \A s \in RunIds \ {own} : runs'[s] = runs[s]
        BY <1>o, <1>r, <2>1 DEF Typed, RunRecords
      <3> QED
        BY <1>s, <3>1 DEF NoRun
    <2>10. JobFacts(j)'
      <3>1. \A f \in Files : outcome'[j][f] = "none"
        BY <1>e, <2>1 DEF NoRows
      <3>2. Cardinality({}) = 0
        BY FS_EmptySet
      <3>3. Count(rows'[job'[j].run], "pending") = total
        BY <2>1, <2>7 DEF total
      <3> QED
        BY <1>o, <2>4, <2>5, <2>7, <2>8, <2>9, <3>1, <3>2, <3>3 DEF JobFacts
    <2> QED
      BY <1>o, <2>1, <2>5, <2>6, <2>7, <2>9, <2>10, PanelOfOne
  <1> QED
    BY <1>1, <1>2

(* The queue: a claim, the outcome of a worker and their recording move files
   between the queue, the files in hand and those that are done. *)
LEMMA PanelQueue ==
    ASSUME Typed, PanelInv, NEW j \in Jobs,
           \/ PcStep(j)
           \/ \E f \in Files, result \in {"ok", "failed"} : WorkerDone(j, f, result)
           \/ RecordBatch(j)
    PROVE  PanelInv'
  <1> DEFINE own == job[j].run
             entry == panel[own]
             hand == InHand(j)
             queue == With(rows[own], "pending")
  <1>p. job[j].pc \in {"starting", "estimating", "downloading"}
    BY DEF PcStep, OpenRun, ClaimBatch, ShowBatch, WorkerDone, RecordBatch
  <1>o. /\ own \in RunIds /\ runs[own] # NoRun /\ own # 0
        /\ \A k \in Jobs \ {j} : job[k].run # own
    BY <1>p, OwnEntry
  <1>t. /\ rows[own] \in [Files -> RowStatuses]
        /\ outcome[j] \in [Files -> {"none", "ok", "failed"}]
        /\ entry \in [phase: {"absent", "discovering", "downloading"},
                      total: Nat, done: Nat, files: SUBSET Files]
    BY <1>o DEF PanelInv, PanelTyped
  <1>e. ASSUME job[j].pc \in {"estimating", "downloading"}
        PROVE  /\ entry.phase = "downloading"
               /\ entry.files = IF job[j].pc = "downloading" THEN hand ELSE {}
               /\ entry.total = entry.done + Cardinality(hand) + Cardinality(queue)
               /\ \A f \in Files :
                    outcome[j][f] # "none" => rows[own][f] = "downloading"
    BY <1>e DEF PanelInv, JobFacts, Count
  <1>s. job[j].pc \in {"estimating", "downloading"} => Shown(own)
    BY <1>e DEF Shown, Absent
  <1>c. /\ hand \subseteq Files /\ queue \subseteq Files
        /\ IsFiniteSet(hand) /\ Cardinality(hand) \in Nat
        /\ IsFiniteSet(queue) /\ Cardinality(queue) \in Nat
    <2>1. hand \subseteq Files /\ queue \subseteq Files
      BY DEF InHand, With
    <2> QED
      BY <2>1, FilesAreFinite
  <1>1. ASSUME NEW batch \in SUBSET Files, ClaimBatch(j, batch)
        PROVE  PanelInv'
    <2> DEFINE fs == [f \in Files |-> IF f \in batch THEN "downloading" ELSE rows[own][f]]
    <2>1. /\ rows' = [rows EXCEPT ![own] = fs]
          /\ UNCHANGED <<runs, outcome, panel>>
          /\ job[j].pc = "downloading"
          /\ With(rows[own], "downloading") = {}
          /\ batch \subseteq queue
      BY <1>1 DEF ClaimBatch
    <2>2. /\ job'[j].pc = "estimating" /\ job'[j].run = own
          /\ \A k \in Jobs \ {j} : job'[k] = job[k]
      BY <1>1, PcMoves DEF PcStep, ClaimBatch, Typed, JobRecords
    <2>3. /\ hand = {} /\ \A f \in Files : outcome[j][f] = "none"
          /\ entry.files = {}
      BY <1>e, <2>1 DEF InHand, With
    <2>n. outcome[j] = NoRows
      BY <1>t, <2>3 DEF NoRows
    <2>4. /\ fs \in [Files -> RowStatuses]
          /\ With(fs, "downloading") = batch /\ With(fs, "pending") = queue \ batch
      BY <1>t, <2>1 DEF With, RowStatuses
    <2> HIDE DEF fs
    <2>5. /\ rows'[own] = fs /\ \A s \in RunIds \ {own} : rows'[s] = rows[s]
      BY <1>o, <2>1 DEF PanelInv, PanelTyped
    <2>6. InHand(j)' = batch
      BY <2>1, <2>2, <2>3, <2>4, <2>5 DEF InHand, With
    <2> HIDE DEF hand, queue
    <2>8. Cardinality(queue) = Cardinality(batch) + Cardinality(queue \ batch)
      <3>1. Cardinality(queue \ batch) = Cardinality(queue) - Cardinality(queue \cap batch)
        BY <1>c, FS_Difference
      <3>2. queue \cap batch = batch
        BY <2>1
      <3>3. Cardinality(batch) \in Nat
        BY FilesAreFinite
      <3> QED
        BY <1>c, <3>1, <3>2, <3>3
    <2>9. Cardinality(hand) = 0
      BY <2>3, FS_EmptySet
    <2>9a. Cardinality(batch) \in Nat /\ Cardinality(queue \ batch) \in Nat
      BY <1>c, FilesAreFinite
    <2>10. entry.total = entry.done + Cardinality(batch) + Cardinality(queue \ batch)
      <3> HIDE DEF entry
      <3> QED
        BY <1>c, <1>e, <1>t, <2>1, <2>8, <2>9, <2>9a
    <2>11. PanelTyped'
      BY <1>o, <2>1, <2>4 DEF PanelInv, PanelTyped
    <2>12. JobFacts(j)'
      <3>1. Count(rows'[own], "pending") = Cardinality(queue \ batch)
        BY <2>4, <2>5 DEF Count
      <3>2. panel'[job'[j].run] = entry /\ entry.phase = "downloading"
        BY <1>e, <2>1, <2>2
      <3> HIDE DEF entry
      <3> QED
        BY <1>o, <2>n, <2>1, <2>2, <2>3, <2>6, <2>10, <3>1, <3>2 DEF JobFacts
    <2>13. panel'[own] # Absent => job'[j].run = own
      BY <2>2
    <2> QED
      BY <1>o, <2>1, <2>2, <2>5, <2>11, <2>12, <2>13, PanelOfOne
  <1>1a. CASE ShowBatch(j)
    <2> DEFINE batch == With(rows[own], "downloading")
    <2>1. /\ UNCHANGED <<runs, rows, outcome>> /\ job[j].pc = "estimating"
          /\ AddFiles(own, batch)
      BY <1>1a DEF ShowBatch, dbVars
    <2>2. /\ job'[j].pc = "downloading" /\ job'[j].run = own
          /\ \A k \in Jobs \ {j} : job'[k] = job[k]
      BY <1>1a, PcMoves DEF PcStep, ShowBatch, Typed, JobRecords
    <2>3. outcome[j] = NoRows
      BY <2>1 DEF PanelInv, JobFacts
    <2>4. batch \subseteq Files /\ hand = batch /\ entry.files = {}
      BY <1>e, <2>1, <2>3 DEF InHand, With, NoRows
    <2>5. panel' = [panel EXCEPT ![own] = [entry EXCEPT !.files = entry.files \cup batch]]
      BY <1>s, <2>1 DEF AddFiles
    <2>6. InHand(j)' = hand /\ Count(rows'[own], "pending") = Cardinality(queue)
      BY <2>1, <2>2 DEF InHand, Count
    <2> HIDE DEF hand, queue, batch, entry
    <2>7. /\ panel'[own].phase = "downloading" /\ panel'[own].files = hand
          /\ panel'[own].total = entry.total /\ panel'[own].done = entry.done
          /\ \A s \in RunIds \ {own} : panel'[s] = panel[s]
      BY <1>o, <1>t, <1>e, <2>1, <2>4, <2>5 DEF PanelInv, PanelTyped
    <2>8. PanelTyped'
      <3>1. [entry EXCEPT !.files = entry.files \cup batch]
              \in [phase: {"absent", "discovering", "downloading"},
                   total: Nat, done: Nat, files: SUBSET Files]
        BY <1>t, <2>4
      <3> QED
        BY <1>o, <2>1, <2>5, <3>1 DEF PanelInv, PanelTyped
    <2>9. JobFacts(j)'
      <3>1. \A f \in Files : outcome'[j][f] = "none"
        BY <2>1, <2>3 DEF NoRows
      <3>2. entry.total = entry.done + Cardinality(hand) + Cardinality(queue)
        BY <1>e, <2>1
      <3> QED
        BY <1>o, <2>1, <2>2, <2>6, <2>7, <3>1, <3>2 DEF JobFacts
    <2>10. panel'[own] # Absent => job'[j].run = own
      BY <2>2
    <2> QED
      BY <1>o, <2>1, <2>2, <2>7, <2>8, <2>9, <2>10, PanelOfOne
  <1>1b. CASE OpenRun(j)
    <2> DEFINE opened == [Absent EXCEPT !.phase = "discovering"]
    <2>1. /\ UNCHANGED <<runs, rows, outcome>> /\ job[j].pc = "starting"
          /\ panel' = [panel EXCEPT ![own] = opened]
      BY <1>1b DEF OpenRun, StartEntry, dbVars
    <2>2. /\ job'[j].pc = "discovering" /\ job'[j].run = own
          /\ \A k \in Jobs \ {j} : job'[k] = job[k]
      BY <1>1b, PcMoves DEF PcStep, OpenRun, Typed, JobRecords
    <2>3. panel'[own] = opened /\ \A s \in RunIds \ {own} : panel'[s] = panel[s]
      BY <1>o, <2>1 DEF PanelInv, PanelTyped
    <2>4. PanelTyped'
      BY <2>1 DEF PanelInv, PanelTyped, Absent
    <2>5. outcome[j] = NoRows /\ With(rows[own], "downloading") = {}
      BY <2>1 DEF PanelInv, JobFacts
    <2>6. JobFacts(j)'
      BY <1>o, <2>1, <2>2, <2>3, <2>5 DEF JobFacts
    <2> QED
      BY <1>o, <2>1, <2>2, <2>3, <2>4, <2>6, PanelOfOne
  <1>2. ASSUME NEW f \in Files, NEW result \in {"ok", "failed"}, WorkerDone(j, f, result)
        PROVE  PanelInv'
    <2>1. /\ UNCHANGED <<runs, job, rows>>
          /\ job[j].pc = "downloading"
          /\ rows[own][f] = "downloading" /\ outcome[j][f] = "none"
          /\ outcome' = [outcome EXCEPT ![j] = [outcome[j] EXCEPT ![f] = result]]
          /\ FinishFile(own, f)
      BY <1>2 DEF WorkerDone, dbVars
    <2>2. f \in hand
      BY <2>1 DEF InHand, With
    <2>3. panel' = [panel EXCEPT ![own] = [entry EXCEPT !.done = entry.done + 1,
                                                        !.files = entry.files \ {f}]]
      BY <1>e, <1>s, <2>1, <2>2 DEF FinishFile
    <2>4. /\ outcome'[j] = [outcome[j] EXCEPT ![f] = result]
          /\ \A k \in Jobs \ {j} : outcome'[k] = outcome[k]
      BY <2>1 DEF PanelInv, PanelTyped
    <2>5. InHand(j)' = hand \ {f}
      BY <1>t, <2>1, <2>4 DEF InHand, With
    <2> HIDE DEF entry, hand, queue
    <2>6. /\ panel'[own].phase = "downloading" /\ panel'[own].files = hand \ {f}
          /\ panel'[own].total = entry.total /\ panel'[own].done = entry.done + 1
          /\ \A s \in RunIds \ {own} : panel'[s] = panel[s]
      BY <1>o, <1>t, <1>e, <2>1, <2>3 DEF PanelInv, PanelTyped
    <2>7. Cardinality(hand \ {f}) = Cardinality(hand) - 1
      BY <1>c, <2>2, FS_RemoveElement
    <2>8. entry.total = (entry.done + 1) + Cardinality(hand \ {f}) + Cardinality(queue)
      BY <1>c, <1>e, <1>t, <2>1, <2>7
    <2>9. PanelTyped'
      <3>1. entry.done + 1 \in Nat /\ entry.files \ {f} \in SUBSET Files
        BY <1>t
      <3> DEFINE done == entry.done + 1
                 files == entry.files \ {f}
      <3> HIDE DEF done, files
      <3>2. [entry EXCEPT !.done = done, !.files = files]
              \in [phase: {"absent", "discovering", "downloading"},
                   total: Nat, done: Nat, files: SUBSET Files]
        BY <1>t, <3>1 DEF done, files
      <3> QED
        BY <1>o, <1>t, <2>1, <2>3, <3>2 DEF PanelInv, PanelTyped, done, files
    <2>10. JobFacts(j)'
      <3>1. Count(rows'[own], "pending") = Cardinality(queue)
        BY <2>1 DEF Count, queue
      <3>2. \A g \in Files : outcome'[j][g] # "none" => rows'[own][g] = "downloading"
        BY <1>t, <1>e, <2>1, <2>4
      <3>3. job' = job /\ runs' = runs
        BY <2>1
      <3>4. panel'[own].total = panel'[own].done + Cardinality(hand \ {f})
                                + Count(rows'[own], "pending")
        BY <2>6, <2>8, <3>1
      <3> QED
        BY <1>o, <2>1, <2>5, <2>6, <3>2, <3>3, <3>4 DEF JobFacts
    <2> QED
      BY <1>o, <2>1, <2>4, <2>6, <2>9, <2>10, PanelOfOne
  <1>3. CASE RecordBatch(j)
    <2> DEFINE fs == [f \in Files |-> IF outcome[j][f] # "none" THEN outcome[j][f]
                                                                 ELSE rows[own][f]]
    <2>1. /\ rows' = [rows EXCEPT ![own] = fs]
          /\ outcome' = [outcome EXCEPT ![j] = NoRows]
          /\ UNCHANGED <<runs, job, panel>> /\ job[j].pc = "downloading"
          /\ \A f \in With(rows[own], "downloading") : outcome[j][f] # "none"
      BY <1>3 DEF RecordBatch
    <2>2. hand = {}
      BY <2>1 DEF InHand, With
    <2>3. /\ fs \in [Files -> RowStatuses]
          /\ With(fs, "downloading") = {} /\ With(fs, "pending") = queue
      BY <1>t, <1>e, <2>1 DEF With, RowStatuses
    <2> HIDE DEF fs
    <2>4. /\ rows'[own] = fs /\ \A s \in RunIds \ {own} : rows'[s] = rows[s]
          /\ outcome'[j] = NoRows /\ \A k \in Jobs \ {j} : outcome'[k] = outcome[k]
      BY <1>o, <2>1 DEF PanelInv, PanelTyped
    <2>5. InHand(j)' = {}
      BY <2>1, <2>3, <2>4 DEF InHand
    <2>6. PanelTyped'
      BY <1>o, <2>1, <2>3 DEF PanelInv, PanelTyped, NoRows
    <2>7. JobFacts(j)'
      <3>1. Count(rows'[own], "pending") = Cardinality(queue)
        BY <2>3, <2>4 DEF Count
      <3>2. \A f \in Files : outcome'[j][f] = "none"
        BY <2>4 DEF NoRows
      <3> QED
        BY <1>o, <1>e, <2>1, <2>2, <2>5, <3>1, <3>2 DEF JobFacts
    <2> QED
      BY <1>o, <1>s, <2>1, <2>4, <2>6, <2>7, PanelOfOne
  <1> QED
    BY <1>1, <1>1a, <1>1b, <1>2, <1>3 DEF PcStep

LEMMA FailedTyped ==
    ASSUME NEW fs \in [Files -> RowStatuses]
    PROVE  FailUnfinished(fs) \in [Files -> RowStatuses]
  BY DEF FailUnfinished, RowStatuses

(* finish_run: the rows are left as they are written, and nothing waits to be
   recorded.  The entry stays until the alerts are out. *)
LEMMA PanelOfEnded ==
    ASSUME Typed, PanelInv, NEW j \in Jobs, Executing(j), outcome[j] = NoRows,
           NEW fs \in [Files -> RowStatuses], NEW status \in Terminal,
           NEW error \in Errors, NEW raising,
           EndRun(j, fs, status, error, raising)
    PROVE  PanelInv'
  <1> DEFINE own == job[j].run
             run == Ended(runs[own], fs, status, error, job[j].warned)
             due == DueFor(own, run)
  <1>p. job[j].pc \notin {"idle", "next"}
    BY DEF Executing
  <1>o. /\ own \in RunIds /\ runs[own] # NoRun /\ own # 0
        /\ \A k \in Jobs \ {j} : job[k].run # own
    BY <1>p, OwnEntry
  <1>t. runs[own] \in RunRecords /\ job[j] \in JobRecords /\ job \in [Jobs -> JobRecords]
    BY <1>o DEF Typed
  <1>1. run.status = status
    BY <1>t, EndedTyped DEF JobRecords
  <1>2. run # NoRun
    BY <1>1 DEF NoRun, Terminal
  <1>3. /\ rows' = [rows EXCEPT ![own] = fs]
        /\ runs' = [runs EXCEPT ![own] = run]
        /\ job' = [job EXCEPT ![j] = [job[j] EXCEPT !.pc = "alerting", !.raising = raising,
                                                    !.due = due]]
        /\ UNCHANGED <<outcome, panel>>
    BY DEF EndRun
  <1> HIDE DEF run, due
  <1>4. /\ job'[j].pc = "alerting" /\ job'[j].run = own
        /\ \A k \in Jobs \ {j} : job'[k] = job[k]
    BY <1>t, <1>3 DEF JobRecords
  <1>5. /\ runs'[own] # NoRun
        /\ \A s \in RunIds \ {own} : rows'[s] = rows[s] /\ runs'[s] = runs[s]
    BY <1>o, <1>2, <1>3 DEF Typed, PanelInv, PanelTyped
  <1>6. PanelTyped'
    BY <1>o, <1>3 DEF PanelInv, PanelTyped
  <1>7. JobFacts(j)'
    BY <1>o, <1>3, <1>4, <1>5 DEF JobFacts
  <1> QED
    BY <1>o, <1>3, <1>4, <1>5, <1>6, <1>7, PanelOfOne

LEMMA PanelEnds ==
    ASSUME Typed, PanelInv, NEW j \in Jobs, NEW error \in Errors,
           Verdict(j) \/ OpenCircuit(j, error) \/ Fail(j, error)
    PROVE  PanelInv'
  <1> DEFINE own == job[j].run
  <1>x. Executing(j)
    BY DEF Verdict, OpenCircuit, Fail, Executing
  <1>p. job[j].pc \notin {"idle", "next"}
    BY <1>x DEF Executing
  <1>t. /\ rows[own] \in [Files -> RowStatuses]
        /\ outcome[j] \in [Files -> {"none", "ok", "failed"}]
    BY <1>p, OwnEntry DEF PanelInv, PanelTyped
  <1>f. "failed" \in Terminal
    BY DEF Terminal
  <1>1. ASSUME job[j].pc = "downloading", With(rows[own], "downloading") = {}
        PROVE  outcome[j] = NoRows
    <2>1. \A f \in Files : outcome[j][f] # "none" => rows[own][f] = "downloading"
      BY <1>1 DEF PanelInv, JobFacts
    <2>2. \A f \in Files : outcome[j][f] = "none"
      BY <1>1, <2>1 DEF With
    <2> QED
      BY <1>t, <2>2 DEF NoRows
  <1>2. CASE Verdict(j)
    <2> DEFINE status == StatusOf(rows[own], job[j].warned)
               err    == IF job[j].warned THEN "path_invalid" ELSE "none"
    <2>1. /\ job[j].pc = "downloading" /\ With(rows[own], "downloading") = {}
          /\ EndRun(j, rows[own], status, err, FALSE)
      BY <1>2 DEF Verdict
    <2>2. status \in Terminal /\ err \in Errors
      BY StatusTyped DEF Errors
    <2> HIDE DEF status, err
    <2> QED
      BY <1>x, <1>t, <1>1, <2>1, <2>2, PanelOfEnded
  <1>3. CASE OpenCircuit(j, error)
    <2> DEFINE fs     == FailUnfinished(rows[own])
               status == StatusOf(fs, job[j].warned)
    <2>1. /\ job[j].pc = "downloading" /\ With(rows[own], "downloading") = {}
          /\ EndRun(j, fs, status, error, FALSE)
      BY <1>3 DEF OpenCircuit
    <2>2. status \in Terminal /\ fs \in [Files -> RowStatuses]
      BY <1>t, StatusTyped, FailedTyped
    <2> HIDE DEF fs, status
    <2> QED
      BY <1>x, <1>f, <1>1, <2>1, <2>2, PanelOfEnded
  <1>4. CASE Fail(j, error)
    <2> DEFINE fs == FailUnfinished(rows[own])
    <2>1. outcome[j] = NoRows /\ EndRun(j, fs, "failed", error, TRUE)
      BY <1>4 DEF Fail
    <2>2. fs \in [Files -> RowStatuses]
      BY <1>t, FailedTyped
    <2> HIDE DEF fs
    <2> QED
      BY <1>x, <1>f, <2>1, <2>2, PanelOfEnded
  <1> QED
    BY <1>2, <1>3, <1>4

(* The entry goes with the run, before the next connection. *)
LEMMA PanelCloses ==
    ASSUME Typed, PanelInv, NEW j \in Jobs, CloseRun(j)
    PROVE  PanelInv'
  <1> DEFINE own == job[j].run
  <1>j. job[j] \in JobRecords /\ job \in [Jobs -> JobRecords]
    BY DEF Typed
  <1>1. /\ job[j].pc = "alerting"
        /\ panel' = [panel EXCEPT ![own] = Absent]
        /\ UNCHANGED <<runs, rows, outcome>>
    BY DEF CloseRun, RemoveEntry, dbVars
  <1>o. /\ own \in RunIds /\ runs[own] # NoRun /\ own # 0
        /\ \A k \in Jobs \ {j} : job[k].run # own
    BY <1>1, OwnEntry
  <1>2. /\ job'[j].pc \in {"idle", "next"} /\ job'[j].run = 0
        /\ \A k \in Jobs \ {j} : job'[k] = job[k]
    <2>1. \/ job' = [job EXCEPT ![j] = Idle]
          \/ job' = [job EXCEPT ![j] = [job[j] EXCEPT !.pc = "next", !.run = 0]]
      BY DEF CloseRun, Raise, Over
    <2>2. CASE job' = [job EXCEPT ![j] = Idle]
      BY <1>j, <2>2 DEF Idle
    <2>3. CASE job' = [job EXCEPT ![j] = [job[j] EXCEPT !.pc = "next", !.run = 0]]
      BY <1>j, <2>3 DEF JobRecords
    <2> QED
      BY <2>1, <2>2, <2>3
  <1>3. panel'[own] = Absent /\ \A s \in RunIds \ {own} : panel'[s] = panel[s]
    BY <1>o, <1>1 DEF PanelInv, PanelTyped
  <1>4. PanelTyped'
    BY <1>1 DEF PanelInv, PanelTyped, Absent
  <1>5. JobFacts(j)'
    <2>1. outcome[j] = NoRows
      BY <1>1 DEF PanelInv, JobFacts
    <2> QED
      BY <1>1, <1>2, <2>1 DEF JobFacts
  <1> QED
    BY <1>o, <1>1, <1>2, <1>3, <1>4, <1>5, PanelOfOne

LEMMA PanelStep == Exclusion /\ PanelInv /\ [Next]_vars => PanelInv'
  <1> SUFFICES ASSUME Exclusion, PanelInv, [Next]_vars PROVE PanelInv'
    OBVIOUS
  <1>t. Typed /\ Processed /\ RecoverySparesTheLiving
    BY DEF Exclusion
  <1>i. ASSUME NEW k \in Jobs, job[k].pc = "idle" PROVE job[k].run = 0
    BY <1>i DEF PanelInv, JobFacts
  <1>1. CASE ResidentStart \/ Exit \/ Exited \/ PostRefused \/ Timeout
             \/ (\E order \in Orders : OrderDirect(order) \/ OrderDelegated(order))
             \/ UNCHANGED vars
    <2>1. UNCHANGED <<runs, rows, job, outcome, panel>>
      BY <1>1 DEF ResidentStart, Exit, Exited, PostRefused, Timeout, OrderDirect,
                  OrderDelegated, vars, dbVars, jobVars
    <2> QED
      BY <2>1, PanelSame
  <1>2. CASE ResidentOpen
    <2>1. \A k \in Jobs : job[k].pc = "idle"
      BY <1>t, <1>2 DEF ResidentOpen, Processed, Owner, Hands
    <2>2. Recover /\ UNCHANGED <<job, outcome, panel>>
      BY <1>2 DEF ResidentOpen, jobVars
    <2> QED
      BY <1>t, <1>i, <2>1, <2>2, PanelRecovered
  <1>3. ASSUME NEW j \in Jobs, OpenCli(j)
        PROVE  PanelInv'
    <2>1. \A k \in Jobs : job[k].pc = "idle"
      BY <1>t, <1>3 DEF OpenCli, Processed, Owner, Hands
    <2>2. Recover /\ UNCHANGED <<outcome, panel>>
      BY <1>3 DEF OpenCli
    <2>3. /\ job'[j].pc = "next" /\ job'[j].run = 0
          /\ \A k \in Jobs \ {j} : job'[k] = job[k]
      BY <1>t, <1>3 DEF OpenCli, NewJob, Idle, Typed
    <2> QED
      BY <1>t, <1>i, <2>1, <2>2, <2>3, PanelRecovered
  <1>4. CASE CrashResident \/ CrashCli
    <2>1. (Die("resident") \/ Die("cli")) /\ UNCHANGED <<runs, rows>>
      BY <1>4 DEF CrashResident, CrashCli, dbVars
    <2> QED
      BY <1>t, <2>1, PanelOfDead
  <1>5. ASSUME NEW j \in Jobs, Post(j) \/ (\E c \in Conns : SchedulerJob(j, c))
        PROVE  PanelInv'
    <2>1. /\ UNCHANGED <<runs, rows, outcome, panel>>
          /\ job[j].pc = "idle" /\ job'[j].pc = "next" /\ job'[j].run = 0
          /\ \A k \in Jobs \ {j} : job'[k] = job[k]
      <3>1. CASE Post(j)
        BY <1>t, <3>1 DEF Post, NewJob, Idle, dbVars, Typed
      <3>2. ASSUME NEW c \in Conns, SchedulerJob(j, c)
            PROVE  /\ UNCHANGED <<runs, rows, outcome, panel>>
                   /\ job[j].pc = "idle" /\ job'[j].pc = "next" /\ job'[j].run = 0
                   /\ \A k \in Jobs \ {j} : job'[k] = job[k]
        BY <1>t, <3>2 DEF SchedulerJob, NewJob, Idle, dbVars, Typed
      <3> QED
        BY <1>5, <3>1, <3>2
    <2> QED
      BY <2>1, PanelSame
  <1>6. ASSUME NEW j \in Jobs, RefuseRun(j)
        PROVE  PanelInv'
    <2>1. /\ UNCHANGED <<runs, rows, outcome, panel>>
          /\ job[j].pc = "next" /\ job'[j].pc = "idle" /\ job'[j].run = 0
          /\ \A k \in Jobs \ {j} : job'[k] = job[k]
      BY <1>t, <1>6 DEF RefuseRun, Raise, Over, Idle, dbVars, Typed
    <2> QED
      BY <2>1, PanelSame
  <1>7. ASSUME NEW j \in Jobs, NEW r \in RunIds, NEW error,
               BeginRun(j, r) \/ FailPreflight(j, r, error)
        PROVE  PanelInv'
    BY <1>t, <1>7, PanelBegins
  <1>8. ASSUME NEW j \in Jobs,
               \/ \E batch \in SUBSET Files : AddBatch(j, batch)
               \/ \E found \in 0..Cardinality(Files) : EndListing(j, found)
        PROVE  PanelInv'
    BY <1>t, <1>8, PanelLists
  <1>9. ASSUME NEW j \in Jobs,
               \/ PcStep(j)
               \/ \E f \in Files, result \in {"ok", "failed"} : WorkerDone(j, f, result)
               \/ RecordBatch(j)
        PROVE  PanelInv'
    BY <1>t, <1>9, PanelQueue
  <1>10. ASSUME NEW j \in Jobs, NEW error \in Faults, OpenCircuit(j, error) \/ Fail(j, error)
         PROVE  PanelInv'
    <2>1. error \in Errors
      BY ApplicationAssumption DEF Errors
    <2> QED
      BY <1>t, <1>10, <2>1, PanelEnds
  <1>11. ASSUME NEW j \in Jobs, Verdict(j)
         PROVE  PanelInv'
    <2>1. "none" \in Errors
      BY DEF Errors
    <2> QED
      BY <1>t, <1>11, <2>1, PanelEnds
  <1>12. ASSUME NEW j \in Jobs, TakeAlert(j) \/ Send(j)
         PROVE  PanelInv'
    <2>1. /\ UNCHANGED <<runs, rows, outcome, panel>>
          /\ \A k \in Jobs : job'[k].pc = job[k].pc /\ job'[k].run = job[k].run
      BY <1>t, <1>12, AlertKeepsJob DEF TakeAlert, Send
    <2> QED
      BY <2>1, PanelSame
  <1>13. ASSUME NEW j \in Jobs, CloseRun(j)
         PROVE  PanelInv'
    BY <1>t, <1>13, PanelCloses
  <1> QED
    BY <1>1, <1>2, <1>3, <1>4, <1>5, <1>6, <1>7, <1>8, <1>9, <1>10, <1>11, <1>12, <1>13
    DEF Next, Processes, CommandLine, JobStep, PcStep

LEMMA PanelInvariant == ~Overlap /\ Spec => [](Exclusion /\ PanelInv)
  <1>1. Init => PanelInv
    BY InitPanel
  <1>2. Exclusion /\ PanelInv /\ [Next]_vars => PanelInv'
    BY PanelStep
  <1> QED
    BY <1>1, <1>2, ExclusionInvariant, PTL DEF Spec

(* From the end of the discovery on, what the panel shows as done, what is
   claimed and what is in the queue add up to the total it shows, at every step
   of the thread of the run and of its workers (app/progress.py beside the queue
   of the coordinator), and the files it shows in hand are those claimed and not
   done, once their space is estimated; when nobody has the run any more its
   entry is gone. *)
THEOREM PanelIsRight == ~Overlap /\ Spec => []PanelAddsUp
  <1>1. PanelInv => PanelAddsUp
    <2> SUFFICES ASSUME PanelInv PROVE PanelAddsUp
      OBVIOUS
    <2>1. \A r \in RunIds : Shown(r) => \E j \in Jobs : job[j].run = r
      BY DEF PanelInv
    <2>2. ASSUME NEW j \in Jobs, job[j].pc = "discovering"
          PROVE  Snapshot(job[j].run).phase = "discovering"
      BY <2>2 DEF PanelInv, JobFacts, Snapshot, Absent
    <2>3. ASSUME NEW j \in Jobs, job[j].pc \in {"estimating", "downloading"}
          PROVE  /\ Snapshot(job[j].run).phase = "downloading"
                 /\ panel[job[j].run].files =
                      IF job[j].pc = "downloading" THEN InHand(j) ELSE {}
                 /\ Snapshot(job[j].run).total =
                      Snapshot(job[j].run).completed + Cardinality(InHand(j))
                      + Count(rows[job[j].run], "pending")
      BY <2>3 DEF PanelInv, JobFacts, Snapshot
    <2> QED
      BY <2>1, <2>2, <2>3 DEF PanelAddsUp
  <1> QED
    BY <1>1, PanelInvariant, PTL

-----------------------------------------------------------------------------
(* The result that a run is shown with. *)

Honest(run, fs) ==
    /\ run.status = "running" => run.downloaded = 0
    /\ run.downloaded > 0 => run.found > 0
    /\ IsSuccess(run) => \A f \in Files : fs[f] \in {"none", "ok"}

ResultInv == \A r \in RunIds : Honest(runs[r], rows[r])

LEMMA InitHonest == Init => ResultInv
  <1> SUFFICES ASSUME Init, NEW r \in RunIds PROVE Honest(runs[r], rows[r])
    BY DEF ResultInv
  <1>1. rows[r] = NoRows
    BY DEF Init
  <1>2. CASE runs[r] = NoRun
    BY <1>1, <1>2 DEF Honest, NoRun, IsSuccess
  <1>3. ASSUME NEW c \in Legacy, runs[r] = LegacyRun(c)
        PROVE  Honest(runs[r], rows[r])
    <2>1. runs[r].status = "partial" /\ runs[r].found = 1
      BY <1>3 DEF LegacyRun, NoRun
    <2> QED
      BY <1>1, <2>1 DEF Honest, NoRows
  <1> QED
    BY <1>2, <1>3 DEF Init

(* A run that ends: what is downloaded has a row, so it is found as well; and
   a success is a run with no row that failed. *)
LEMMA EndedHonest ==
    ASSUME NEW run \in RunRecords, NEW fs \in [Files -> RowStatuses],
           NEW error \in Errors, NEW warned \in BOOLEAN, NEW status \in Terminal,
           With(fs, "pending") \cup With(fs, "downloading") = {},
           status = "failed" \/ status = StatusOf(fs, warned)
    PROVE  Honest(Ended(run, fs, status, error, warned), fs)
  <1> DEFINE new == Ended(run, fs, status, error, warned)
             stored == Persisted(fs)
             ok == Count(fs, "ok")
             failed == Count(fs, "failed")
             found == IF run.found < stored THEN stored ELSE run.found
  <1>1. ok \in Nat /\ failed \in Nat /\ stored \in Nat
    BY CountsAreNat
  <1>2. ok <= stored
    <2>1. With(fs, "ok") \subseteq Files \ With(fs, "none")
      BY DEF With
    <2>2. IsFiniteSet(Files \ With(fs, "none"))
      BY FilesAreFinite
    <2> QED
      BY <2>1, <2>2, FS_Subset DEF Count, Persisted
  <1>3. failed = 0 => \A f \in Files : fs[f] \in {"none", "ok"}
    <2>1. IsFiniteSet(With(fs, "failed"))
      BY FilesAreFinite DEF With
    <2>2. failed = 0 => With(fs, "failed") = {}
      BY <2>1, FS_EmptySet DEF Count
    <2> QED
      BY <2>2 DEF With, RowStatuses
  <1>4. status # "failed" => status = "partial" \/ failed = 0
    BY <1>1 DEF StatusOf, Terminal
  <1>5. /\ new.status = status /\ new.downloaded = ok /\ new.failed = failed
        /\ new.found = found
    <2> HIDE DEF ok, failed, stored
    <2>1. new = [run EXCEPT !.status = status, !.error = error, !.warned = warned,
                            !.found = IF run.found < stored THEN stored ELSE run.found,
                            !.downloaded = ok, !.failed = failed]
      BY DEF Ended, ok, failed, stored
    <2> HIDE DEF new
    <2> QED
      BY <2>1 DEF RunRecords
  <1>6. run.found \in Nat
    BY DEF RunRecords
  <1> HIDE DEF new, ok, failed, stored
  <1>7. new.downloaded > 0 => new.found > 0
    BY <1>1, <1>2, <1>5, <1>6
  <1>8. IsSuccess(new) => failed = 0
    BY <1>4, <1>5 DEF IsSuccess, Terminal
  <1>9. new.status # "running"
    BY <1>5 DEF Terminal
  <1>10. Honest(new, fs)
    BY <1>3, <1>7, <1>8, <1>9 DEF Honest
  <1> QED
    BY <1>10 DEF new

LEMMA NothingUnfinished ==
    ASSUME NEW fs \in [Files -> RowStatuses]
    PROVE  LET ended == FailUnfinished(fs)
           IN With(ended, "pending") \cup With(ended, "downloading") = {}
  BY DEF FailUnfinished, With, RowStatuses

LEMMA HonestEnds ==
    ASSUME Typed, PanelInv, ResultInv, NEW j \in Jobs, NEW error \in Errors,
           Verdict(j) \/ OpenCircuit(j, error) \/ Fail(j, error)
    PROVE  ResultInv'
  <1> DEFINE own == job[j].run
  <1>p. job[j].pc \notin {"idle", "next"}
    BY DEF Verdict, OpenCircuit, Fail, Executing
  <1>t. /\ own \in RunIds /\ rows[own] \in [Files -> RowStatuses]
        /\ runs[own] \in RunRecords /\ job[j].warned \in BOOLEAN
    BY <1>p, OwnEntry DEF Typed, JobRecords, PanelInv, PanelTyped
  <1>f. "failed" \in Terminal
    BY DEF Terminal
  <1>1. ASSUME NEW fs \in [Files -> RowStatuses], NEW status \in Terminal, NEW err \in Errors,
               NEW raising, EndRun(j, fs, status, err, raising),
               With(fs, "pending") \cup With(fs, "downloading") = {},
               status = "failed" \/ status = StatusOf(fs, job[j].warned)
        PROVE  ResultInv'
    <2> DEFINE run == Ended(runs[own], fs, status, err, job[j].warned)
    <2>1. Honest(run, fs)
      BY <1>1, <1>t, EndedHonest
    <2>2. rows' = [rows EXCEPT ![own] = fs] /\ runs' = [runs EXCEPT ![own] = run]
      BY <1>1 DEF EndRun
    <2> HIDE DEF run
    <2>3. /\ rows'[own] = fs /\ runs'[own] = run
          /\ \A s \in RunIds \ {own} : rows'[s] = rows[s] /\ runs'[s] = runs[s]
      BY <1>t, <2>2 DEF Typed, PanelInv, PanelTyped
    <2> QED
      BY <2>1, <2>3 DEF ResultInv
  <1>2. CASE Verdict(j)
    <2> DEFINE status == StatusOf(rows[own], job[j].warned)
               err    == IF job[j].warned THEN "path_invalid" ELSE "none"
    <2>1. /\ With(rows[own], "pending") \cup With(rows[own], "downloading") = {}
          /\ EndRun(j, rows[own], status, err, FALSE)
      BY <1>2 DEF Verdict
    <2>2. status \in Terminal /\ err \in Errors
      BY StatusTyped DEF Errors
    <2>3. status = StatusOf(rows[own], job[j].warned)
      OBVIOUS
    <2> HIDE DEF status, err
    <2> QED
      BY <1>t, <1>1, <2>1, <2>2, <2>3
  <1>3. CASE OpenCircuit(j, error)
    <2> DEFINE fs     == FailUnfinished(rows[own])
               status == StatusOf(fs, job[j].warned)
    <2>1. EndRun(j, fs, status, error, FALSE)
      BY <1>3 DEF OpenCircuit
    <2>2. /\ status \in Terminal /\ fs \in [Files -> RowStatuses]
          /\ With(fs, "pending") \cup With(fs, "downloading") = {}
      BY <1>t, StatusTyped, FailedTyped, NothingUnfinished
    <2>3. status = StatusOf(fs, job[j].warned)
      OBVIOUS
    <2> HIDE DEF fs, status
    <2> QED
      BY <1>1, <2>1, <2>2, <2>3
  <1>4. CASE Fail(j, error)
    <2> DEFINE fs == FailUnfinished(rows[own])
    <2>1. EndRun(j, fs, "failed", error, TRUE)
      BY <1>4 DEF Fail
    <2>2. /\ fs \in [Files -> RowStatuses]
          /\ With(fs, "pending") \cup With(fs, "downloading") = {}
      BY <1>t, FailedTyped, NothingUnfinished
    <2> HIDE DEF fs
    <2> QED
      BY <1>f, <1>1, <2>1, <2>2
  <1> QED
    BY <1>2, <1>3, <1>4

(* A recovery ends every run that was going on. *)
LEMMA HonestRecovered ==
    ASSUME Typed, PanelInv, ResultInv, Recover
    PROVE  ResultInv'
  <1> SUFFICES ASSUME NEW r \in RunIds PROVE Honest(runs'[r], rows'[r])
    BY DEF ResultInv
  <1>t. /\ runs[r] \in RunRecords /\ runs[r].warned \in BOOLEAN
        /\ rows[r] \in [Files -> RowStatuses]
    BY DEF Typed, RunRecords, PanelInv, PanelTyped
  <1>1. CASE runs[r].status = "running"
    <2> DEFINE fs == FailUnfinished(rows[r])
    <2>1. rows'[r] = fs
      BY <1>1 DEF Recover
    <2>2. runs'[r] = Ended(runs[r], fs, "failed", "interrupted", runs[r].warned)
      BY <1>1, <2>1 DEF Recover
    <2>3. /\ fs \in [Files -> RowStatuses]
          /\ With(fs, "pending") \cup With(fs, "downloading") = {}
      BY <1>t, FailedTyped, NothingUnfinished
    <2>4. "failed" \in Terminal /\ "interrupted" \in Errors
      BY DEF Terminal, Errors
    <2> HIDE DEF fs
    <2> QED
      BY <1>t, <2>1, <2>2, <2>3, <2>4, EndedHonest
  <1>2. CASE runs[r].status # "running"
    BY <1>2 DEF Recover, ResultInv
  <1> QED
    BY <1>1, <1>2

(* Steps on the row of one run, which is still running afterwards or has just
   been refused: nothing was downloaded, as far as its row says. *)
LEMMA HonestOfOne ==
    ASSUME ResultInv, NEW own \in RunIds,
           \A r \in RunIds \ {own} : runs'[r] = runs[r] /\ rows'[r] = rows[r],
           runs'[own].status \in {"running", "failed"}, runs'[own].downloaded = 0
    PROVE  ResultInv'
  BY DEF ResultInv, Honest, IsSuccess

LEMMA HonestBegins ==
    ASSUME Typed, PanelInv, ResultInv, NEW j \in Jobs, NEW r \in RunIds, NEW error,
           BeginRun(j, r) \/ FailPreflight(j, r, error)
    PROVE  ResultInv'
  <1> DEFINE run == [RowFor(j) EXCEPT !.status = "failed", !.error = error]
  <1>1. /\ RowFor(j).status = "running" /\ RowFor(j).downloaded = 0
        /\ run.status = "failed" /\ run.downloaded = 0
    BY DEF RowFor, NoRun
  <1>2. /\ runs' = [runs EXCEPT ![r] = RowFor(j)] \/ runs' = [runs EXCEPT ![r] = run]
        /\ UNCHANGED rows
    BY DEF BeginRun, FailPreflight
  <1> HIDE DEF run
  <1>3. /\ runs'[r] \in {RowFor(j), run}
        /\ \A s \in RunIds \ {r} : runs'[s] = runs[s] /\ rows'[s] = rows[s]
    BY <1>2 DEF Typed
  <1> QED
    BY <1>1, <1>3, HonestOfOne

LEMMA HonestGoesOn ==
    ASSUME Typed, PanelInv, RecoverySparesTheLiving, ResultInv, NEW j \in Jobs,
           \/ \E batch \in SUBSET Files : AddBatch(j, batch) \/ ClaimBatch(j, batch)
           \/ \E found \in 0..Cardinality(Files) : EndListing(j, found)
           \/ RecordBatch(j)
    PROVE  ResultInv'
  <1> DEFINE own == job[j].run
  <1>p. job[j].pc \in {"discovering", "downloading"}
    BY DEF AddBatch, ClaimBatch, EndListing, RecordBatch
  <1>o. own \in RunIds /\ runs[own] \in RunRecords
    BY <1>p, OwnEntry DEF Typed
  <1>s. runs[own].status = "running" /\ runs[own].downloaded = 0
    BY <1>p, <1>o DEF RecoverySparesTheLiving, Executing, ResultInv, Honest
  <1>1. \/ runs' = runs
        \/ \E found : runs' = [runs EXCEPT ![own] = [runs[own] EXCEPT !.found = found]]
    <2>1. ASSUME NEW batch \in SUBSET Files, AddBatch(j, batch)
          PROVE  \E found : runs' = [runs EXCEPT ![own] = [runs[own] EXCEPT !.found = found]]
      <3> DEFINE found == runs[own].found + Cardinality(batch)
      <3>1. runs' = [runs EXCEPT ![own] = [runs[own] EXCEPT !.found = found]]
        BY <2>1 DEF AddBatch
      <3> HIDE DEF found
      <3> QED
        BY <3>1
    <2>2. ASSUME NEW found, EndListing(j, found)
          PROVE  runs' = [runs EXCEPT ![own] = [runs[own] EXCEPT !.found = found]]
      BY <2>2 DEF EndListing
    <2>3. ASSUME NEW batch \in SUBSET Files, ClaimBatch(j, batch)
          PROVE  runs' = runs
      BY <2>3 DEF ClaimBatch
    <2>4. CASE RecordBatch(j)
      BY <2>4 DEF RecordBatch
    <2> QED
      BY <2>1, <2>2, <2>3, <2>4
  <1>2. /\ runs'[own].status = "running" /\ runs'[own].downloaded = 0
        /\ \A s \in RunIds \ {own} : runs'[s] = runs[s]
    <2>1. CASE runs' = runs
      BY <1>s, <2>1
    <2>2. ASSUME NEW found, runs' = [runs EXCEPT ![own] = [runs[own] EXCEPT !.found = found]]
          PROVE  /\ runs'[own].status = "running" /\ runs'[own].downloaded = 0
                 /\ \A s \in RunIds \ {own} : runs'[s] = runs[s]
      BY <1>o, <1>s, <2>2 DEF Typed, RunRecords
    <2> QED
      BY <1>1, <2>1, <2>2
  <1>3. \A s \in RunIds \ {own} : rows'[s] = rows[s]
    <2>1. rows' = rows \/ \E fs : rows' = [rows EXCEPT ![own] = fs]
      BY DEF AddBatch, ClaimBatch, EndListing, RecordBatch
    <2> QED
      BY <2>1 DEF PanelInv, PanelTyped
  <1> QED
    BY <1>o, <1>2, <1>3, HonestOfOne

LEMMA HonestStep == Exclusion /\ PanelInv /\ ResultInv /\ [Next]_vars => ResultInv'
  <1> SUFFICES ASSUME Exclusion, PanelInv, ResultInv, [Next]_vars PROVE ResultInv'
    OBVIOUS
  <1>t. Typed /\ RecoverySparesTheLiving
    BY DEF Exclusion
  <1>1. ASSUME UNCHANGED <<runs, rows>>
        PROVE  ResultInv'
    BY <1>1 DEF ResultInv
  <1>2. CASE ResidentStart \/ Exit \/ Exited \/ PostRefused \/ Timeout
             \/ (\E order \in Orders : OrderDirect(order) \/ OrderDelegated(order))
             \/ CrashResident \/ CrashCli \/ UNCHANGED vars
    BY <1>1, <1>2 DEF ResidentStart, Exit, Exited, PostRefused, Timeout, OrderDirect,
                      OrderDelegated, CrashResident, CrashCli, vars, dbVars
  <1>3. CASE ResidentOpen \/ (\E j \in Jobs : OpenCli(j))
    BY <1>t, <1>3, HonestRecovered DEF ResidentOpen, OpenCli
  <1>4. ASSUME NEW j \in Jobs,
               \/ \E c \in Conns : SchedulerJob(j, c)
               \/ \E f \in Files, result \in {"ok", "failed"} : WorkerDone(j, f, result)
               \/ Post(j) \/ RefuseRun(j) \/ OpenRun(j) \/ ShowBatch(j)
               \/ TakeAlert(j) \/ Send(j) \/ CloseRun(j)
        PROVE  ResultInv'
    BY <1>1, <1>4 DEF SchedulerJob, WorkerDone, Post, OpenRun, ShowBatch, RefuseRun, TakeAlert, Send, CloseRun,
                      dbVars
  <1>5. ASSUME NEW j \in Jobs, NEW r \in RunIds, NEW error,
               BeginRun(j, r) \/ FailPreflight(j, r, error)
        PROVE  ResultInv'
    BY <1>t, <1>5, HonestBegins
  <1>6. ASSUME NEW j \in Jobs,
               \/ \E batch \in SUBSET Files : AddBatch(j, batch) \/ ClaimBatch(j, batch)
               \/ \E found \in 0..Cardinality(Files) : EndListing(j, found)
               \/ RecordBatch(j)
        PROVE  ResultInv'
    BY <1>t, <1>6, HonestGoesOn
  <1>7. ASSUME NEW j \in Jobs, NEW error \in Faults, OpenCircuit(j, error) \/ Fail(j, error)
        PROVE  ResultInv'
    <2>1. error \in Errors
      BY ApplicationAssumption DEF Errors
    <2> QED
      BY <1>t, <1>7, <2>1, HonestEnds
  <1>8. ASSUME NEW j \in Jobs, Verdict(j)
        PROVE  ResultInv'
    <2>1. "none" \in Errors
      BY DEF Errors
    <2> QED
      BY <1>t, <1>8, <2>1, HonestEnds
  <1> QED
    BY <1>2, <1>3, <1>4, <1>5, <1>6, <1>7, <1>8
    DEF Next, Processes, CommandLine, JobStep

(* The word that a run is shown with (run_result_status), the filter of the
   list (list_runs) and the rows of its files agree, whatever release stored
   the run and whatever happened while it was executed. *)
THEOREM ResultsAgree == ~Overlap /\ Spec => []ResultsAreHonest
  <1>1. Typed /\ ResultInv => ResultsAreHonest
    <2> SUFFICES ASSUME Typed, ResultInv, NEW r \in RunIds
                 PROVE  LET result == ResultStatus(runs[r])
                        IN /\ result \in Successes =>
                                \A f \in Files : rows[r][f] \in {"none", "ok"}
                           /\ \A filter \in Successes \cup {"partial", "failed", "running"} :
                                Selected(runs[r], filter) <=> result = filter
      BY DEF ResultsAreHonest
    <2> DEFINE run == runs[r]
               result == ResultStatus(run)
    <2>1. run \in RunRecords /\ Honest(run, rows[r])
      BY DEF Typed, ResultInv
    <2> HIDE DEF run
    <2>2. /\ run.found \in Nat /\ run.downloaded \in Nat /\ run.failed \in Nat
          /\ run.status \in {"absent", "running", "ok", "partial", "failed"}
      BY <2>1 DEF RunRecords, Terminal
    <2>3. result \in Successes => IsSuccess(run)
      BY <2>2 DEF ResultStatus, Successes, IsSuccess, LegacyNotice
    <2> DEFINE filters == Successes \cup {"partial", "failed", "running"}
    <2>4. ASSUME IsSuccess(run)
          PROVE  \A filter \in filters : Selected(run, filter) <=> result = filter
      <3>1. result = IF run.found = 0 THEN "no_files"
                     ELSE IF run.downloaded = 0 THEN "no_changes" ELSE "completed"
        BY <2>4 DEF ResultStatus, IsSuccess, LegacyNotice
      <3>2. run.downloaded > 0 => run.found > 0
        BY <2>1 DEF Honest
      <3>3. /\ Selected(run, "no_files") <=> result = "no_files"
            /\ Selected(run, "no_changes") <=> result = "no_changes"
            /\ Selected(run, "completed") <=> result = "completed"
        BY <2>2, <2>4, <3>1, <3>2 DEF Selected
      <3>4. /\ ~Selected(run, "partial") /\ ~Selected(run, "failed")
            /\ ~Selected(run, "running")
        BY <2>2, <2>4 DEF Selected, IsSuccess
      <3> QED
        BY <3>1, <3>3, <3>4 DEF Successes
    <2>5. ASSUME ~IsSuccess(run)
          PROVE  \A filter \in filters : Selected(run, filter) <=> result = filter
      <3>1. result = run.status
        BY <2>5 DEF ResultStatus, IsSuccess, LegacyNotice
      <3>2. /\ ~Selected(run, "no_files") /\ ~Selected(run, "no_changes")
            /\ ~Selected(run, "completed")
        BY <2>5 DEF Selected
      <3>3. /\ Selected(run, "partial") <=> run.status = "partial"
            /\ Selected(run, "failed") <=> run.status = "failed"
            /\ Selected(run, "running") <=> run.status = "running"
        BY <2>2, <2>5 DEF Selected, IsSuccess
      <3> QED
        BY <2>2, <3>1, <3>2, <3>3 DEF Successes
    <2>6. /\ result \in Successes => \A f \in Files : rows[r][f] \in {"none", "ok"}
          /\ \A filter \in filters : Selected(run, filter) <=> result = filter
      <3>1. result \in Successes => \A f \in Files : rows[r][f] \in {"none", "ok"}
        BY <2>1, <2>3 DEF Honest
      <3> QED
        BY <3>1, <2>4, <2>5
    <2> QED
      BY <2>6 DEF run
  <1>2. Init => ResultInv
    BY InitHonest
  <1>3. Exclusion /\ PanelInv /\ ResultInv /\ [Next]_vars => ResultInv'
    BY HonestStep
  <1>4. Exclusion => Typed
    BY DEF Exclusion
  <1> QED
    BY <1>1, <1>2, <1>3, <1>4, PanelInvariant, PTL DEF Spec
=============================================================================
