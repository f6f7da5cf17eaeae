---------------------- MODULE ApplicationOrdersProofs ----------------------
(***************************************************************************)
(* Theorems about what Application owes to others: the alerts of the runs  *)
(* (AlertsInv), the order of the command line (OrderInv), and the types    *)
(* (CountsInv), on top of the exclusion and of the panel that              *)
(* ApplicationProofs establishes, when the command line does not start     *)
(* while a resident is exiting.                                            *)
(***************************************************************************)
EXTENDS ApplicationProofs

-----------------------------------------------------------------------------
(* The alerts.  The run of a connection that is being executed is its latest,
   so what the ended ones deserve does not change; and what a thread has still
   to send, is sending and has sent is all that its run deserves. *)

HasEnded(r) == runs[r].status \in Terminal

LatestRuns ==
    /\ \A r, s \in RunIds : s < r /\ runs[s] = NoRun => runs[r] = NoRun
    /\ \A r \in RunIds : runs[r].status = "absent" => runs[r] = NoRun
    /\ \A r, s \in RunIds :
         s < r /\ runs[s].status = "running" /\ runs[r] # NoRun
         => runs[s].conn # runs[r].conn

InHands ==
    /\ \A r \in RunIds : runs[r].status = "running" =>
         r \in dead \/ \E j \in Jobs : Executing(j) /\ job[j].run = r
    /\ \A r \in dead : r \in RunIds /\ runs[r] # NoRun /\ \A j \in Jobs : job[j].run # r

Evaluation(j) ==
    LET r == job[j].run
    IN /\ HasEnded(r)
       /\ \A a \in job[j].due \cup job[j].sending : a \in AnAlert /\ a.run = r
       /\ \A a \in job[j].due : ~Claimed(a)
       /\ \A a \in job[j].sending : Row(a, "pending") \in alerts
       /\ \A a, b \in job[j].sending : a = b
       /\ \A a \in DueFor(r, runs[r]) :
            a \in job[j].due \cup job[j].sending \/ Settled(a)

OfEndedRuns ==
    \A row \in alerts : row.run \in RunIds /\ HasEnded(row.run)

AlertsInv ==
    /\ AlertsTypeOK(RunIds)
    /\ OfEndedRuns
    /\ LatestRuns
    /\ InHands
    /\ \A j \in Jobs : IF job[j].pc = "alerting" THEN Evaluation(j) ELSE job[j].sending = {}
    /\ AlertsAreOut

(* A step that changes the rows of runs that are being executed and new ones. *)
RowsAdvance ==
    \A s \in RunIds :
        \/ runs'[s] = runs[s]
        \/ runs[s] = NoRun
        \/ /\ runs[s].status = "running" /\ runs'[s].conn = runs[s].conn
           /\ runs'[s].status \in Terminal \cup {"running"}

(* What a run that ended deserves stays the same. *)
LEMMA DueStays ==
    ASSUME LatestRuns, RowsAdvance, NEW r \in RunIds, HasEnded(r)
    PROVE  runs'[r] = runs[r] /\ HasEnded(r)' /\ DueFor(r, runs[r])' = DueFor(r, runs[r])
  <1>1. runs[r] # NoRun /\ runs[r].status # "running"
    BY DEF HasEnded, Terminal, NoRun
  <1>2. runs'[r] = runs[r]
    BY <1>1 DEF RowsAdvance
  <1>3. ASSUME NEW s \in RunIds, s < r
        PROVE  /\ runs'[s].conn = runs[s].conn
               /\ runs[s].conn = runs[r].conn => runs'[s] = runs[s]
    BY <1>1, <1>3 DEF RowsAdvance, LatestRuns
  <1>4. HadFiles(runs[r].conn, r)' <=> HadFiles(runs[r].conn, r)
    BY <1>2, <1>3 DEF HadFiles
  <1>5. HadFiles(runs[r].conn, r) \in BOOLEAN /\ HadFiles(runs[r].conn, r)' \in BOOLEAN
    BY DEF HadFiles
  <1>6. HadFiles(runs[r].conn, r)' = HadFiles(runs[r].conn, r)
    BY <1>4, <1>5
  <1>7. DueFor(r, runs[r])' = Due(r, runs'[r], HadFiles(runs[r].conn, r)')
    BY DEF DueFor, Due, Causes
  <1> QED
    BY <1>2, <1>6, <1>7 DEF DueFor, HasEnded

(* A step that adds no row of runs. *)
LEMMA LatestStays ==
    ASSUME Typed, LatestRuns, RowsAdvance, \A s \in RunIds : runs[s] = NoRun => runs'[s] = NoRun
    PROVE  LatestRuns'
  <1>1. ASSUME NEW s \in RunIds
        PROVE  /\ runs'[s] = NoRun <=> runs[s] = NoRun
               /\ runs'[s].conn = runs[s].conn
               /\ runs'[s].status = "absent" => runs'[s] = NoRun
               /\ runs'[s].status = "running" => runs[s].status = "running"
    BY DEF RowsAdvance, LatestRuns, NoRun, Terminal
  <1> QED
    BY <1>1 DEF LatestRuns

(* A step that leaves the log of the alerts alone. *)
LEMMA LogStays ==
    ASSUME AlertsInv, RowsAdvance, UNCHANGED alerts
    PROVE  AlertsTypeOK(RunIds)' /\ OfEndedRuns' /\ \A a : Settled(a) => Settled(a)'
  <1>1. AlertsTypeOK(RunIds)'
    BY DEF AlertsInv, AlertsTypeOK
  <1>2. OfEndedRuns'
    BY DueStays DEF AlertsInv, OfEndedRuns
  <1>3. \A a : Settled(a) => Settled(a)'
    BY DEF Settled
  <1> QED
    BY <1>1, <1>2, <1>3

(* And so does the evaluation of a thread that does nothing. *)
LEMMA EvaluationStays ==
    ASSUME PanelInv, AlertsInv, RowsAdvance, UNCHANGED alerts,
           NEW k \in Jobs, job'[k].pc = "alerting", job'[k] = job[k]
    PROVE  Evaluation(k)'
  <1>1. job[k].pc = "alerting" /\ Evaluation(k)
    BY DEF AlertsInv
  <1>2. job[k].run \in RunIds /\ HasEnded(job[k].run)
    BY <1>1, OwnEntry DEF Evaluation
  <1>3. /\ HasEnded(job[k].run)'
        /\ DueFor(job[k].run, runs[job[k].run])' = DueFor(job[k].run, runs[job[k].run])
    BY <1>2, DueStays DEF AlertsInv
  <1>4. \A a : (Claimed(a)' <=> Claimed(a)) /\ (Settled(a)' <=> Settled(a))
    BY DEF Claimed, Settled
  <1> QED
    BY <1>1, <1>3, <1>4 DEF Evaluation

(* The runs that nobody has in hand any more keep what they deserve. *)
LEMMA OutStays ==
    ASSUME AlertsInv, RowsAdvance, dead \subseteq dead',
           \A a : Settled(a) => Settled(a)',
           NEW r \in RunIds, HasEnded(r), r \notin dead, \A j \in Jobs : job[j].run # r
    PROVE  \A a \in DueFor(r, runs[r])' : Settled(a)'
  <1>1. \A a \in DueFor(r, runs[r]) : Settled(a)
    BY DEF AlertsInv, AlertsAreOut, HasEnded
  <1> QED
    BY <1>1, DueStays DEF AlertsInv


LEMMA InitAlerts == Init => AlertsInv
  <1> SUFFICES ASSUME Init PROVE AlertsInv
    OBVIOUS
  <1>1. \A r \in RunIds : runs[r] # NoRun =>
          /\ \A s \in RunIds : r <= s
          /\ \E c \in Legacy : runs[r] = LegacyRun(c)
    BY DEF Init
  <1>2. AlertsTypeOK(RunIds) /\ OfEndedRuns
    BY DEF Init, AlertsInit, AlertsTypeOK, OfEndedRuns
  <1>s. \A r \in RunIds : runs[r] # NoRun => runs[r].status = "partial"
    BY <1>1 DEF NoRun, LegacyRun
  <1>3. LatestRuns
    <2>1. \A r, s \in RunIds : s < r => runs[r] = NoRun
      BY <1>1, ApplicationAssumption
    <2>2. \A r \in RunIds : runs[r].status = "absent" => runs[r] = NoRun
      BY <1>s
    <2> QED
      BY <2>1, <2>2 DEF LatestRuns
  <1>4. InHands
    <2>1. dead = {} /\ \A r \in RunIds : runs[r].status # "running"
      BY <1>s DEF Init, NoRun
    <2> QED
      BY <2>1 DEF InHands
  <1>5. \A j \in Jobs : job[j].pc # "alerting" /\ job[j].sending = {}
    BY DEF Init, Idle
  <1>6. ASSUME NEW r \in RunIds, runs[r].status \in Terminal
        PROVE  DueFor(r, runs[r]) = {}
    <2>1. runs[r] # NoRun
      BY <1>6 DEF NoRun, Terminal
    <2>2. PICK c \in Legacy : runs[r] = LegacyRun(c)
      BY <1>1, <2>1
    <2>3. /\ runs[r].status = "partial" /\ runs[r].failed = 0 /\ runs[r].error = "none"
          /\ ~(runs[r].failed >= Threshold)
      BY <2>2, ApplicationAssumption DEF LegacyRun, NoRun
    <2>4. Causes(runs[r], HadFiles(runs[r].conn, r)) = {}
      BY <2>3 DEF Causes
    <2> QED
      BY <2>4 DEF DueFor, Due
  <1>7. AlertsAreOut
    BY <1>6 DEF AlertsAreOut
  <1> QED
    BY <1>2, <1>3, <1>4, <1>5, <1>7 DEF AlertsInv

(* A step that ends no run, begins none and evaluates nothing. *)
LEMMA AlertsGoOn ==
    ASSUME Typed, PanelInv, AlertsInv, UNCHANGED <<alerts, dead>>,
           \A s \in RunIds :
               \/ runs'[s] = runs[s]
               \/ /\ runs[s].status = "running" /\ runs'[s].conn = runs[s].conn
                  /\ runs'[s].status = "running",
           \A k \in Jobs : /\ job'[k].run = job[k].run
                           /\ Executing(k) => Executing(k)'
                           /\ IF job'[k].pc = "alerting" THEN job'[k] = job[k]
                              ELSE job'[k].sending = {}
    PROVE  AlertsInv'
  <1>1. RowsAdvance
    BY DEF RowsAdvance
  <1>2. LatestRuns'
    BY <1>1, LatestStays DEF NoRun, AlertsInv
  <1>3. \A s \in RunIds : runs'[s].status = runs[s].status /\ (runs'[s] = NoRun <=> runs[s] = NoRun)
    BY DEF NoRun
  <1>4. InHands'
    BY <1>3 DEF InHands, AlertsInv
  <1>5. AlertsAreOut'
    <2> SUFFICES ASSUME NEW r \in RunIds, runs'[r].status \in Terminal, r \notin dead',
                        \A j \in Jobs : job'[j].run # r
                 PROVE  \A a \in DueFor(r, runs[r])' : Settled(a)'
      BY DEF AlertsAreOut
    <2>1. HasEnded(r) /\ r \notin dead /\ \A j \in Jobs : job[j].run # r
      BY <1>3 DEF HasEnded
    <2>2. \A a : Settled(a) => Settled(a)'
      BY DEF Settled
    <2> QED
      BY <1>1, <2>1, <2>2, OutStays
  <1> QED
    BY <1>1, <1>2, <1>4, <1>5, LogStays, EvaluationStays DEF AlertsInv

(* A new row comes after all the others, and none of its connection is running. *)
LEMMA LatestInserted ==
    ASSUME Typed, LatestRuns, NEW j \in Jobs, NEW r \in RunIds, Insert(j, r), NEW new,
           runs' = [runs EXCEPT ![r] = new], new.conn = Head(job[j].todo),
           new.status \in Terminal \cup {"running"}
    PROVE  LatestRuns' /\ RowsAdvance
  <1>1. /\ runs[r] = NoRun
        /\ \A s \in RunIds : runs[s] = NoRun => r <= s
        /\ \A s \in RunIds : runs[s].status = "running" => runs[s].conn # new.conn
    BY DEF Insert, Busy
  <1>2. runs'[r] = new /\ \A s \in RunIds \ {r} : runs'[s] = runs[s]
    BY DEF Typed
  <1>3. new # NoRun /\ new.status # "absent"
    BY DEF NoRun, Terminal
  <1>4. RowsAdvance
    BY <1>1, <1>2 DEF RowsAdvance
  <1>5. \A s \in RunIds : s > r => runs[s] = NoRun
    BY <1>1, ApplicationAssumption DEF LatestRuns
  <1>6. \A s \in RunIds : s < r => runs[s] # NoRun
    BY <1>1, ApplicationAssumption
  <1>7. ASSUME NEW s \in RunIds, NEW t \in RunIds, s < t, runs'[s] = NoRun
        PROVE  runs'[t] = NoRun
    BY <1>2, <1>3, <1>5, <1>6, <1>7, ApplicationAssumption DEF LatestRuns
  <1>8. ASSUME NEW s \in RunIds, NEW t \in RunIds, s < t, runs'[s].status = "running",
               runs'[t] # NoRun
        PROVE  runs'[s].conn # runs'[t].conn
    <2>1. CASE t = r
      <3>1. s # r /\ runs'[s] = runs[s]
        BY <1>2, <1>8, <2>1, ApplicationAssumption
      <3> QED
        BY <1>1, <1>2, <1>8, <2>1, <3>1
    <2>2. CASE s = r
      <3>1. t > r /\ t # r
        BY <1>8, <2>2, ApplicationAssumption
      <3> QED
        BY <1>2, <1>5, <1>8, <3>1
    <2>3. CASE s # r /\ t # r
      BY <1>2, <1>8, <2>3 DEF LatestRuns
    <2> QED
      BY <2>1, <2>2, <2>3
  <1>9. \A s \in RunIds : runs'[s].status = "absent" => runs'[s] = NoRun
    BY <1>2, <1>3 DEF LatestRuns
  <1> QED
    BY <1>4, <1>7, <1>8, <1>9 DEF LatestRuns

LEMMA AlertsBegin ==
    ASSUME Typed, PanelInv, AlertsInv, NEW j \in Jobs, NEW r \in RunIds, BeginRun(j, r)
    PROVE  AlertsInv'
  <1>1. /\ Insert(j, r) /\ job[j].pc = "next" /\ runs[r] = NoRun
        /\ runs' = [runs EXCEPT ![r] = RowFor(j)]
        /\ UNCHANGED <<alerts, dead>>
    BY DEF BeginRun, Insert
  <1>2. RowFor(j).conn = Head(job[j].todo) /\ RowFor(j).status = "running"
    BY DEF RowFor, NoRun
  <1>3. LatestRuns' /\ RowsAdvance
    BY <1>1, <1>2, LatestInserted DEF AlertsInv
  <1>4. job' = [job EXCEPT ![j] = [job[j] EXCEPT !.pc = "starting", !.run = r,
                                     !.todo = Tail(@), !.warned = FALSE]]
    BY DEF BeginRun
  <1>5. /\ job'[j].pc = "starting" /\ job'[j].run = r /\ job'[j].sending = job[j].sending
        /\ \A k \in Jobs \ {j} : job'[k] = job[k]
    BY <1>4 DEF Typed, JobRecords
  <1>6. runs'[r] = RowFor(j) /\ RowFor(j) # NoRun /\ \A s \in RunIds \ {r} : runs'[s] = runs[s]
    BY <1>1, <1>2 DEF Typed, NoRun
  <1>7. InHands'
    <2>1. job[j].run = 0 /\ ~Executing(j)
      BY <1>1 DEF PanelInv, JobFacts, Executing
    <2>2. ASSUME NEW s \in RunIds, runs'[s].status = "running"
          PROVE  s \in dead \/ \E k \in Jobs : Executing(k)' /\ job'[k].run = s
      <3>1. CASE s = r
        BY <1>5, <3>1 DEF Executing
      <3>2. CASE s # r
        <4>1. s \in dead \/ \E k \in Jobs : Executing(k) /\ job[k].run = s
          BY <1>6, <2>2, <3>2 DEF InHands, AlertsInv
        <4> QED
          BY <1>5, <2>1, <4>1 DEF Executing
      <3> QED
        BY <3>1, <3>2
    <2>3. ASSUME NEW s \in dead
          PROVE  s \in RunIds /\ runs'[s] # NoRun /\ \A k \in Jobs : job'[k].run # s
      <3>1. s \in RunIds /\ runs[s] # NoRun /\ \A k \in Jobs : job[k].run # s
        BY DEF InHands, AlertsInv
      <3>2. s # r
        BY <1>1, <3>1
      <3> QED
        BY <1>5, <1>6, <3>1, <3>2
    <2> QED
      BY <1>1, <2>2, <2>3 DEF InHands
  <1>8. AlertsAreOut'
    <2> SUFFICES ASSUME NEW s \in RunIds, runs'[s].status \in Terminal, s \notin dead',
                        \A k \in Jobs : job'[k].run # s
                 PROVE  \A a \in DueFor(s, runs[s])' : Settled(a)'
      BY DEF AlertsAreOut
    <2>1. s # r /\ s # 0
      BY <1>5, ApplicationAssumption
    <2>2. HasEnded(s) /\ s \notin dead /\ \A k \in Jobs : job[k].run # s
      BY <1>1, <1>5, <1>6, <2>1 DEF HasEnded, PanelInv, JobFacts
    <2>3. \A a : Settled(a) => Settled(a)'
      BY <1>1 DEF Settled
    <2> QED
      BY <1>1, <1>3, <2>2, <2>3, OutStays
  <1>9. \A k \in Jobs : IF job'[k].pc = "alerting" THEN Evaluation(k)' ELSE job'[k].sending = {}
    BY <1>1, <1>3, <1>5, EvaluationStays DEF AlertsInv
  <1> QED
    BY <1>1, <1>3, <1>7, <1>8, <1>9, LogStays DEF AlertsInv


(* A run that ends, or that is written ended, has all its alerts before it. *)
LEMMA EvaluationBegins ==
    ASSUME Typed, PanelInv, AlertsInv, NEW j \in Jobs, NEW r \in RunIds, NEW new,
           ~HasEnded(r), new.status \in Terminal, runs' = [runs EXCEPT ![r] = new],
           LatestRuns', RowsAdvance, UNCHANGED <<alerts, dead>>, r \notin dead,
           new # NoRun, job[j].run \in {0, r}, \A k \in Jobs \ {j} : job[k].run # r,
           job'[j].pc = "alerting", job'[j].run = r, job'[j].due = DueFor(r, new),
           job'[j].sending = {}, \A k \in Jobs \ {j} : job'[k] = job[k]
    PROVE  AlertsInv'
  <1>1. runs'[r] = new /\ \A s \in RunIds \ {r} : runs'[s] = runs[s]
    BY DEF Typed
  <1>2. DueFor(r, runs[r])' = DueFor(r, new)
    <2>1. \A s \in RunIds : s < r => runs'[s] = runs[s]
      BY <1>1, ApplicationAssumption
    <2>2. HadFiles(runs[r].conn, r)' <=> HadFiles(new.conn, r)
      BY <1>1, <2>1 DEF HadFiles
    <2>3. DueFor(r, runs[r])' = Due(r, runs'[r], HadFiles(runs[r].conn, r)')
      BY DEF DueFor, Due, Causes
    <2>4. Due(r, new, HadFiles(runs[r].conn, r)') = Due(r, new, HadFiles(new.conn, r))
      BY <2>2 DEF Due, Causes
    <2> QED
      BY <1>1, <2>3, <2>4 DEF DueFor
  <1>3. Evaluation(j)'
    <2>1. \A a \in DueFor(r, new) : a \in AnAlert /\ a.run = r
      BY DEF DueFor, Due, Causes, AnAlert
    <2>2. \A row \in alerts : row.run # r
      BY DEF AlertsInv, OfEndedRuns
    <2>3. \A a \in DueFor(r, new) : ~Claimed(a)'
      BY <2>1, <2>2 DEF Claimed, Row
    <2>4. HasEnded(r)'
      BY <1>1 DEF HasEnded
    <2> QED
      BY <1>2, <2>1, <2>3, <2>4 DEF Evaluation
  <1>4. \A k \in Jobs : IF job'[k].pc = "alerting" THEN Evaluation(k)' ELSE job'[k].sending = {}
    BY <1>3, EvaluationStays DEF AlertsInv
  <1>5. InHands'
    <2>1. ASSUME NEW s \in RunIds, runs'[s].status = "running"
          PROVE  s \in dead \/ \E k \in Jobs : Executing(k)' /\ job'[k].run = s
      <3>1. s # r /\ runs'[s] = runs[s]
        BY <1>1, <2>1 DEF Terminal
      <3>2. s \in dead \/ \E k \in Jobs : Executing(k) /\ job[k].run = s
        BY <2>1, <3>1 DEF InHands, AlertsInv
      <3>3. s # 0
        BY ApplicationAssumption
      <3> QED
        BY <3>1, <3>2, <3>3 DEF Executing
    <2>2. ASSUME NEW s \in dead
          PROVE  s \in RunIds /\ runs'[s] # NoRun /\ \A k \in Jobs : job'[k].run # s
      <3>1. s \in RunIds /\ s # r /\ runs[s] # NoRun /\ \A k \in Jobs : job[k].run # s
        BY DEF InHands, AlertsInv
      <3> QED
        BY <1>1, <3>1
    <2> QED
      BY <2>1, <2>2 DEF InHands
  <1>6. AlertsAreOut'
    <2> SUFFICES ASSUME NEW s \in RunIds, runs'[s].status \in Terminal, s \notin dead',
                        \A k \in Jobs : job'[k].run # s
                 PROVE  \A a \in DueFor(s, runs[s])' : Settled(a)'
      BY DEF AlertsAreOut
    <2>1. s # r /\ s # 0
      BY ApplicationAssumption
    <2>2. HasEnded(s) /\ s \notin dead /\ \A k \in Jobs : job[k].run # s
      BY <1>1, <2>1 DEF HasEnded
    <2> QED
      BY <2>2, LogStays, OutStays
  <1> QED
    BY <1>4, <1>5, <1>6, LogStays DEF AlertsInv

LEMMA AlertsOfPreflight ==
    ASSUME Typed, PanelInv, AlertsInv, NEW j \in Jobs, NEW r \in RunIds, NEW error,
           FailPreflight(j, r, error)
    PROVE  AlertsInv'
  <1> DEFINE new == [RowFor(j) EXCEPT !.status = "failed", !.error = error]
             due == DueFor(r, new)
  <1>1. /\ Insert(j, r) /\ job[j].pc = "next" /\ runs[r] = NoRun
        /\ runs' = [runs EXCEPT ![r] = new]
        /\ UNCHANGED <<alerts, dead>>
    BY DEF FailPreflight, Insert
  <1>2. new.conn = Head(job[j].todo) /\ new.status = "failed" /\ new # NoRun
    BY DEF RowFor, NoRun
  <1>3. job' = [job EXCEPT ![j] = [job[j] EXCEPT !.pc = "alerting", !.run = r, !.todo = Tail(@),
                                     !.due = due, !.raising = TRUE]]
    BY DEF FailPreflight
  <1> HIDE DEF new, due
  <1>4. LatestRuns' /\ RowsAdvance
    BY <1>1, <1>2, LatestInserted DEF AlertsInv, Terminal
  <1>5. /\ job'[j].pc = "alerting" /\ job'[j].run = r /\ job'[j].due = due
        /\ job'[j].sending = job[j].sending
        /\ \A k \in Jobs \ {j} : job'[k] = job[k]
    BY <1>3 DEF Typed, JobRecords
  <1>6. job[j].run = 0 /\ job[j].sending = {}
    BY <1>1 DEF PanelInv, JobFacts, AlertsInv
  <1>7. ~HasEnded(r) /\ r \notin dead
    BY <1>1 DEF HasEnded, Terminal, NoRun, AlertsInv, InHands
  <1>8. \A k \in Jobs : job[k].run # r
    BY <1>1, ApplicationAssumption DEF PanelInv, JobFacts
  <1>9. due = DueFor(r, new) /\ new.status \in Terminal
    BY <1>2 DEF due, Terminal
  <1> QED
    BY <1>1, <1>2, <1>4, <1>5, <1>6, <1>7, <1>8, <1>9, EvaluationBegins

LEMMA AlertsOfEnded ==
    ASSUME Exclusion, PanelInv, AlertsInv, NEW j \in Jobs, NEW fs, NEW status \in Terminal,
           NEW error \in Errors, NEW raising, Executing(j),
           EndRun(j, fs, status, error, raising)
    PROVE  AlertsInv'
  <1> DEFINE r   == job[j].run
             new == Ended(runs[r], fs, status, error, job[j].warned)
             due == DueFor(r, new)
  <1>1. /\ Typed /\ r \in RunIds /\ runs[r] \in RunRecords /\ runs[r].status = "running"
        /\ job[j].warned \in BOOLEAN
    BY DEF Exclusion, Typed, RecoverySparesTheLiving, JobRecords
  <1>2. new.status = status /\ new.conn = runs[r].conn
    BY <1>1, EndedTyped
  <1>3. /\ runs' = [runs EXCEPT ![r] = new]
        /\ job' = [job EXCEPT ![j] = [job[j] EXCEPT !.pc = "alerting", !.raising = raising,
                                                    !.due = due]]
        /\ UNCHANGED <<alerts, dead>>
    BY DEF EndRun
  <1> HIDE DEF new, due
  <1>4. /\ job'[j].pc = "alerting" /\ job'[j].run = r /\ job'[j].due = due
        /\ job'[j].sending = job[j].sending
        /\ \A k \in Jobs \ {j} : job'[k] = job[k]
    BY <1>1, <1>3 DEF Typed, JobRecords
  <1>5. job[j].pc \notin {"idle", "next", "alerting"}
    BY DEF Executing
  <1>6. job[j].sending = {}
    BY <1>5 DEF AlertsInv
  <1>7. runs'[r] = new /\ \A s \in RunIds \ {r} : runs'[s] = runs[s]
    BY <1>1, <1>3 DEF Typed
  <1>8. ~HasEnded(r) /\ r \notin dead /\ new # NoRun
    BY <1>1, <1>2 DEF HasEnded, Terminal, NoRun, AlertsInv, InHands
  <1>9. RowsAdvance
    BY <1>1, <1>2, <1>7 DEF RowsAdvance
  <1>10. LatestRuns'
    BY <1>1, <1>7, <1>9, LatestStays DEF AlertsInv, NoRun
  <1>11. \A k \in Jobs \ {j} : job[k].run # r
    BY <1>5, OwnEntry
  <1>12. due = DueFor(r, new) /\ new.status \in Terminal
    BY <1>2 DEF due
  <1> HIDE DEF r
  <1>13. job[j].run \in {0, r}
    BY DEF r
  <1> QED
    BY <1>1, <1>3, <1>4, <1>6, <1>8, <1>9, <1>10, <1>11, <1>12, <1>13, EvaluationBegins


(* A process that opens finds no thread: what is running was left by the dead,
   of whose runs nothing is promised. *)
LEMMA AlertsRecovered ==
    ASSUME Exclusion, PanelInv, AlertsInv, ResidentOpen \/ (\E j \in Jobs : OpenCli(j))
    PROVE  AlertsInv'
  <1>1. \A k \in Jobs : job[k].pc = "idle"
    BY DEF ResidentOpen, OpenCli, Exclusion, Processed, Owner, Hands
  <1>2. /\ \A k \in Jobs : /\ job'[k].pc \in {"idle", "next"}
                           /\ job'[k].run = 0 /\ job'[k].sending = {}
        /\ Recover /\ UNCHANGED <<alerts, dead>>
    <2>1. \A k \in Jobs : job[k].run = 0 /\ job[k].sending = {}
      BY <1>1 DEF PanelInv, JobFacts, AlertsInv
    <2>2. CASE ResidentOpen
      BY <1>1, <2>1, <2>2 DEF ResidentOpen, jobVars
    <2>3. ASSUME NEW j \in Jobs, OpenCli(j)
          PROVE  /\ \A k \in Jobs : /\ job'[k].pc \in {"idle", "next"}
                                    /\ job'[k].run = 0 /\ job'[k].sending = {}
                 /\ Recover /\ UNCHANGED <<alerts, dead>>
      <3>1. /\ job'[j].pc = "next" /\ job'[j].run = 0 /\ job'[j].sending = {}
            /\ \A k \in Jobs \ {j} : job'[k] = job[k]
        BY <2>3 DEF OpenCli, NewJob, Idle, Exclusion, Typed
      <3> QED
        BY <1>1, <2>1, <2>3, <3>1 DEF OpenCli
    <2> QED
      BY <2>2, <2>3
  <1>3. ASSUME NEW s \in RunIds
        PROVE  /\ runs'[s].conn = runs[s].conn /\ runs'[s].status # "running"
               /\ runs[s].status # "running" => runs'[s] = runs[s]
               /\ runs[s].status = "running" => runs'[s].status = "failed"
    <2>1. runs'[s].conn = runs[s].conn /\ runs'[s].status # "running"
      BY <1>2, RecoverTyped DEF Exclusion
    <2>2. runs[s].status # "running" => runs'[s] = runs[s]
      BY <1>2 DEF Recover
    <2>3. ASSUME runs[s].status = "running" PROVE runs'[s].status = "failed"
      <3>1. /\ runs'[s] = Ended(runs[s], rows'[s], "failed", "interrupted", runs[s].warned)
            /\ runs[s] \in RunRecords /\ runs[s].warned \in BOOLEAN
        BY <1>2, <2>3 DEF Recover, Exclusion, Typed, RunRecords
      <3> QED
        BY <3>1, EndedTyped DEF Terminal, Errors
    <2> QED
      BY <2>1, <2>2, <2>3
  <1>4. RowsAdvance
    BY <1>3 DEF RowsAdvance, Terminal
  <1>5. LatestRuns'
    BY <1>3, <1>4, LatestStays DEF AlertsInv, Exclusion, NoRun
  <1>6. \A s \in RunIds : runs[s].status = "running" => s \in dead
    BY <1>1 DEF AlertsInv, InHands, Executing
  <1>7. \A s \in RunIds : s # 0
    BY ApplicationAssumption
  <1>8. InHands'
    <2>1. \A s \in dead : s \in RunIds /\ runs[s] # NoRun /\ s # 0
      BY <1>7 DEF AlertsInv, InHands
    <2>2. \A s \in RunIds : runs[s] # NoRun => runs'[s] # NoRun
      BY <1>3 DEF NoRun
    <2> QED
      BY <1>2, <1>3, <2>1, <2>2 DEF InHands
  <1>9. AlertsAreOut'
    <2> SUFFICES ASSUME NEW r \in RunIds, runs'[r].status \in Terminal, r \notin dead'
                 PROVE  \A a \in DueFor(r, runs[r])' : Settled(a)'
      BY DEF AlertsAreOut
    <2>1. HasEnded(r) /\ r \notin dead
      BY <1>2, <1>3, <1>6 DEF HasEnded
    <2>2. \A k \in Jobs : job[k].run # r
      BY <1>1, <1>7 DEF PanelInv, JobFacts
    <2> QED
      BY <1>2, <1>4, <2>1, <2>2, LogStays, OutStays
  <1> QED
    BY <1>2, <1>4, <1>5, <1>8, <1>9, LogStays DEF AlertsInv

(* A process dies with the runs that its threads have in hand. *)
LEMMA AlertsOfDead ==
    ASSUME Typed, PanelInv, AlertsInv, NEW p, Die(p), UNCHANGED <<runs, alerts>>
    PROVE  AlertsInv'
  <1>1. \A k \in Jobs : job'[k] = IF job[k].proc = p THEN Idle ELSE job[k]
    BY DEF Die
  <1>2. dead' = dead \cup RunsOf(p)
    BY DEF Die
  <1>3. ASSUME NEW k \in Jobs
        PROVE  /\ job[k].proc = p /\ job[k].run # 0 => job[k].run \in dead'
               /\ job'[k].run \in {0, job[k].run}
               /\ job'[k].pc # "idle" => job'[k] = job[k] /\ job[k].proc # p
               /\ job'[k].pc = "idle" => job'[k].run = 0 /\ job'[k].sending = {}
    BY <1>1, <1>2 DEF RunsOf, JobsOf, PanelInv, JobFacts, Idle, AlertsInv
  <1>4. RowsAdvance /\ LatestRuns'
    BY DEF RowsAdvance, AlertsInv, LatestRuns
  <1>5. \A s \in RunIds : s # 0
    BY ApplicationAssumption
  <1>6. InHands'
    <2>1. ASSUME NEW s \in RunIds, runs'[s].status = "running"
          PROVE  s \in dead' \/ \E k \in Jobs : Executing(k)' /\ job'[k].run = s
      <3>1. s \in dead \/ \E k \in Jobs : Executing(k) /\ job[k].run = s
        BY <2>1 DEF AlertsInv, InHands
      <3>2. ASSUME NEW k \in Jobs, Executing(k), job[k].run = s, s \notin dead'
            PROVE  Executing(k)' /\ job'[k].run = s
        <4>1. job[k].proc # p
          BY <1>3, <1>5, <3>2
        <4> QED
          BY <1>1, <3>2, <4>1 DEF Executing
      <3> QED
        BY <1>2, <3>1, <3>2
    <2>2. ASSUME NEW s \in dead'
          PROVE  s \in RunIds /\ runs'[s] # NoRun /\ \A k \in Jobs : job'[k].run # s
      <3>1. CASE s \in dead
        <4>1. s \in RunIds /\ runs[s] # NoRun /\ \A k \in Jobs : job[k].run # s
          BY <3>1 DEF AlertsInv, InHands
        <4> QED
          BY <1>3, <1>5, <4>1
      <3>2. CASE s \in RunsOf(p)
        <4>1. PICK j \in Jobs : job[j].pc # "idle" /\ job[j].proc = p /\ job[j].run = s /\ s # 0
          BY <3>2 DEF RunsOf, JobsOf
        <4>2. job[j].pc \notin {"idle", "next"}
          BY <4>1 DEF PanelInv, JobFacts
        <4>3. s \in RunIds /\ runs[s] # NoRun /\ \A k \in Jobs \ {j} : job[k].run # s
          BY <4>1, <4>2, OwnEntry
        <4>4. job'[j].run = 0
          BY <1>1, <4>1 DEF Idle
        <4> QED
          BY <1>3, <4>1, <4>3, <4>4
      <3> QED
        BY <1>2, <2>2, <3>1, <3>2
    <2> QED
      BY <2>1, <2>2 DEF InHands
  <1>7. AlertsAreOut'
    <2> SUFFICES ASSUME NEW r \in RunIds, runs'[r].status \in Terminal, r \notin dead',
                        \A k \in Jobs : job'[k].run # r
                 PROVE  \A a \in DueFor(r, runs[r])' : Settled(a)'
      BY DEF AlertsAreOut
    <2>1. HasEnded(r) /\ r \notin dead /\ dead \subseteq dead'
      BY <1>2 DEF HasEnded
    <2>2. ASSUME NEW k \in Jobs PROVE job[k].run # r
      <3>1. CASE job[k].proc = p
        BY <1>3, <1>5, <3>1
      <3>2. CASE job[k].proc # p
        BY <1>1, <3>2
      <3> QED
        BY <3>1, <3>2
    <2> QED
      BY <1>4, <2>1, <2>2, LogStays, OutStays
  <1>8. \A k \in Jobs : IF job'[k].pc = "alerting" THEN Evaluation(k)' ELSE job'[k].sending = {}
    <2> SUFFICES ASSUME NEW k \in Jobs
                 PROVE  IF job'[k].pc = "alerting" THEN Evaluation(k)' ELSE job'[k].sending = {}
      OBVIOUS
    <2>1. CASE job'[k].pc = "idle"
      BY <1>3, <2>1
    <2>2. CASE job'[k].pc # "idle"
      BY <1>3, <1>4, <2>2, EvaluationStays DEF AlertsInv
    <2> QED
      BY <2>1, <2>2
  <1> QED
    BY <1>4, <1>6, <1>7, <1>8, LogStays DEF AlertsInv


(* A step of the evaluation of one run changes the log of that run only. *)
LEMMA OthersEvaluate ==
    ASSUME Typed, PanelInv, AlertsInv, NEW j \in Jobs, job[j].pc = "alerting",
           UNCHANGED <<runs, dead>>,
           \A row : row.run # job[j].run => (row \in alerts' <=> row \in alerts),
           AlertsTypeOK(RunIds)', \A row \in alerts' : row.run = job[j].run \/ row \in alerts,
           \A a : Settled(a) => Settled(a)',
           \A k \in Jobs : job'[k].pc = job[k].pc /\ job'[k].run = job[k].run,
           \A k \in Jobs \ {j} : job'[k] = job[k],
           Evaluation(j)'
    PROVE  AlertsInv'
  <1>1. RowsAdvance /\ LatestRuns'
    BY DEF RowsAdvance, AlertsInv, LatestRuns
  <1>2. InHands'
    BY DEF AlertsInv, InHands, Executing
  <1>3. AlertsAreOut'
    <2> SUFFICES ASSUME NEW r \in RunIds, runs'[r].status \in Terminal, r \notin dead',
                        \A k \in Jobs : job'[k].run # r
                 PROVE  \A a \in DueFor(r, runs[r])' : Settled(a)'
      BY DEF AlertsAreOut
    <2>1. HasEnded(r) /\ r \notin dead /\ \A k \in Jobs : job[k].run # r
      BY DEF HasEnded
    <2> QED
      BY <1>1, <2>1, OutStays
  <1>4. job[j].run \in RunIds /\ HasEnded(job[j].run)
    BY OwnEntry DEF AlertsInv, Evaluation
  <1>5. OfEndedRuns'
    BY <1>4 DEF AlertsInv, OfEndedRuns, HasEnded
  <1>6. ASSUME NEW k \in Jobs \ {j}, job[k].pc = "alerting"
        PROVE  Evaluation(k)'
    <2>1. job[k].run \in RunIds /\ job[k].run # job[j].run /\ Evaluation(k)
      BY <1>6, OwnEntry DEF AlertsInv
    <2>2. DueFor(job[k].run, runs[job[k].run])' = DueFor(job[k].run, runs[job[k].run])
      BY <1>1, <2>1, DueStays DEF AlertsInv, Evaluation
    <2>3. \A a, status : Row(a, status).run = a.run
      BY DEF Row
    <2>4. ASSUME NEW a, a.run = job[k].run
          PROVE  /\ Claimed(a)' <=> Claimed(a)
                 /\ \A status : Row(a, status) \in alerts' <=> Row(a, status) \in alerts
      BY <2>1, <2>3, <2>4 DEF Claimed
    <2>5. \A a \in job[k].due \cup job[k].sending : a.run = job[k].run
      BY <2>1 DEF Evaluation
    <2>6. HasEnded(job[k].run)' /\ job'[k] = job[k]
      BY <2>1 DEF HasEnded, Evaluation
    <2> QED
      BY <2>1, <2>2, <2>4, <2>5, <2>6 DEF Evaluation
  <1>7. \A k \in Jobs : IF job'[k].pc = "alerting" THEN Evaluation(k)' ELSE job'[k].sending = {}
    BY <1>6 DEF AlertsInv
  <1> QED
    BY <1>1, <1>2, <1>3, <1>5, <1>7 DEF AlertsInv

(* An alert is claimed once: the log has no row for it before. *)
LEMMA AlertsTaken ==
    ASSUME Typed, PanelInv, AlertsInv, NEW j \in Jobs, TakeAlert(j)
    PROVE  AlertsInv'
  <1> DEFINE a == CHOOSE a \in job[j].due : TRUE
             due == job[j].due \ {a}
             r == job[j].run
  <1>1. /\ job[j].pc = "alerting" /\ job[j].due # {} /\ job[j].sending = {}
        /\ a \in job[j].due /\ Evaluation(j) /\ UNCHANGED <<runs, dead>>
    BY DEF TakeAlert, AlertsInv
  <1>2. a \in AnAlert /\ a.run = r /\ ~Claimed(a)
    BY <1>1 DEF Evaluation
  <1>3. /\ job' = [job EXCEPT ![j] = [job[j] EXCEPT !.due = due, !.sending = {a}]]
        /\ alerts' = alerts \cup {Row(a, "pending")}
    BY <1>1, <1>2 DEF TakeAlert, Claim
  <1>q. due = job[j].due \ {a}
    OBVIOUS
  <1> HIDE DEF a, due
  <1>4. /\ job'[j].pc = job[j].pc /\ job'[j].run = r /\ job'[j].due = due
        /\ job'[j].sending = {a} /\ \A k \in Jobs \ {j} : job'[k] = job[k]
    BY <1>3 DEF Typed, JobRecords
  <1>5. /\ Row(a, "pending").run = r /\ r \in RunIds
        /\ Row(a, "pending") \in [run: RunIds, cause: AlertCauses, channel: Channels,
                                  status: {"pending", "sent", "failed"}]
    BY <1>1, <1>2, OwnEntry DEF Row, AnAlert
  <1>6. \A row \in alerts :
          ~(row.run = a.run /\ row.cause = a.cause /\ row.channel = a.channel)
    <2> SUFFICES ASSUME NEW row \in alerts, row.run = a.run, row.cause = a.cause,
                        row.channel = a.channel
                 PROVE  FALSE
      OBVIOUS
    <2>1. row \in [run: RunIds, cause: AlertCauses, channel: Channels,
                   status: {"pending", "sent", "failed"}]
      BY DEF AlertsInv, AlertsTypeOK
    <2>2. row = Row(a, row.status)
      BY <2>1 DEF Row
    <2> QED
      BY <1>2, <2>2 DEF Claimed
  <1>7. AlertsTypeOK(RunIds)'
    <2>1. Row(a, "pending").run = a.run /\ Row(a, "pending").cause = a.cause
          /\ Row(a, "pending").channel = a.channel
      BY DEF Row
    <2> QED
      BY <1>3, <1>5, <1>6, <2>1 DEF AlertsInv, AlertsTypeOK
  <1>8. \A b : Settled(b) => Settled(b)'
    BY <1>3 DEF Settled
  <1>9. Evaluation(j)'
    <2>1. HasEnded(r)' /\ DueFor(r, runs[r])' = DueFor(r, runs[r])
      <3>1. RowsAdvance /\ LatestRuns
        BY <1>1 DEF RowsAdvance, AlertsInv
      <3>2. HasEnded(r)
        BY <1>1 DEF Evaluation
      <3> QED
        BY <1>4, <1>5, <3>1, <3>2, DueStays
    <2>2. ASSUME NEW b \in due PROVE ~Claimed(b)'
      <3>1. b \in AnAlert /\ b # a /\ ~Claimed(b)
        BY <1>1, <1>q DEF Evaluation
      <3>2. ~(a.run = b.run /\ a.cause = b.cause /\ a.channel = b.channel)
        BY <1>2, <3>1 DEF AnAlert
      <3>3. \A status : Row(b, status) # Row(a, "pending")
        BY <3>2 DEF Row
      <3> QED
        BY <1>3, <3>1, <3>3 DEF Claimed
    <2>3. Row(a, "pending") \in alerts'
      BY <1>3
    <2>4. \A b \in DueFor(r, runs[r]) : b \in due \cup {a} \/ Settled(b)'
      BY <1>1, <1>8, <1>q DEF Evaluation
    <2>5. \A b \in due \cup {a} : b \in AnAlert /\ b.run = r
      BY <1>1, <1>q DEF Evaluation
    <2> QED
      BY <1>4, <2>1, <2>2, <2>3, <2>4, <2>5 DEF Evaluation
  <1>10. \A row : row.run # r => (row \in alerts' <=> row \in alerts)
    BY <1>3, <1>5
  <1>11. \A row \in alerts' : row.run = r \/ row \in alerts
    BY <1>3, <1>5
  <1> QED
    BY <1>1, <1>4, <1>7, <1>8, <1>9, <1>10, <1>11, OthersEvaluate

(* The row of the alert that is sent is settled; nothing else is being sent. *)
LEMMA AlertsSent ==
    ASSUME Typed, PanelInv, AlertsInv, NEW j \in Jobs, Send(j)
    PROVE  AlertsInv'
  <1> DEFINE r == job[j].run
  <1>1. PICK a \in job[j].sending :
          /\ Settle(a, IF a.channel \in Down THEN "failed" ELSE "sent")
          /\ job' = [job EXCEPT ![j] = [job[j] EXCEPT !.sending = {}, !.due = Rest(j, a)]]
          /\ UNCHANGED <<runs, dead>>
    BY DEF Send
  <1>2. PICK status \in {"sent", "failed"} :
          alerts' = (alerts \ {Row(a, "pending")}) \cup {Row(a, status)}
    BY <1>1 DEF Settle
  <1>3. job[j].pc = "alerting" /\ Evaluation(j)
    BY DEF AlertsInv
  <1>4. /\ a \in AnAlert /\ a.run = r /\ Row(a, "pending") \in alerts
        /\ \A b \in job[j].sending : b = a
    BY <1>3 DEF Evaluation
  <1>5. /\ job'[j].pc = job[j].pc /\ job'[j].run = r /\ job'[j].due = job[j].due
        /\ job'[j].sending = {} /\ \A k \in Jobs \ {j} : job'[k] = job[k]
    BY <1>1 DEF Typed, JobRecords, Rest
  <1>6. /\ \A s : Row(a, s).run = r
        /\ r \in RunIds
        /\ Row(a, status) \in [run: RunIds, cause: AlertCauses, channel: Channels,
                               status: {"pending", "sent", "failed"}]
    BY <1>3, <1>4, OwnEntry DEF Row, AnAlert
  <1>7. AlertsTypeOK(RunIds)'
    <2>1. \A s : Row(a, s).run = a.run /\ Row(a, s).cause = a.cause
                 /\ Row(a, s).channel = a.channel
      BY DEF Row
    <2>2. \A row \in alerts : row.run = a.run /\ row.cause = a.cause /\ row.channel = a.channel
            => row = Row(a, "pending")
      BY <1>4, <2>1 DEF AlertsInv, AlertsTypeOK
    <2> QED
      BY <1>2, <1>6, <2>1, <2>2 DEF AlertsInv, AlertsTypeOK
  <1>8. \A b : Settled(b) => Settled(b)'
    <2>1. ASSUME NEW b, NEW s \in {"sent", "failed"}, Row(b, s) \in alerts
          PROVE  Row(b, s) \in alerts'
      BY <1>2, <2>1 DEF Row
    <2> QED
      BY <2>1 DEF Settled
  <1>9. Evaluation(j)'
    <2>1. HasEnded(r)' /\ DueFor(r, runs[r])' = DueFor(r, runs[r])
      <3>1. RowsAdvance /\ LatestRuns
        BY <1>1 DEF RowsAdvance, AlertsInv
      <3>2. HasEnded(r)
        BY <1>3 DEF Evaluation
      <3> QED
        BY <1>5, <1>6, <3>1, <3>2, DueStays
    <2>2. ASSUME NEW b \in job[j].due PROVE ~Claimed(b)'
      <3>1. b \in AnAlert /\ ~Claimed(b)
        BY <1>3 DEF Evaluation
      <3>2. ~(a.run = b.run /\ a.cause = b.cause /\ a.channel = b.channel)
        <4>1. Claimed(a)
          BY <1>4 DEF Claimed, Row
        <4> QED
          BY <1>4, <3>1, <4>1 DEF AnAlert
      <3>3. \A s : Row(b, s) # Row(a, status)
        BY <3>2 DEF Row
      <3> QED
        BY <1>2, <3>1, <3>3 DEF Claimed
    <2>3. Settled(a)'
      BY <1>2 DEF Settled
    <2>4. \A b \in DueFor(r, runs[r]) : b \in job[j].due \/ Settled(b)'
      BY <1>3, <1>4, <1>8, <2>3 DEF Evaluation
    <2> QED
      BY <1>3, <1>5, <2>1, <2>2, <2>4 DEF Evaluation
  <1>10. \A row : row.run # r => (row \in alerts' <=> row \in alerts)
    BY <1>2, <1>6
  <1>11. \A row \in alerts' : row.run = r \/ row \in alerts
    BY <1>2, <1>6
  <1> QED
    BY <1>1, <1>3, <1>5, <1>7, <1>8, <1>9, <1>10, <1>11, OthersEvaluate

(* The run is let go when nothing is due and nothing is being sent. *)
LEMMA AlertsClosed ==
    ASSUME Typed, PanelInv, AlertsInv, NEW j \in Jobs, CloseRun(j)
    PROVE  AlertsInv'
  <1>1. /\ job[j].pc = "alerting" /\ job[j].due = {} /\ job[j].sending = {}
        /\ UNCHANGED <<runs, alerts, dead>> /\ Evaluation(j)
    BY DEF CloseRun, dbVars, AlertsInv
  <1>2. /\ job'[j].pc \in {"idle", "next"} /\ job'[j].run = 0 /\ job'[j].sending = {}
        /\ \A k \in Jobs \ {j} : job'[k] = job[k]
    <2>1. CASE job' = [job EXCEPT ![j] = Idle]
      BY <2>1 DEF Typed, Idle
    <2>2. CASE job' = [job EXCEPT ![j] = [job[j] EXCEPT !.pc = "next", !.run = 0]]
      BY <1>1, <2>2 DEF Typed, JobRecords
    <2> QED
      BY <2>1, <2>2 DEF CloseRun, Raise, Over
  <1>3. RowsAdvance /\ LatestRuns'
    BY <1>1 DEF RowsAdvance, AlertsInv, LatestRuns
  <1>4. \A s \in RunIds : s # 0
    BY ApplicationAssumption
  <1>5. ~Executing(j)
    BY <1>1 DEF Executing
  <1>6. InHands'
    <2>1. ASSUME NEW s \in RunIds, runs'[s].status = "running"
          PROVE  s \in dead' \/ \E k \in Jobs : Executing(k)' /\ job'[k].run = s
      BY <1>1, <1>2, <1>5, <2>1 DEF AlertsInv, InHands, Executing
    <2>2. ASSUME NEW s \in dead'
          PROVE  s \in RunIds /\ runs'[s] # NoRun /\ \A k \in Jobs : job'[k].run # s
      BY <1>1, <1>2, <1>4, <2>2 DEF AlertsInv, InHands
    <2> QED
      BY <2>1, <2>2 DEF InHands
  <1>7. AlertsAreOut'
    <2> SUFFICES ASSUME NEW r \in RunIds, runs'[r].status \in Terminal, r \notin dead',
                        \A k \in Jobs : job'[k].run # r
                 PROVE  \A a \in DueFor(r, runs[r])' : Settled(a)'
      BY DEF AlertsAreOut
    <2>1. HasEnded(r) /\ r \notin dead /\ \A k \in Jobs \ {j} : job[k].run # r
      BY <1>1, <1>2 DEF HasEnded
    <2>2. CASE job[j].run = r
      <3>1. \A a \in DueFor(r, runs[r]) : Settled(a)
        BY <1>1, <2>2 DEF Evaluation
      <3>2. DueFor(r, runs[r])' = DueFor(r, runs[r])
        BY <1>3, <2>1, DueStays DEF AlertsInv
      <3> QED
        BY <1>1, <3>1, <3>2 DEF Settled
    <2>3. CASE job[j].run # r
      <3>1. \A k \in Jobs : job[k].run # r
        BY <2>1, <2>3
      <3> QED
        BY <1>1, <1>3, <2>1, <3>1, LogStays, OutStays
    <2> QED
      BY <2>2, <2>3
  <1>8. \A k \in Jobs : IF job'[k].pc = "alerting" THEN Evaluation(k)' ELSE job'[k].sending = {}
    BY <1>1, <1>2, <1>3, EvaluationStays DEF AlertsInv
  <1> QED
    BY <1>1, <1>3, <1>6, <1>7, <1>8, LogStays DEF AlertsInv


(* The three ways in which an execution ends write a verdict. *)
LEMMA EndsTyped ==
    ASSUME NEW j \in Jobs, NEW error \in Errors,
           Verdict(j) \/ OpenCircuit(j, error) \/ Fail(j, error)
    PROVE  /\ Executing(j)
           /\ \E fs : \E status \in Terminal, err \in Errors, raising \in BOOLEAN :
                 EndRun(j, fs, status, err, raising)
  <1>1. CASE Verdict(j)
    <2> DEFINE fs     == rows[job[j].run]
               status == StatusOf(fs, job[j].warned)
               err    == IF job[j].warned THEN "path_invalid" ELSE "none"
    <2>1. EndRun(j, fs, status, err, FALSE) /\ Executing(j)
      BY <1>1 DEF Verdict, Executing
    <2>2. status \in Terminal /\ err \in Errors
      BY StatusTyped DEF Errors
    <2> HIDE DEF fs, status, err
    <2> QED
      BY <2>1, <2>2
  <1>2. CASE OpenCircuit(j, error)
    <2> DEFINE fs     == FailUnfinished(rows[job[j].run])
               status == StatusOf(fs, job[j].warned)
    <2>1. EndRun(j, fs, status, error, FALSE) /\ Executing(j)
      BY <1>2 DEF OpenCircuit, Executing
    <2>2. status \in Terminal
      BY StatusTyped
    <2> HIDE DEF fs, status
    <2> QED
      BY <2>1, <2>2
  <1>3. CASE Fail(j, error)
    <2> DEFINE fs == FailUnfinished(rows[job[j].run])
    <2>1. EndRun(j, fs, "failed", error, TRUE) /\ Executing(j)
      BY <1>3 DEF Fail
    <2>2. "failed" \in Terminal
      BY DEF Terminal
    <2> HIDE DEF fs
    <2> QED
      BY <2>1, <2>2
  <1> QED
    BY <1>1, <1>2, <1>3

(* The listing of a run is a matter of its thread's notices and of its phase. *)
LEMMA ListingJob ==
    ASSUME Typed, NEW j \in Jobs,
           \/ \E batch \in SUBSET Files : AddBatch(j, batch)
           \/ \E found \in 0..Cardinality(Files) : EndListing(j, found)
    PROVE  \E warned, pc :
             /\ pc \in {"discovering", "downloading"}
             /\ job' = [job EXCEPT ![j] = [job[j] EXCEPT !.warned = warned, !.pc = pc]]
  <1>t. job[j] \in JobRecords
    BY DEF Typed
  <1>1. CASE \E batch \in SUBSET Files : AddBatch(j, batch)
    <2>1. PICK batch : AddBatch(j, batch)
      BY <1>1
    <2> DEFINE warned == job[j].warned \/ batch \cap Forbidden # {}
    <2>2. job[j].pc = "discovering" /\ job' = [job EXCEPT ![j] = [job[j] EXCEPT !.warned = warned]]
      BY <2>1 DEF AddBatch
    <2> HIDE DEF warned
    <2>3. [job[j] EXCEPT !.warned = warned]
            = [job[j] EXCEPT !.warned = warned, !.pc = "discovering"]
      BY <1>t, <2>2 DEF JobRecords
    <2> QED
      BY <2>2, <2>3
  <1>2. CASE \E found \in 0..Cardinality(Files) : EndListing(j, found)
    <2>1. job' = [job EXCEPT ![j] = [job[j] EXCEPT !.pc = "downloading"]]
      BY <1>2 DEF EndListing
    <2>2. [job[j] EXCEPT !.pc = "downloading"]
            = [job[j] EXCEPT !.warned = job[j].warned, !.pc = "downloading"]
      BY <1>t DEF JobRecords
    <2> QED
      BY <2>1, <2>2
  <1> QED
    BY <1>1, <1>2

LEMMA AlertsStep == Exclusion /\ PanelInv /\ AlertsInv /\ [Next]_vars => AlertsInv'
  <1> SUFFICES ASSUME Exclusion, PanelInv, AlertsInv, [Next]_vars PROVE AlertsInv'
    OBVIOUS
  <1>t. Typed /\ \A k \in Jobs : job[k] \in JobRecords
    BY DEF Exclusion, Typed
  <1>q. \A k \in Jobs : job[k].pc # "alerting" => job[k].sending = {}
    BY DEF AlertsInv
  <1>1. CASE ResidentStart \/ Exit \/ Exited \/ PostRefused \/ Timeout
             \/ (\E order \in Orders : OrderDirect(order) \/ OrderDelegated(order))
             \/ UNCHANGED vars
    <2>1. UNCHANGED <<runs, alerts, job, dead>>
      BY <1>1 DEF ResidentStart, Exit, Exited, PostRefused, Timeout, OrderDirect,
                  OrderDelegated, vars, dbVars, jobVars
    <2> QED
      BY <1>t, <1>q, <2>1, AlertsGoOn DEF Executing
  <1>2. CASE ResidentOpen \/ (\E j \in Jobs : OpenCli(j))
    BY <1>2, AlertsRecovered
  <1>3. CASE CrashResident \/ CrashCli
    <2>1. (Die("resident") \/ Die("cli")) /\ UNCHANGED <<runs, alerts>>
      BY <1>3 DEF CrashResident, CrashCli, dbVars
    <2> QED
      BY <1>t, <2>1, AlertsOfDead
  <1>4. ASSUME NEW j \in Jobs, Post(j) \/ (\E c \in Conns : SchedulerJob(j, c))
        PROVE  AlertsInv'
    <2>1. /\ UNCHANGED <<runs, alerts, dead>> /\ job[j] = Idle
          /\ job'[j].pc = "next" /\ job'[j].run = 0 /\ job'[j].sending = {}
          /\ \A k \in Jobs \ {j} : job'[k] = job[k]
      <3>1. CASE Post(j)
        BY <1>t, <3>1 DEF Post, NewJob, Idle, dbVars, Typed
      <3>2. ASSUME NEW c \in Conns, SchedulerJob(j, c)
            PROVE  /\ UNCHANGED <<runs, alerts, dead>> /\ job[j] = Idle
                   /\ job'[j].pc = "next" /\ job'[j].run = 0 /\ job'[j].sending = {}
                   /\ \A k \in Jobs \ {j} : job'[k] = job[k]
        BY <1>t, <3>2 DEF SchedulerJob, NewJob, Idle, dbVars, Typed
      <3> QED
        BY <1>4, <3>1, <3>2
    <2> QED
      BY <1>t, <1>q, <2>1, AlertsGoOn DEF Executing, Idle
  <1>5. ASSUME NEW j \in Jobs, RefuseRun(j)
        PROVE  AlertsInv'
    <2>1. /\ UNCHANGED <<runs, alerts, dead>> /\ job[j].pc = "next"
          /\ job' = [job EXCEPT ![j] = Idle]
      BY <1>5 DEF RefuseRun, Raise, Over, dbVars
    <2>2. /\ job'[j].pc = "idle" /\ job'[j].run = 0 /\ job'[j].sending = {}
          /\ \A k \in Jobs \ {j} : job'[k] = job[k]
      BY <1>t, <2>1 DEF Typed, Idle
    <2>3. job[j].run = 0
      BY <2>1 DEF PanelInv, JobFacts
    <2> QED
      BY <1>t, <1>q, <2>1, <2>2, <2>3, AlertsGoOn DEF Executing
  <1>6. ASSUME NEW j \in Jobs, NEW r \in RunIds, BeginRun(j, r)
        PROVE  AlertsInv'
    BY <1>t, <1>6, AlertsBegin
  <1>7. ASSUME NEW j \in Jobs, NEW r \in RunIds, NEW error, FailPreflight(j, r, error)
        PROVE  AlertsInv'
    BY <1>t, <1>7, AlertsOfPreflight
  <1>8. ASSUME NEW j \in Jobs,
               \/ \E batch \in SUBSET Files : AddBatch(j, batch)
               \/ \E found \in 0..Cardinality(Files) : EndListing(j, found)
        PROVE  AlertsInv'
    <2> DEFINE r == job[j].run
    <2>1. job[j].pc = "discovering" /\ UNCHANGED <<alerts, dead>>
      BY <1>8 DEF AddBatch, EndListing
    <2>2. r \in RunIds /\ runs[r].status = "running" /\ runs[r] \in RunRecords
      BY <2>1 DEF Exclusion, Typed, RecoverySparesTheLiving, Executing
    <2>3. \E found : runs' = [runs EXCEPT ![r] = [runs[r] EXCEPT !.found = found]]
      BY <1>8 DEF AddBatch, EndListing
    <2>4. PICK warned, pc :
             /\ pc \in {"discovering", "downloading"}
             /\ job' = [job EXCEPT ![j] = [job[j] EXCEPT !.warned = warned, !.pc = pc]]
      BY <1>t, <1>8, ListingJob
    <2>5. /\ job'[j].run = job[j].run /\ job'[j].sending = job[j].sending
          /\ job'[j].pc \in {"discovering", "downloading"}
          /\ \A k \in Jobs \ {j} : job'[k] = job[k]
      BY <1>t, <2>4 DEF Typed, JobRecords
    <2>6. /\ runs'[r].conn = runs[r].conn /\ runs'[r].status = "running"
          /\ \A s \in RunIds \ {r} : runs'[s] = runs[s]
      BY <1>t, <2>2, <2>3 DEF Typed, RunRecords
    <2>7. \A s \in RunIds :
             \/ runs'[s] = runs[s]
             \/ /\ runs[s].status = "running" /\ runs'[s].conn = runs[s].conn
                /\ runs'[s].status = "running"
      BY <2>2, <2>6
    <2>8. \A k \in Jobs : /\ job'[k].run = job[k].run
                          /\ Executing(k) => Executing(k)'
                          /\ IF job'[k].pc = "alerting" THEN job'[k] = job[k]
                             ELSE job'[k].sending = {}
      BY <1>q, <2>1, <2>5 DEF Executing
    <2> QED
      BY <1>t, <2>1, <2>7, <2>8, AlertsGoOn
  <1>9. ASSUME NEW j \in Jobs,
               \/ \E f \in Files, result \in {"ok", "failed"} : WorkerDone(j, f, result)
               \/ RecordBatch(j)
        PROVE  AlertsInv'
    <2>1. UNCHANGED <<runs, alerts, job, dead>>
      BY <1>9 DEF WorkerDone, RecordBatch, dbVars
    <2> QED
      BY <1>t, <1>q, <2>1, AlertsGoOn DEF Executing
  <1>9a. ASSUME NEW j \in Jobs, PcStep(j)
         PROVE  AlertsInv'
    <2>1. /\ UNCHANGED <<runs, alerts, dead>> /\ Executing(j) /\ Executing(j)'
          /\ \A k \in Jobs \ {j} : job'[k] = job[k]
          /\ job'[j].run = job[j].run /\ job'[j].sending = job[j].sending
      BY <1>t, <1>9a, PcMoves
    <2>2. job[j].pc # "alerting" /\ job'[j].pc # "alerting"
      BY <2>1 DEF Executing
    <2>3. \A k \in Jobs : /\ job'[k].run = job[k].run
                          /\ Executing(k) => Executing(k)'
                          /\ IF job'[k].pc = "alerting" THEN job'[k] = job[k]
                             ELSE job'[k].sending = {}
      BY <1>q, <2>1, <2>2 DEF Executing
    <2> QED
      BY <1>t, <2>1, <2>3, AlertsGoOn
  <1>10. ASSUME NEW j \in Jobs, NEW error \in Errors,
                Verdict(j) \/ OpenCircuit(j, error) \/ Fail(j, error)
         PROVE  AlertsInv'
    BY <1>10, EndsTyped, AlertsOfEnded
  <1>11. ASSUME NEW j \in Jobs, TakeAlert(j)
         PROVE  AlertsInv'
    BY <1>t, <1>11, AlertsTaken
  <1>12. ASSUME NEW j \in Jobs, Send(j)
         PROVE  AlertsInv'
    BY <1>t, <1>12, AlertsSent
  <1>13. ASSUME NEW j \in Jobs, CloseRun(j)
         PROVE  AlertsInv'
    BY <1>t, <1>13, AlertsClosed
  <1>14. "none" \in Errors /\ Faults \subseteq Errors
    BY ApplicationAssumption DEF Errors
  <1> QED
    BY <1>1, <1>2, <1>3, <1>4, <1>5, <1>6, <1>7, <1>8, <1>9, <1>9a, <1>10, <1>11, <1>12,
       <1>13, <1>14
    DEF Next, Processes, CommandLine, JobStep, PcStep

LEMMA AlertsInvariant == ~Overlap /\ Spec => [](Exclusion /\ PanelInv /\ AlertsInv)
  <1>1. Init => AlertsInv
    BY InitAlerts
  <1>2. Exclusion /\ PanelInv /\ AlertsInv /\ [Next]_vars => AlertsInv'
    BY AlertsStep
  <1> QED
    BY <1>1, <1>2, PanelInvariant, PTL DEF Spec

(* Once nobody has a run in hand and its process did not die with it, every
   alert that it deserves was tried on every channel (evaluate_run), whatever
   channels fail and whatever the other threads, and the runs of the same
   connection, do meanwhile. *)
THEOREM AlertsGoOut == ~Overlap /\ Spec => []AlertsAreOut
  <1>1. AlertsInv => AlertsAreOut
    BY DEF AlertsInv
  <1> QED
    BY <1>1, AlertsInvariant, PTL

-----------------------------------------------------------------------------
(* The order of the command line.  One thread at the most carries it out; each
   connection of the order is still before that thread, or has a run of that
   order, and only one. *)

Members(seq) == {seq[i] : i \in DOMAIN seq}
CliJobs      == {j \in Jobs : job[j].pc # "idle" /\ job[j].trigger = "cli"}
CliRun(r, c) == runs[r].trigger = "cli" /\ runs[r].conn = c
IsDone(r)    == HasEnded(r) /\ r \notin dead /\ \A j \in Jobs : job[j].run # r

OrderOf(j) ==
    /\ OneRunEach(job[j].todo)
    /\ \A c \in Members(job[j].todo), r \in RunIds : ~CliRun(r, c)
    /\ cli.pc \in {"direct", "waiting"} =>
         \A c \in Members(cli.asked) :
            \/ c \in Members(job[j].todo)
            \/ \E r \in RunIds : CliRun(r, c) /\ (r = job[j].run \/ IsDone(r))

OrderInv ==
    /\ cli.asked \in Orders \cup {<<>>}
    /\ cli.pc \in {"off", "opening", "posting"} =>
         CliJobs = {} /\ \A r \in RunIds : runs[r].trigger # "cli"
    /\ \A j \in Jobs : job[j].proc = "cli" => job[j].trigger = "cli"
    /\ \A j, k \in CliJobs : j = k
    /\ \A j \in CliJobs : OrderOf(j)
    /\ \A r, s \in RunIds : runs[r].trigger = "cli" /\ CliRun(s, runs[r].conn) => r = s
    /\ cli.code = "zero" =>
         /\ cli.pc = "done" /\ CliJobs = {}
         /\ \A c \in Members(cli.asked) : \E r \in RunIds : CliRun(r, c) /\ IsDone(r)

LEMMA InitOrder == Init => OrderInv
  <1> SUFFICES ASSUME Init PROVE OrderInv
    OBVIOUS
  <1>1. ASSUME NEW r \in RunIds PROVE runs[r].trigger # "cli"
    <2>1. runs[r] = NoRun \/ \E c \in Legacy : runs[r] = LegacyRun(c)
      BY DEF Init
    <2>2. NoRun.trigger = "none" /\ \A c : LegacyRun(c).trigger = "schedule"
      BY DEF NoRun, LegacyRun
    <2> QED
      BY <2>1, <2>2
  <1>2. CliJobs = {}
    BY DEF Init, CliJobs, Idle
  <1> QED
    BY <1>1, <1>2 DEF Init, OrderInv, Idle, Members

(* A step by which no thread and no row comes or goes, of those of an order. *)
LEMMA OrdersGoOn ==
    ASSUME Typed, OrderInv, UNCHANGED <<cli, dead>>,
           \A s \in RunIds :
               /\ runs'[s].trigger = runs[s].trigger /\ runs'[s].conn = runs[s].conn
               /\ HasEnded(s) => HasEnded(s)',
           \A k \in Jobs :
               /\ job'[k].pc = "idle" <=> job[k].pc = "idle"
               /\ job'[k].proc = job[k].proc /\ job'[k].trigger = job[k].trigger
               /\ job'[k].run = job[k].run /\ job'[k].todo = job[k].todo
    PROVE  OrderInv'
  <1>1. CliJobs' = CliJobs
    BY DEF CliJobs
  <1>2. \A r \in RunIds : (IsDone(r) => IsDone(r)') /\ \A c : CliRun(r, c)' <=> CliRun(r, c)
    BY DEF IsDone, CliRun
  <1>3. \A j \in CliJobs : j \in Jobs
    BY DEF CliJobs
  <1>4. ASSUME NEW j \in CliJobs PROVE OrderOf(j)'
    <2>1. OrderOf(j) /\ job'[j].todo = job[j].todo /\ job'[j].run = job[j].run
      BY <1>3 DEF OrderInv
    <2> QED
      BY <1>2, <2>1 DEF OrderOf
  <1> QED
    BY <1>1, <1>2, <1>4 DEF OrderInv

(* A step of the command line while no thread works for it yet, or after it has
   given its order up. *)
LEMMA OrderAsked ==
    ASSUME OrderInv, UNCHANGED <<job, runs, dead>>, cli'.asked \in Orders \cup {<<>>},
           cli'.code # "zero",
           \/ cli'.pc = "done"
           \/ /\ cli.pc \in {"off", "opening", "posting"}
              /\ cli'.pc \in {"off", "opening", "posting"}
    PROVE  OrderInv'
  <1>1. CliJobs' = CliJobs /\ \A r, c : CliRun(r, c)' <=> CliRun(r, c)
    BY DEF CliJobs, CliRun
  <1>2. ASSUME NEW j \in CliJobs PROVE OrderOf(j)'
    BY <1>1, <1>2 DEF OrderInv, OrderOf
  <1> QED
    BY <1>1, <1>2 DEF OrderInv

(* The thread that carries the order out begins with all of it. *)
LEMMA OrderBegins ==
    ASSUME Typed, OrderInv, NEW j \in Jobs, job[j] = Idle, NEW p \in {"resident", "cli"},
           cli.pc \in {"opening", "posting"}, cli'.pc \in {"direct", "waiting"},
           cli'.asked = cli.asked, cli'.code = cli.code, UNCHANGED dead,
           job' = [job EXCEPT ![j] = NewJob(p, "cli", cli.asked)],
           \A s \in RunIds : runs'[s].trigger = runs[s].trigger
    PROVE  OrderInv'
  <1>1. /\ job'[j].pc = "next" /\ job'[j].trigger = "cli" /\ job'[j].todo = cli.asked
        /\ \A k \in Jobs \ {j} : job'[k] = job[k]
    BY DEF Typed, NewJob, Idle
  <1>2. CliJobs = {} /\ \A r \in RunIds : runs[r].trigger # "cli"
    BY DEF OrderInv
  <1>3. CliJobs' = {j}
    BY <1>1, <1>2 DEF CliJobs
  <1>4. OneRunEach(cli.asked)
    BY ApplicationAssumption DEF OrderInv, Typed
  <1>5. \A r \in RunIds : \A c : ~CliRun(r, c)'
    BY <1>2 DEF CliRun
  <1>6. OrderOf(j)'
    BY <1>1, <1>4, <1>5 DEF OrderOf
  <1>7. cli.code # "zero"
    BY DEF OrderInv
  <1> QED
    BY <1>1, <1>2, <1>3, <1>5, <1>6, <1>7 DEF OrderInv

LEMMA HeadAndTail ==
    ASSUME NEW S, NEW seq \in Seq(S), seq # <<>>
    PROVE  /\ Head(seq) \in Members(seq)
           /\ Members(Tail(seq)) \subseteq Members(seq)
           /\ \A c \in Members(seq) : c = Head(seq) \/ c \in Members(Tail(seq))
           /\ OneRunEach(seq) =>
                OneRunEach(Tail(seq)) /\ Head(seq) \notin Members(Tail(seq))
  <1>1. /\ Len(seq) \in Nat /\ Len(seq) >= 1 /\ DOMAIN seq = 1..Len(seq)
        /\ Head(seq) = seq[1] /\ Len(Tail(seq)) = Len(seq) - 1
        /\ DOMAIN Tail(seq) = 1..(Len(seq) - 1)
        /\ \A i \in 1..(Len(seq) - 1) : Tail(seq)[i] = seq[i + 1]
    OBVIOUS
  <1>2. Head(seq) \in Members(seq)
    BY <1>1 DEF Members
  <1>3. Members(Tail(seq)) \subseteq Members(seq)
    BY <1>1 DEF Members
  <1>4. ASSUME NEW i \in 1..Len(seq) PROVE seq[i] = Head(seq) \/ seq[i] \in Members(Tail(seq))
    <2>1. i = 1 \/ (i - 1 \in 1..(Len(seq) - 1) /\ Tail(seq)[i - 1] = seq[i])
      BY <1>1
    <2> QED
      BY <1>1, <2>1 DEF Members
  <1>5. ASSUME OneRunEach(seq)
        PROVE  OneRunEach(Tail(seq)) /\ Head(seq) \notin Members(Tail(seq))
    <2>1. ASSUME NEW i \in 1..(Len(seq) - 1), NEW k \in 1..(Len(seq) - 1),
                 Tail(seq)[i] = Tail(seq)[k]
          PROVE  i = k
      <3>1. seq[i + 1] = seq[k + 1] /\ i + 1 \in 1..Len(seq) /\ k + 1 \in 1..Len(seq)
        BY <1>1, <2>1
      <3>2. i + 1 = k + 1
        BY <1>1, <1>5, <3>1 DEF OneRunEach
      <3> QED
        BY <3>2
    <2>2. ASSUME NEW i \in 1..(Len(seq) - 1), Tail(seq)[i] = Head(seq)
          PROVE  FALSE
      <3>1. seq[i + 1] = seq[1] /\ i + 1 \in 1..Len(seq) /\ 1 \in 1..Len(seq) /\ i + 1 # 1
        BY <1>1, <2>2
      <3> QED
        BY <1>1, <1>5, <3>1 DEF OneRunEach
    <2> QED
      BY <1>1, <2>1, <2>2 DEF OneRunEach, Members
  <1> QED
    BY <1>1, <1>2, <1>3, <1>4, <1>5 DEF Members


(* The next connection of a thread gets its row. *)
LEMMA OrderInserts ==
    ASSUME Typed, Typed', OrderInv, NEW j \in Jobs, NEW r \in RunIds, NEW new,
           job[j].pc = "next", job[j].run = 0, runs[r] = NoRun,
           runs' = [runs EXCEPT ![r] = new],
           new.conn = Head(job[j].todo), new.trigger = job[j].trigger,
           UNCHANGED <<cli, dead>>,
           job'[j].pc # "idle", job'[j].proc = job[j].proc, job'[j].trigger = job[j].trigger,
           job'[j].run = r, job'[j].todo = Tail(job[j].todo),
           \A k \in Jobs \ {j} : job'[k] = job[k]
    PROVE  OrderInv'
  <1>h. PICK head : head = Head(job[j].todo)
    OBVIOUS
  <1>1. runs'[r] = new /\ \A s \in RunIds \ {r} : runs'[s] = runs[s]
    BY DEF Typed
  <1>2. CliJobs' = CliJobs
    BY DEF CliJobs
  <1>3. ~HasEnded(r) /\ runs[r].trigger = "none"
    BY DEF HasEnded, Terminal, NoRun
  <1>4. ASSUME NEW s \in RunIds, IsDone(s) \/ runs[s].trigger = "cli"
        PROVE  s # r /\ \A c : CliRun(s, c)' <=> CliRun(s, c)
    BY <1>1, <1>3, <1>4 DEF IsDone, CliRun
  <1>5. ASSUME NEW s \in RunIds, IsDone(s) PROVE IsDone(s)'
    <2>1. s # r
      BY <1>4, <1>5
    <2>2. HasEnded(s)' /\ s \notin dead'
      BY <1>1, <1>5, <2>1 DEF IsDone, HasEnded
    <2>3. \A k \in Jobs : job'[k].run # s
      BY <1>5, <2>1 DEF IsDone
    <2> QED
      BY <2>2, <2>3 DEF IsDone
  <1>6. /\ Head(job[j].todo) \in Members(job[j].todo)
        /\ Members(Tail(job[j].todo)) \subseteq Members(job[j].todo)
        /\ \A c \in Members(job[j].todo) :
             c = Head(job[j].todo) \/ c \in Members(Tail(job[j].todo))
        /\ OneRunEach(job[j].todo) =>
             /\ OneRunEach(Tail(job[j].todo))
             /\ Head(job[j].todo) \notin Members(Tail(job[j].todo))
    <2>1. job[j].todo \in Seq(Conns) /\ job[j].todo # <<>>
      BY DEF Typed, JobRecords
    <2> QED
      BY <2>1, HeadAndTail
  <1>7. ASSUME job[j].trigger = "cli"
        PROVE  /\ j \in CliJobs /\ OrderOf(j) /\ CliJobs = {j}
               /\ CliRun(r, head)'
               /\ \A s \in RunIds : ~CliRun(s, head)
    <2>1. j \in CliJobs
      BY <1>7 DEF CliJobs
    <2>2. OrderOf(j) /\ CliJobs = {j}
      BY <2>1 DEF OrderInv
    <2>3. CliRun(r, head)'
      BY <1>1, <1>7, <1>h DEF CliRun
    <2> QED
      BY <1>6, <1>h, <2>1, <2>2, <2>3 DEF OrderOf
  <1>8. ASSUME job[j].trigger = "cli" PROVE OrderOf(j)'
    <2>1. OneRunEach(Tail(job[j].todo))
      BY <1>6, <1>7, <1>8 DEF OrderOf
    <2>2. ASSUME NEW c \in Members(Tail(job[j].todo)), NEW s \in RunIds, CliRun(s, c)'
          PROVE  FALSE
      <3>1. CASE s = r
        BY <1>1, <1>6, <1>7, <1>8, <2>2, <3>1 DEF CliRun, OrderOf
      <3>2. CASE s # r
        <4>1. CliRun(s, c)
          BY <1>1, <2>2, <3>2 DEF CliRun
        <4> QED
          BY <1>6, <1>7, <1>8, <4>1 DEF OrderOf
      <3> QED
        BY <3>1, <3>2
    <2>3. ASSUME cli.pc \in {"direct", "waiting"}, NEW c \in Members(cli.asked)
          PROVE  \/ c \in Members(Tail(job[j].todo))
                 \/ \E s \in RunIds : CliRun(s, c)' /\ (s = r \/ IsDone(s)')
      <3>1. CASE c \in Members(job[j].todo)
        BY <1>6, <1>7, <1>8, <1>h, <3>1
      <3>2. CASE c \notin Members(job[j].todo)
        <4>1. PICK s \in RunIds : CliRun(s, c) /\ (s = job[j].run \/ IsDone(s))
          BY <1>7, <1>8, <2>3, <3>2 DEF OrderOf
        <4>2. IsDone(s)
          BY <4>1, ApplicationAssumption
        <4> QED
          BY <1>4, <1>5, <4>1, <4>2
      <3> QED
        BY <3>1, <3>2
    <2> QED
      BY <2>1, <2>2, <2>3 DEF OrderOf
  <1>9. ASSUME NEW k \in CliJobs, job[j].trigger # "cli" PROVE OrderOf(k)'
    <2>1. /\ k \in Jobs \ {j} /\ OrderOf(k) /\ job'[k] = job[k]
      BY <1>9 DEF CliJobs, OrderInv
    <2>2. \A s \in RunIds : \A c : CliRun(s, c)' <=> CliRun(s, c)
      BY <1>1, <1>3, <1>9 DEF CliRun
    <2> QED
      BY <1>5, <2>1, <2>2 DEF OrderOf
  <1>10. ASSUME NEW s \in RunIds, NEW t \in RunIds, runs'[s].trigger = "cli",
                CliRun(t, runs[s].conn)'
         PROVE  s = t
    <2>1. runs'[t].trigger = "cli" /\ runs'[t].conn = runs'[s].conn
      BY <1>10 DEF CliRun
    <2>2. CASE s = r \/ t = r
      <3>1. job[j].trigger = "cli" /\ runs'[r].conn = Head(job[j].todo)
        BY <1>1, <1>10, <2>1, <2>2
      <3>2. \A u \in RunIds \ {r} :
               ~(runs'[u].trigger = "cli" /\ runs'[u].conn = Head(job[j].todo))
        BY <1>1, <1>7, <1>h, <3>1 DEF CliRun
      <3> QED
        BY <1>10, <2>1, <2>2, <3>1, <3>2
    <2>3. CASE s # r /\ t # r
      BY <1>1, <1>10, <2>1, <2>3 DEF OrderInv, CliRun
    <2> QED
      BY <2>2, <2>3
  <1>11. cli.pc \in {"off", "opening", "posting"} =>
           \A s \in RunIds : runs'[s].trigger # "cli"
    BY <1>1, <1>7 DEF OrderInv
  <1>12. cli.code = "zero" =>
           \A c \in Members(cli.asked) : \E s \in RunIds : CliRun(s, c)' /\ IsDone(s)'
    BY <1>4, <1>5 DEF OrderInv
  <1>13. \A k \in Jobs : job'[k].proc = "cli" => job'[k].trigger = "cli"
    BY DEF OrderInv
  <1>14. \A k \in CliJobs : OrderOf(k)'
    BY <1>7, <1>8, <1>9
  <1> QED
    BY <1>2, <1>10, <1>11, <1>12, <1>13, <1>14 DEF OrderInv


(* Threads end or die; the command line learns that its order failed, or does
   not learn anything. *)
LEMMA OrderOfFewer ==
    ASSUME Typed, PanelInv, OrderInv, UNCHANGED runs,
           \A s \in dead' : s \in dead \/ \E j \in Jobs : job[j].run = s,
           \A k \in Jobs : job'[k] = job[k] \/ job'[k] = Idle,
           cli' = cli \/ cli' = Gone("one")
    PROVE  OrderInv'
  <1>1. CliJobs' \subseteq CliJobs /\ \A k \in CliJobs' : k \in Jobs /\ job'[k] = job[k]
    BY DEF CliJobs, Idle
  <1>2. \A s \in RunIds : s # 0
    BY ApplicationAssumption
  <1>3. \A s \in RunIds : IsDone(s) => IsDone(s)'
    BY <1>2 DEF IsDone, HasEnded, Idle
  <1>4. \A s, c : CliRun(s, c)' <=> CliRun(s, c)
    BY DEF CliRun
  <1>5. Gone("one").asked = <<>> /\ Gone("one").pc = "done" /\ Gone("one").code = "one"
    BY DEF Gone
  <1>6. ASSUME NEW k \in CliJobs' PROVE OrderOf(k)'
    <2>1. OrderOf(k) /\ job'[k] = job[k]
      BY <1>1 DEF OrderInv
    <2> QED
      BY <1>3, <1>4, <1>5, <2>1 DEF OrderOf
  <1>7. \A k \in Jobs : job'[k].proc = "cli" => job'[k].trigger = "cli"
    BY DEF OrderInv, Idle
  <1>8. CASE cli' = cli
    BY <1>1, <1>3, <1>4, <1>6, <1>7, <1>8 DEF OrderInv
  <1>9. CASE cli' = Gone("one")
    BY <1>1, <1>4, <1>5, <1>6, <1>7, <1>9 DEF OrderInv
  <1> QED
    BY <1>8, <1>9

(* The thread lets its run go, which ended and whose process lives. *)
LEMMA RunIsDone ==
    ASSUME Typed, PanelInv, AlertsInv, NEW j \in Jobs, job[j].pc = "alerting",
           UNCHANGED <<runs, dead>>, job'[j].run = 0,
           \A k \in Jobs \ {j} : job'[k] = job[k]
    PROVE  /\ \A s \in RunIds : s = job[j].run \/ IsDone(s) => IsDone(s)'
           /\ \A s, c : CliRun(s, c)' <=> CliRun(s, c)
  <1>1. PICK r \in RunIds : r = job[j].run /\ r # 0 /\ \A k \in Jobs \ {j} : job[k].run # r
    BY OwnEntry
  <1>2. HasEnded(r) /\ r \notin dead
    BY <1>1 DEF AlertsInv, Evaluation, InHands
  <1>3. IsDone(r)'
    BY <1>1, <1>2 DEF IsDone, HasEnded
  <1>4. \A s \in RunIds : s # 0
    BY ApplicationAssumption
  <1>5. \A s \in RunIds : IsDone(s) => IsDone(s)'
    BY <1>4 DEF IsDone, HasEnded
  <1>6. \A s, c : CliRun(s, c)' <=> CliRun(s, c)
    BY DEF CliRun
  <1> QED
    BY <1>1, <1>3, <1>5, <1>6


LEMMA OrderCloses ==
    ASSUME Typed, Processed, PanelInv, AlertsInv, OrderInv, NEW j \in Jobs, CloseRun(j)
    PROVE  OrderInv'
  <1>1. job[j].pc = "alerting" /\ UNCHANGED <<runs, dead>>
    BY DEF CloseRun, dbVars
  <1>2. CASE Over(j, "one")
    <2>1. /\ \A k \in Jobs : job'[k] = job[k] \/ job'[k] = Idle
          /\ cli' = cli \/ cli' = Gone("one")
      BY <1>2 DEF Over, Typed
    <2> QED
      BY <1>1, <2>1, OrderOfFewer
  <1>3. CASE job[j].todo = <<>> /\ Over(j, "zero")
    <2>1. job'[j] = Idle /\ \A k \in Jobs \ {j} : job'[k] = job[k]
      BY <1>3 DEF Over, Typed
    <2>2. CASE cli' = cli
      <3>1. \A k \in Jobs : job'[k] = job[k] \/ job'[k] = Idle
        BY <2>1
      <3> QED
        BY <1>1, <2>2, <3>1, OrderOfFewer
    <2>3. CASE cli' # cli
      <3>1. /\ cli' = Gone("zero") /\ job[j].trigger = "cli" /\ cli.pc \in {"direct", "waiting"}
        BY <1>1, <1>3, <2>3 DEF Over, OrderInv, Processed, Hands
      <3>2. cli'.asked = cli.asked /\ cli'.pc = "done"
        BY <3>1 DEF Gone
      <3>3. CliJobs = {j} /\ OrderOf(j)
        BY <1>1, <3>1 DEF CliJobs, OrderInv
      <3>4. CliJobs' = {}
        BY <2>1, <3>3 DEF CliJobs, Idle
      <3>5. /\ \A s \in RunIds : s = job[j].run \/ IsDone(s) => IsDone(s)'
            /\ \A s, c : CliRun(s, c)' <=> CliRun(s, c)
        BY <1>1, <2>1, RunIsDone DEF Idle
      <3>6. ASSUME NEW c \in Members(cli.asked)
            PROVE  \E r \in RunIds : CliRun(r, c)' /\ IsDone(r)'
        <4>1. c \notin Members(job[j].todo)
          BY <1>3 DEF Members
        <4>2. PICK r \in RunIds : CliRun(r, c) /\ (r = job[j].run \/ IsDone(r))
          BY <3>1, <3>3, <3>6, <4>1 DEF OrderOf
        <4> QED
          BY <3>5, <4>2
      <3>7. \A k \in Jobs : job'[k].proc = "cli" => job'[k].trigger = "cli"
        BY <2>1 DEF OrderInv, Idle
      <3>8. \A r, s \in RunIds :
               runs'[r].trigger = "cli" /\ CliRun(s, runs[r].conn)' => r = s
        BY <1>1 DEF OrderInv, CliRun
      <3> QED
        BY <3>2, <3>4, <3>6, <3>7, <3>8 DEF OrderInv
    <2> QED
      BY <2>2, <2>3
  <1>4. CASE job' = [job EXCEPT ![j] = [job[j] EXCEPT !.pc = "next", !.run = 0]]
             /\ UNCHANGED <<cli, mutex>>
    <2>1. /\ job'[j].pc = "next" /\ job'[j].run = 0 /\ job'[j].todo = job[j].todo
          /\ job'[j].proc = job[j].proc /\ job'[j].trigger = job[j].trigger
          /\ \A k \in Jobs \ {j} : job'[k] = job[k]
      BY <1>4 DEF Typed, JobRecords
    <2>2. CliJobs' = CliJobs /\ \A k \in CliJobs : k \in Jobs
      BY <1>1, <2>1 DEF CliJobs
    <2>3. /\ \A s \in RunIds : s = job[j].run \/ IsDone(s) => IsDone(s)'
          /\ \A s, c : CliRun(s, c)' <=> CliRun(s, c)
      BY <1>1, <2>1, RunIsDone
    <2>4. ASSUME NEW k \in CliJobs PROVE OrderOf(k)'
      <3>1. OrderOf(k) /\ job'[k].todo = job[k].todo /\ (k # j => job'[k].run = job[k].run)
        BY <2>1, <2>2 DEF OrderInv
      <3>2. \A s \in RunIds : s = job[k].run \/ IsDone(s) => s = job'[k].run \/ IsDone(s)'
        BY <2>3, <3>1
      <3> QED
        BY <1>4, <2>3, <3>1, <3>2 DEF OrderOf
    <2>5. \A r, s \in RunIds :
             runs'[r].trigger = "cli" /\ CliRun(s, runs[r].conn)' => r = s
      BY <1>1 DEF OrderInv, CliRun
    <2>6. \A k \in Jobs : job'[k].proc = "cli" => job'[k].trigger = "cli"
      BY <2>1 DEF OrderInv
    <2> QED
      BY <1>1, <1>4, <2>2, <2>3, <2>4, <2>5, <2>6 DEF OrderInv
  <1> QED
    BY <1>2, <1>3, <1>4 DEF CloseRun, Raise

(* A step of the evaluation of alerts leaves the order of its thread alone. *)
LEMMA AlertKeepsOrder ==
    ASSUME Typed, NEW j \in Jobs, TakeAlert(j) \/ Send(j)
    PROVE  \A k \in Jobs : job'[k].trigger = job[k].trigger /\ job'[k].todo = job[k].todo
  <1>j. job[j] \in JobRecords /\ job \in [Jobs -> JobRecords]
    BY DEF Typed
  <1>1. PICK due, sending :
          job' = [job EXCEPT ![j] = [job[j] EXCEPT !.due = due, !.sending = sending]]
    <2>1. CASE TakeAlert(j)
      <3> DEFINE due == job[j].due \ {CHOOSE a \in job[j].due : TRUE}
                 sending == {CHOOSE a \in job[j].due : TRUE}
      <3>1. \/ job' = [job EXCEPT ![j] = [job[j] EXCEPT !.due = due]]
            \/ job' = [job EXCEPT ![j] = [job[j] EXCEPT !.due = due, !.sending = sending]]
        BY <2>1 DEF TakeAlert
      <3> HIDE DEF due, sending
      <3>2. [job[j] EXCEPT !.due = due]
              = [job[j] EXCEPT !.due = due, !.sending = job[j].sending]
        BY <1>j DEF JobRecords
      <3>3. CASE job' = [job EXCEPT ![j] = [job[j] EXCEPT !.due = due]]
        BY <3>2, <3>3
      <3>4. CASE job' = [job EXCEPT ![j] = [job[j] EXCEPT !.due = due, !.sending = sending]]
        BY <3>4
      <3> QED
        BY <3>1, <3>3, <3>4
    <2>2. CASE Send(j)
      <3>1. PICK a \in job[j].sending :
               job' = [job EXCEPT ![j] = [job[j] EXCEPT !.sending = {}, !.due = Rest(j, a)]]
        BY <2>2 DEF Send
      <3> DEFINE due == Rest(j, a)
      <3>2. job' = [job EXCEPT ![j] = [job[j] EXCEPT !.sending = {}, !.due = due]]
        BY <3>1
      <3> HIDE DEF due
      <3>3. [job[j] EXCEPT !.sending = {}, !.due = due]
              = [job[j] EXCEPT !.due = due, !.sending = {}]
        BY <1>j DEF JobRecords
      <3> QED
        BY <3>2, <3>3
    <2> QED
      BY <2>1, <2>2
  <1> QED
    BY <1>j, <1>1 DEF JobRecords


LEMMA OrderStep ==
    Exclusion /\ PanelInv /\ AlertsInv /\ OrderInv /\ [Next]_vars => OrderInv'
  <1> SUFFICES ASSUME Exclusion, PanelInv, AlertsInv, OrderInv, [Next]_vars PROVE OrderInv'
    OBVIOUS
  <1>t. Typed /\ Processed /\ \A k \in Jobs : job[k] \in JobRecords
    BY DEF Exclusion, Typed
  <1>u. Typed'
    BY <1>t, TypedStep
  <1>1. CASE ResidentStart \/ Exit \/ Exited \/ UNCHANGED vars
             \/ (\E j \in Jobs : \/ \E f \in Files, result \in {"ok", "failed"} :
                                       WorkerDone(j, f, result)
                                 \/ RecordBatch(j))
    <2>1. UNCHANGED <<runs, cli, job, dead>>
      BY <1>1 DEF ResidentStart, Exit, Exited, WorkerDone, RecordBatch, vars, dbVars, jobVars
    <2> QED
      BY <1>t, <2>1, OrdersGoOn DEF HasEnded
  <1>1a. ASSUME NEW j \in Jobs, PcStep(j)
         PROVE  OrderInv'
    <2>1. /\ UNCHANGED <<runs, cli, dead>> /\ Executing(j) /\ Executing(j)'
          /\ \A k \in Jobs \ {j} : job'[k] = job[k]
          /\ \A k \in Jobs : /\ job'[k].proc = job[k].proc
                             /\ job'[k].trigger = job[k].trigger
                             /\ job'[k].run = job[k].run /\ job'[k].todo = job[k].todo
      BY <1>t, <1>1a, PcMoves
    <2>2. \A k \in Jobs : job'[k].pc = "idle" <=> job[k].pc = "idle"
      BY <2>1 DEF Executing
    <2> QED
      BY <1>t, <2>1, <2>2, OrdersGoOn DEF HasEnded
  <1>2. ASSUME NEW order \in Orders, OrderDirect(order) \/ OrderDelegated(order)
        PROVE  OrderInv'
    <2>1. /\ UNCHANGED <<job, runs, dead>> /\ cli.pc = "off"
          /\ cli'.pc \in {"opening", "posting"} /\ cli'.asked = order /\ cli'.code = cli.code
      BY <1>t, <1>2 DEF OrderDirect, OrderDelegated, dbVars, jobVars, Typed, CliRecords
    <2>2. cli.code # "zero"
      BY <2>1 DEF OrderInv
    <2> QED
      BY <2>1, <2>2, OrderAsked
  <1>3. CASE PostRefused \/ Timeout
    <2>1. /\ UNCHANGED <<job, runs, dead>> /\ cli.pc \in {"posting", "waiting"}
          /\ \/ cli' = Gone("one")
             \/ cli.pc = "posting" /\ cli' = [cli EXCEPT !.tries = @ + 1]
      BY <1>3 DEF PostRefused, Timeout, GiveUp, dbVars, jobVars
    <2>2. Gone("one").asked = <<>> /\ Gone("one").pc = "done" /\ Gone("one").code = "one"
      BY DEF Gone
    <2>3. CASE cli' = Gone("one")
      BY <2>1, <2>2, <2>3, OrderAsked
    <2>4. CASE cli.pc = "posting" /\ cli' = [cli EXCEPT !.tries = @ + 1]
      <3>1. cli'.pc = "posting" /\ cli'.asked = cli.asked /\ cli'.code = cli.code
        BY <1>t, <2>4 DEF Typed, CliRecords
      <3>2. cli.code # "zero" /\ cli.asked \in Orders \cup {<<>>}
        BY <2>4 DEF OrderInv
      <3> QED
        BY <2>1, <2>4, <3>1, <3>2, OrderAsked
    <2> QED
      BY <2>1, <2>3, <2>4
  <1>r. ASSUME Recover, NEW s \in RunIds
        PROVE  /\ runs'[s].trigger = runs[s].trigger /\ runs'[s].conn = runs[s].conn
               /\ HasEnded(s) => HasEnded(s)'
    <2>1. CASE runs[s].status = "running"
      <3>1. /\ runs'[s] = Ended(runs[s], rows'[s], "failed", "interrupted", runs[s].warned)
            /\ runs[s] \in RunRecords
        BY <1>t, <1>r, <2>1 DEF Recover, Typed
      <3>2. runs'[s].trigger = runs[s].trigger /\ runs'[s].conn = runs[s].conn
        BY <3>1 DEF Ended, RunRecords
      <3> QED
        BY <2>1, <3>2 DEF HasEnded, Terminal
    <2>2. CASE runs[s].status # "running"
      BY <1>r, <2>2 DEF Recover, HasEnded
    <2> QED
      BY <2>1, <2>2
  <1>4. CASE ResidentOpen
    <2>1. Recover /\ UNCHANGED <<cli, job, dead>>
      BY <1>4 DEF ResidentOpen, jobVars
    <2> QED
      BY <1>t, <1>r, <2>1, OrdersGoOn
  <1>5. ASSUME NEW j \in Jobs, OpenCli(j)
        PROVE  OrderInv'
    <2>1. /\ Recover /\ UNCHANGED dead /\ job[j] = Idle /\ cli.pc = "opening"
          /\ job' = [job EXCEPT ![j] = NewJob("cli", "cli", cli.asked)]
          /\ cli'.pc = "direct" /\ cli'.asked = cli.asked /\ cli'.code = cli.code
      BY <1>t, <1>5 DEF OpenCli, Typed, CliRecords
    <2> QED
      BY <1>t, <1>r, <2>1, OrderBegins
  <1>6. ASSUME NEW j \in Jobs, Post(j)
        PROVE  OrderInv'
    <2>1. /\ UNCHANGED <<runs, dead>> /\ job[j] = Idle /\ cli.pc = "posting"
          /\ job' = [job EXCEPT ![j] = NewJob("resident", "cli", cli.asked)]
          /\ cli'.pc = "waiting" /\ cli'.asked = cli.asked /\ cli'.code = cli.code
      BY <1>t, <1>6 DEF Post, dbVars, Typed, CliRecords
    <2> QED
      BY <1>t, <2>1, OrderBegins
  <1>7. ASSUME NEW j \in Jobs, NEW c \in Conns, SchedulerJob(j, c)
        PROVE  OrderInv'
    <2>1. /\ UNCHANGED <<runs, cli, dead>> /\ job[j] = Idle
          /\ job'[j].proc = "resident" /\ job'[j].trigger = "schedule"
          /\ job'[j].run = 0 /\ \A k \in Jobs \ {j} : job'[k] = job[k]
      BY <1>t, <1>7 DEF SchedulerJob, NewJob, Idle, dbVars, Typed
    <2>2. CliJobs' = CliJobs /\ \A k \in CliJobs : k \in Jobs \ {j}
      BY <2>1 DEF CliJobs, Idle
    <2>3. /\ \A s \in RunIds : s # 0
          /\ \A s, d : CliRun(s, d)' <=> CliRun(s, d)
      BY <2>1, ApplicationAssumption DEF CliRun
    <2>4. \A s \in RunIds : IsDone(s) => IsDone(s)'
      BY <2>1, <2>3 DEF IsDone, HasEnded
    <2>5. ASSUME NEW k \in CliJobs PROVE OrderOf(k)'
      <3>1. OrderOf(k) /\ job'[k] = job[k]
        BY <2>1, <2>2 DEF OrderInv
      <3> QED
        BY <2>1, <2>3, <2>4, <3>1 DEF OrderOf
    <2>6. \A k \in Jobs : job'[k].proc = "cli" => job'[k].trigger = "cli"
      BY <2>1 DEF OrderInv
    <2> QED
      BY <2>1, <2>2, <2>3, <2>4, <2>5, <2>6 DEF OrderInv
  <1>8. ASSUME NEW j \in Jobs, RefuseRun(j)
        PROVE  OrderInv'
    <2>1. /\ UNCHANGED <<runs, dead>>
          /\ cli' = cli \/ cli' = Gone("one")
          /\ \A k \in Jobs : job'[k] = job[k] \/ job'[k] = Idle
      BY <1>t, <1>8 DEF RefuseRun, Raise, Over, dbVars, Typed
    <2> QED
      BY <1>t, <2>1, OrderOfFewer
  <1>9. CASE CrashResident \/ CrashCli
    <2>1. PICK p : Die(p)
      BY <1>9 DEF CrashResident, CrashCli
    <2>2. UNCHANGED runs /\ (cli' = cli \/ cli' = Gone("one"))
      BY <1>9 DEF CrashResident, CrashCli, dbVars
    <2>3. /\ \A k \in Jobs : job'[k] = job[k] \/ job'[k] = Idle
          /\ \A s \in dead' : s \in dead \/ \E j \in Jobs : job[j].run = s
      BY <2>1 DEF Die, RunsOf, JobsOf
    <2> QED
      BY <1>t, <2>2, <2>3, OrderOfFewer
  <1>i. ASSUME NEW j \in Jobs, NEW r \in RunIds, Insert(j, r)
        PROVE  job[j].pc = "next" /\ job[j].run = 0 /\ runs[r] = NoRun
    BY <1>i DEF Insert, PanelInv, JobFacts
  <1>10. ASSUME NEW j \in Jobs, NEW r \in RunIds, BeginRun(j, r)
         PROVE  OrderInv'
    <2>1. /\ Insert(j, r) /\ runs' = [runs EXCEPT ![r] = RowFor(j)] /\ UNCHANGED <<cli, dead>>
          /\ job' = [job EXCEPT ![j] = [job[j] EXCEPT !.pc = "starting", !.run = r,
                                          !.todo = Tail(job[j].todo), !.warned = FALSE]]
      BY <1>10 DEF BeginRun
    <2>2. RowFor(j).conn = Head(job[j].todo) /\ RowFor(j).trigger = job[j].trigger
      BY DEF RowFor, NoRun
    <2>3. /\ job'[j].pc # "idle" /\ job'[j].proc = job[j].proc
          /\ job'[j].trigger = job[j].trigger /\ job'[j].run = r
          /\ job'[j].todo = Tail(job[j].todo) /\ \A k \in Jobs \ {j} : job'[k] = job[k]
      BY <1>t, <2>1 DEF Typed, JobRecords
    <2> QED
      BY <1>t, <1>u, <1>i, <2>1, <2>2, <2>3, OrderInserts
  <1>11. ASSUME NEW j \in Jobs, NEW r \in RunIds, NEW error, FailPreflight(j, r, error)
         PROVE  OrderInv'
    <2> DEFINE new == [RowFor(j) EXCEPT !.status = "failed", !.error = error]
               due == DueFor(r, new)
    <2>1. /\ Insert(j, r) /\ runs' = [runs EXCEPT ![r] = new] /\ UNCHANGED <<cli, dead>>
          /\ job' = [job EXCEPT ![j] = [job[j] EXCEPT !.pc = "alerting", !.run = r,
                                          !.todo = Tail(job[j].todo), !.due = due,
                                          !.raising = TRUE]]
      BY <1>11 DEF FailPreflight
    <2>2. new.conn = Head(job[j].todo) /\ new.trigger = job[j].trigger
      BY DEF RowFor, NoRun
    <2> HIDE DEF new, due
    <2>3. /\ job'[j].pc # "idle" /\ job'[j].proc = job[j].proc
          /\ job'[j].trigger = job[j].trigger /\ job'[j].run = r
          /\ job'[j].todo = Tail(job[j].todo) /\ \A k \in Jobs \ {j} : job'[k] = job[k]
      BY <1>t, <2>1 DEF Typed, JobRecords
    <2> QED
      BY <1>t, <1>u, <1>i, <2>1, <2>2, <2>3, OrderInserts
  <1>12. ASSUME NEW j \in Jobs,
                \/ \E batch \in SUBSET Files : AddBatch(j, batch)
                \/ \E found \in 0..Cardinality(Files) : EndListing(j, found)
         PROVE  OrderInv'
    <2> DEFINE r == job[j].run
    <2>1. /\ job[j].pc = "discovering" /\ UNCHANGED <<cli, dead>>
          /\ \E found : runs' = [runs EXCEPT ![r] = [runs[r] EXCEPT !.found = found]]
      BY <1>12 DEF AddBatch, EndListing
    <2>2. \A s \in RunIds : /\ runs'[s].trigger = runs[s].trigger
                            /\ runs'[s].conn = runs[s].conn
                            /\ runs'[s].status = runs[s].status
      BY <1>t, <2>1 DEF Typed, RunRecords
    <2>3. PICK warned, pc :
             /\ pc # "idle"
             /\ job' = [job EXCEPT ![j] = [job[j] EXCEPT !.warned = warned, !.pc = pc]]
      BY <1>t, <1>12, ListingJob
    <2>4. \A k \in Jobs : /\ job'[k].pc = "idle" <=> job[k].pc = "idle"
                          /\ job'[k].proc = job[k].proc /\ job'[k].trigger = job[k].trigger
                          /\ job'[k].run = job[k].run /\ job'[k].todo = job[k].todo
      BY <1>t, <2>1, <2>3 DEF Typed, JobRecords
    <2> QED
      BY <1>t, <2>1, <2>2, <2>4, OrdersGoOn DEF HasEnded
  <1>13. ASSUME NEW j \in Jobs, NEW error \in Errors,
                Verdict(j) \/ OpenCircuit(j, error) \/ Fail(j, error)
         PROVE  OrderInv'
    <2>1. PICK fs : \E status \in Terminal, err \in Errors, raising \in BOOLEAN :
                       EndRun(j, fs, status, err, raising)
      BY <1>13, EndsTyped
    <2>2. PICK status \in Terminal, err \in Errors, raising \in BOOLEAN :
                       EndRun(j, fs, status, err, raising)
      BY <2>1
    <2> DEFINE r   == job[j].run
               new == Ended(runs[r], fs, status, err, job[j].warned)
               due == DueFor(r, new)
    <2>3. /\ runs' = [runs EXCEPT ![r] = new] /\ UNCHANGED <<cli, dead>>
          /\ job' = [job EXCEPT ![j] = [job[j] EXCEPT !.pc = "alerting", !.raising = raising,
                                                      !.due = due]]
      BY <2>2 DEF EndRun
    <2>4. Executing(j)
      BY <1>13, EndsTyped
    <2>5. r \in RunIds /\ runs[r] \in RunRecords
      BY <1>t, <2>4 DEF Typed
    <2>6. new.status = status /\ new.conn = runs[r].conn /\ new.trigger = runs[r].trigger
      BY <2>5 DEF Ended, RunRecords
    <2> HIDE DEF new, due
    <2>7. \A s \in RunIds : /\ runs'[s].trigger = runs[s].trigger
                            /\ runs'[s].conn = runs[s].conn
                            /\ HasEnded(s) => HasEnded(s)'
      BY <1>t, <2>3, <2>6 DEF Typed, HasEnded
    <2>8. \A k \in Jobs : /\ job'[k].pc = "idle" <=> job[k].pc = "idle"
                          /\ job'[k].proc = job[k].proc /\ job'[k].trigger = job[k].trigger
                          /\ job'[k].run = job[k].run /\ job'[k].todo = job[k].todo
      BY <1>t, <2>3, <2>4 DEF Typed, JobRecords, Executing
    <2> QED
      BY <1>t, <2>3, <2>7, <2>8, OrdersGoOn
  <1>14. ASSUME NEW j \in Jobs, TakeAlert(j) \/ Send(j)
         PROVE  OrderInv'
    <2>1. UNCHANGED dead
      BY <1>14 DEF TakeAlert, Send
    <2> QED
      BY <1>t, <1>14, <2>1, AlertKeepsJob, AlertKeepsOrder, OrdersGoOn DEF HasEnded
  <1>15. ASSUME NEW j \in Jobs, CloseRun(j)
         PROVE  OrderInv'
    BY <1>t, <1>15, OrderCloses
  <1>16. "none" \in Errors /\ Faults \subseteq Errors
    BY ApplicationAssumption DEF Errors
  <1> QED
    BY <1>1, <1>1a, <1>2, <1>3, <1>4, <1>5, <1>6, <1>7, <1>8, <1>9, <1>10, <1>11, <1>12,
       <1>13, <1>14, <1>15, <1>16
    DEF Next, Processes, CommandLine, JobStep, PcStep

LEMMA OrderInvariant == ~Overlap /\ Spec => []OrderInv
  <1>1. Init => OrderInv
    BY InitOrder
  <1>2. Exclusion /\ PanelInv /\ AlertsInv /\ OrderInv /\ [Next]_vars => OrderInv'
    BY OrderStep
  <1> QED
    BY <1>1, <1>2, AlertsInvariant, PTL DEF Spec

(* An order of the command line makes one run at the most of each connection,
   and the code 0 means that each connection of it was executed to a verdict
   by a process that lived to answer (execute_run_now and _delegate). *)
THEOREM OrdersAreHonoured == ~Overlap /\ Spec => []OrderIsHonoured
  <1>1. OrderInv => OrderIsHonoured
    <2> SUFFICES ASSUME OrderInv, NEW c \in Conns
                 PROVE  LET Of == {r \in RunIds : runs[r].trigger = "cli" /\ runs[r].conn = c}
                        IN /\ Cardinality(Of) <= 1
                           /\ cli.code = "zero" /\ c \in {cli.asked[i] : i \in DOMAIN cli.asked} =>
                                \E r \in Of : runs[r].status \in Terminal /\ r \notin dead
      BY DEF OrderIsHonoured
    <2> DEFINE Of == {r \in RunIds : runs[r].trigger = "cli" /\ runs[r].conn = c}
    <2>1. \A r, s \in Of : r = s
      BY DEF OrderInv, CliRun
    <2>2. Cardinality(Of) <= 1
      <3>1. CASE Of = {}
        BY <3>1, FS_EmptySet
      <3>2. CASE Of # {}
        <4>1. PICK r \in Of : Of = {r}
          BY <2>1, <3>2
        <4> HIDE DEF Of
        <4>2. Cardinality({r}) = 1
          BY FS_Singleton
        <4> QED
          BY <4>1, <4>2
      <3> QED
        BY <3>1, <3>2
    <2>3. ASSUME cli.code = "zero", c \in Members(cli.asked)
          PROVE  \E r \in Of : runs[r].status \in Terminal /\ r \notin dead
      BY <2>3 DEF OrderInv, CliRun, IsDone, HasEnded
    <2> QED
      BY <2>2, <2>3 DEF Members
  <1> QED
    BY <1>1, OrderInvariant, PTL

-----------------------------------------------------------------------------
(* The types: what TypeOK says besides, that no count exceeds the files. *)

Counted == 0..Cardinality(Files)

CountsInv ==
    /\ mutex \in {"none", "resident", "cli"}
    /\ cli.tries \in 0..MaxTries-1
    /\ \A r \in RunIds : /\ runs[r].found \in Counted
                         /\ runs[r].downloaded \in Counted /\ runs[r].failed \in Counted
    /\ \A r \in RunIds : panel[r].total \in Counted /\ panel[r].done \in Counted
    /\ \A j \in Jobs : job[j].pc \in {"starting", "discovering"} =>
         runs[job[j].run].found = Persisted(rows[job[j].run])

LEMMA CountsAreBounded ==
    ASSUME NEW fs, NEW status
    PROVE  Count(fs, status) \in Counted /\ Persisted(fs) \in Counted
  <1>1. With(fs, status) \subseteq Files /\ Files \ With(fs, "none") \subseteq Files
    BY DEF With
  <1>2. /\ Cardinality(With(fs, status)) <= Cardinality(Files)
        /\ Cardinality(Files \ With(fs, "none")) <= Cardinality(Files)
    BY <1>1, FS_Subset, ApplicationAssumption
  <1>3. Cardinality(Files) \in Nat
    BY FS_CardinalityType, ApplicationAssumption
  <1> QED
    BY <1>2, <1>3, CountsAreNat DEF Count, Persisted, Counted

LEMMA SomeAreCounted ==
    ASSUME NEW S \in SUBSET Files
    PROVE  Cardinality(S) \in Counted
  <1>1. Cardinality(S) <= Cardinality(Files)
    BY FS_Subset, ApplicationAssumption
  <1>2. Cardinality(S) \in Nat /\ Cardinality(Files) \in Nat
    BY FilesAreFinite, FS_CardinalityType, ApplicationAssumption
  <1> QED
    BY <1>1, <1>2 DEF Counted

LEMMA FewAreCounted == 0 \in Counted /\ (Files # {} => 1 \in Counted)
  <1>1. 0 \in Counted
    <2>1. {} \in SUBSET Files /\ Cardinality({}) = 0
      BY FS_EmptySet
    <2> QED
      BY <2>1, SomeAreCounted
  <1>2. ASSUME NEW f \in Files PROVE 1 \in Counted
    <2>1. {f} \in SUBSET Files /\ Cardinality({f}) = 1
      BY FS_Singleton
    <2> QED
      BY <2>1, SomeAreCounted
  <1> QED
    BY <1>1, <1>2

LEMMA EndedCounted ==
    ASSUME NEW run \in RunRecords, run.found \in Counted, NEW fs, NEW status, NEW error, NEW warned
    PROVE  /\ Ended(run, fs, status, error, warned).found \in Counted
           /\ Ended(run, fs, status, error, warned).downloaded \in Counted
           /\ Ended(run, fs, status, error, warned).failed \in Counted
  BY CountsAreBounded DEF Ended, RunRecords

(* A step that changes no row of runs or files, and no entry. *)
LEMMA CountsStay ==
    ASSUME CountsInv, UNCHANGED <<runs, rows, panel>>,
           mutex' \in {"none", "resident", "cli"}, cli'.tries \in 0..MaxTries-1,
           \A k \in Jobs : job'[k].pc \in {"starting", "discovering"} =>
               job'[k].pc = job[k].pc /\ job'[k].run = job[k].run
    PROVE  CountsInv'
  BY DEF CountsInv, Persisted, With

(* Steps that change the rows of one run, while the others are listed. *)
LEMMA CountsOfOne ==
    ASSUME Typed, PanelInv, CountsInv, UNCHANGED <<mutex, cli>>,
           NEW own \in RunIds, NEW j \in Jobs,
           \A k \in Jobs \ {j} : job'[k] = job[k] /\ job[k].run # own,
           job'[j].run = own,
           \A s \in RunIds \ {own} : runs'[s] = runs[s] /\ rows'[s] = rows[s]
                                     /\ panel'[s] = panel[s],
           runs'[own].found \in Counted, runs'[own].downloaded \in Counted,
           runs'[own].failed \in Counted, panel'[own].total \in Counted,
           panel'[own].done \in Counted,
           job'[j].pc \in {"starting", "discovering"} =>
             runs'[own].found = Persisted(rows'[own])
    PROVE  CountsInv'
  <1>1. ASSUME NEW k \in Jobs, job'[k].pc \in {"starting", "discovering"}
        PROVE  runs'[job'[k].run].found = Persisted(rows'[job'[k].run])
    <2>1. CASE k = j
      BY <1>1, <2>1
    <2>2. CASE k # j
      <3>1. job[k].run \in RunIds \ {own} /\ job'[k] = job[k]
        BY <1>1, <2>2, OwnEntry
      <3> QED
        BY <1>1, <3>1 DEF CountsInv
    <2> QED
      BY <2>1, <2>2
  <1>2. Persisted(rows[job[j].run])' = Persisted(rows'[job'[j].run])
    BY DEF Persisted, With
  <1>3. \A k \in Jobs : Persisted(rows[job[k].run])' = Persisted(rows'[job'[k].run])
    BY DEF Persisted, With
  <1> QED
    BY <1>1, <1>3 DEF CountsInv

LEMMA InitCounts == Init => CountsInv
  <1> SUFFICES ASSUME Init PROVE CountsInv
    OBVIOUS
  <1>1. ASSUME NEW r \in RunIds
        PROVE  /\ runs[r].found \in Counted
               /\ runs[r].downloaded \in Counted /\ runs[r].failed \in Counted
    <2>1. CASE runs[r] = NoRun
      BY <2>1, FewAreCounted DEF NoRun
    <2>2. ASSUME NEW c \in Legacy, runs[r] = LegacyRun(c)
          PROVE  /\ runs[r].found \in Counted
                 /\ runs[r].downloaded \in Counted /\ runs[r].failed \in Counted
      <3>1. LegacyRun(c).found = 1 /\ LegacyRun(c).downloaded = 1 /\ LegacyRun(c).failed = 0
        BY DEF LegacyRun, NoRun
      <3> QED
        BY <2>2, <3>1, FewAreCounted, ApplicationAssumption
    <2> QED
      BY <2>1, <2>2 DEF Init
  <1>2. \A r \in RunIds : panel[r].total \in Counted /\ panel[r].done \in Counted
    BY FewAreCounted DEF Init, PanelInit, Absent
  <1>3. mutex = "none" /\ cli.tries = 0 /\ 0 \in 0..MaxTries-1
    BY ApplicationAssumption DEF Init
  <1>4. \A j \in Jobs : job[j].pc = "idle"
    BY DEF Init, Idle
  <1> QED
    BY <1>1, <1>2, <1>3, <1>4 DEF CountsInv

(* The listing, the queue and the end of a run, step by step. *)
LEMMA CountsBegin ==
    ASSUME Typed, PanelInv, CountsInv, NEW j \in Jobs, NEW r \in RunIds, NEW error,
           BeginRun(j, r) \/ FailPreflight(j, r, error)
    PROVE  CountsInv'
  <1> DEFINE failed == [RowFor(j) EXCEPT !.status = "failed", !.error = error]
             due == DueFor(r, failed)
  <1>1. /\ UNCHANGED <<mutex, cli, rows, panel>>
        /\ job[j].pc = "next" /\ runs[r] = NoRun
        /\ \E new \in {RowFor(j), failed} : runs' = [runs EXCEPT ![r] = new]
    BY DEF BeginRun, FailPreflight, Insert
  <1>2. \A new \in {RowFor(j), failed} : new.found = 0 /\ new.downloaded = 0 /\ new.failed = 0
    BY DEF RowFor, NoRun
  <1>3. /\ runs'[r].found = 0 /\ runs'[r].downloaded = 0 /\ runs'[r].failed = 0
        /\ \A s \in RunIds \ {r} : runs'[s] = runs[s]
    BY <1>1, <1>2 DEF Typed
  <1>4. \/ job' = [job EXCEPT ![j] = [job[j] EXCEPT !.pc = "starting", !.run = r,
                                        !.todo = Tail(@), !.warned = FALSE]]
        \/ job' = [job EXCEPT ![j] = [job[j] EXCEPT !.pc = "alerting", !.run = r,
                                        !.todo = Tail(@), !.due = due, !.raising = TRUE]]
    BY DEF BeginRun, FailPreflight
  <1> HIDE DEF failed, due
  <1>5. job'[j].run = r /\ \A k \in Jobs \ {j} : job'[k] = job[k]
    <2>1. CASE job' = [job EXCEPT ![j] = [job[j] EXCEPT !.pc = "starting", !.run = r,
                                        !.todo = Tail(@), !.warned = FALSE]]
      BY <2>1 DEF Typed, JobRecords
    <2>2. CASE job' = [job EXCEPT ![j] = [job[j] EXCEPT !.pc = "alerting", !.run = r,
                                        !.todo = Tail(@), !.due = due, !.raising = TRUE]]
      BY <2>2 DEF Typed, JobRecords
    <2> QED
      BY <1>4, <2>1, <2>2
  <1>6. \A k \in Jobs : job[k].run # r
    BY <1>1, ApplicationAssumption DEF PanelInv, JobFacts
  <1>7. panel'[r].total \in Counted /\ panel'[r].done \in Counted
    BY <1>1 DEF CountsInv
  <1>8. Persisted(rows'[r]) = 0
    <2>1. rows'[r] = NoRows
      BY <1>1 DEF PanelInv
    <2>2. Files \ With(NoRows, "none") = {}
      BY DEF With, NoRows
    <2> QED
      BY <2>1, <2>2, FS_EmptySet DEF Persisted
  <1> QED
    BY <1>1, <1>3, <1>5, <1>6, <1>7, <1>8, FewAreCounted, CountsOfOne

LEMMA CountsListed ==
    ASSUME Typed, PanelInv, CountsInv, NEW j \in Jobs,
           \/ \E batch \in SUBSET Files : AddBatch(j, batch)
           \/ \E found \in 0..Cardinality(Files) : EndListing(j, found)
    PROVE  CountsInv'
  <1> DEFINE own == job[j].run
  <1>1. job[j].pc = "discovering" /\ UNCHANGED <<mutex, cli>>
    BY DEF AddBatch, EndListing
  <1>2. /\ own \in RunIds /\ runs[own] \in RunRecords
        /\ rows[own] \in [Files -> RowStatuses]
        /\ \A k \in Jobs \ {j} : job[k].run # own
    BY <1>1, OwnEntry DEF Typed, PanelInv, PanelTyped
  <1>3. job'[j].run = own /\ \A k \in Jobs \ {j} : job'[k] = job[k]
    <2>1. PICK warned, pc :
             job' = [job EXCEPT ![j] = [job[j] EXCEPT !.warned = warned, !.pc = pc]]
      BY ListingJob
    <2> QED
      BY <2>1 DEF Typed, JobRecords
  <1>4. PICK found : runs' = [runs EXCEPT ![own] = [runs[own] EXCEPT !.found = found]]
    BY DEF AddBatch, EndListing
  <1>5. /\ runs'[own].found = found /\ runs'[own].downloaded \in Counted
        /\ runs'[own].failed \in Counted /\ \A s \in RunIds \ {own} : runs'[s] = runs[s]
    BY <1>2, <1>4 DEF Typed, RunRecords, CountsInv
  <1>6. ASSUME NEW batch \in SUBSET Files, AddBatch(j, batch)
        PROVE  CountsInv'
    <2> DEFINE fs == [f \in Files |-> IF f \notin batch THEN rows[own][f]
                                      ELSE IF f \in Forbidden THEN "failed" ELSE "pending"]
    <2>1. /\ rows' = [rows EXCEPT ![own] = fs] /\ panel' = panel
          /\ runs' = [runs EXCEPT ![own] =
                        [runs[own] EXCEPT !.found = runs[own].found + Cardinality(batch)]]
          /\ batch \subseteq With(rows[own], "none")
      BY <1>6 DEF AddBatch
    <2>2. Files \ With(fs, "none") = (Files \ With(rows[own], "none")) \cup batch
      BY <2>1 DEF With
    <2>3. batch \cap (Files \ With(rows[own], "none")) = {}
      BY <2>1
    <2> HIDE DEF fs
    <2>4. Persisted(fs) = Persisted(rows[own]) + Cardinality(batch)
      <3>1. /\ IsFiniteSet(batch) /\ Cardinality(batch) \in Nat
            /\ IsFiniteSet(Files \ With(rows[own], "none"))
        BY FilesAreFinite
      <3>2. (Files \ With(rows[own], "none")) \cap batch = {}
        BY <2>3
      <3>3. Cardinality((Files \ With(rows[own], "none")) \cup batch)
              = Cardinality(Files \ With(rows[own], "none")) + Cardinality(batch) - Cardinality({})
        BY <3>1, <3>2, FS_Union
      <3>4. /\ Cardinality(Files \ With(rows[own], "none")) \in Nat /\ Cardinality({}) = 0
            /\ Persisted(fs) = Cardinality((Files \ With(rows[own], "none")) \cup batch)
            /\ Persisted(rows[own]) = Cardinality(Files \ With(rows[own], "none"))
        BY <2>2, <3>1, FS_CardinalityType, FS_EmptySet DEF Persisted
      <3> QED
        BY <3>1, <3>3, <3>4
    <2>5. /\ rows'[own] = fs /\ \A s \in RunIds \ {own} : rows'[s] = rows[s]
          /\ runs'[own].found = Persisted(rows[own]) + Cardinality(batch)
      <3>1. runs'[own].found = runs[own].found + Cardinality(batch)
        BY <1>2, <2>1 DEF Typed, RunRecords
      <3>2. runs[own].found = Persisted(rows[own])
        BY <1>1 DEF CountsInv
      <3> QED
        BY <1>2, <2>1, <3>1, <3>2 DEF PanelInv, PanelTyped
    <2>6. runs'[own].found = Persisted(rows'[own]) /\ runs'[own].found \in Counted
      BY <2>4, <2>5, CountsAreBounded
    <2>7. panel'[own].total \in Counted /\ panel'[own].done \in Counted
      BY <1>2, <2>1 DEF CountsInv
    <2> HIDE DEF own
    <2> QED
      BY <1>1, <1>2, <1>3, <1>5, <2>1, <2>5, <2>6, <2>7, CountsOfOne
  <1>7. ASSUME NEW n \in 0..Cardinality(Files), EndListing(j, n)
        PROVE  CountsInv'
    <2> DEFINE total == Count(rows[own], "pending")
    <2>1. /\ runs' = [runs EXCEPT ![own] = [runs[own] EXCEPT !.found = n]]
          /\ job' = [job EXCEPT ![j] = [job[j] EXCEPT !.pc = "downloading"]]
          /\ rows' = rows /\ SetTotals(own, total)
      BY <1>7 DEF EndListing
    <2>2. runs'[own].found = n /\ job'[j].pc = "downloading" /\ n \in Counted
      BY <1>2, <2>1 DEF Typed, JobRecords, RunRecords, Counted
    <2>3. total \in Counted
      BY CountsAreBounded
    <2> HIDE DEF total
    <2>4. /\ panel'[own].total \in Counted /\ panel'[own].done \in Counted
          /\ \A s \in RunIds \ {own} : panel'[s] = panel[s]
      BY <1>2, <2>1, <2>3 DEF SetTotals, PanelInv, PanelTyped, CountsInv
    <2> HIDE DEF own
    <2> QED
      BY <1>1, <1>2, <1>3, <1>5, <2>1, <2>2, <2>4, CountsOfOne
  <1> QED
    BY <1>6, <1>7

LEMMA CountsFinished ==
    ASSUME Typed, PanelInv, CountsInv, NEW j \in Jobs,
           \/ \E f \in Files, result \in {"ok", "failed"} : WorkerDone(j, f, result)
           \/ RecordBatch(j)
    PROVE  CountsInv'
  <1> DEFINE own == job[j].run
  <1>1. job[j].pc = "downloading" /\ UNCHANGED <<mutex, cli, runs, job>>
    BY DEF WorkerDone, RecordBatch, dbVars
  <1>2. /\ own \in RunIds /\ \A k \in Jobs \ {j} : job[k].run # own
        /\ panel[own] \in [phase: {"absent", "discovering", "downloading"},
                           total: Nat, done: Nat, files: SUBSET Files]
    BY <1>1, OwnEntry DEF PanelInv, PanelTyped
  <1>3. \A s \in RunIds \ {own} : rows'[s] = rows[s] /\ panel'[s] = panel[s]
    BY <1>2 DEF WorkerDone, RecordBatch, FinishFile, PanelInv, PanelTyped, dbVars
  <1>4. /\ panel'[own].total \in Counted /\ panel'[own].done \in Counted
    <2>1. panel[own].total \in Counted /\ panel[own].done \in Counted
      BY <1>2 DEF CountsInv
    <2>3. ASSUME NEW f \in Files, FinishFile(own, f)
          PROVE  panel'[own].total \in Counted /\ panel'[own].done \in Counted
      <3>1. CASE f \in panel[own].files
        <4>1. /\ panel[own].files = InHand(j)
              /\ panel[own].total = panel[own].done + Cardinality(InHand(j))
                                    + Count(rows[own], "pending")
          BY <1>1 DEF PanelInv, JobFacts
        <4>2. Cardinality(InHand(j)) \in Nat /\ Cardinality(InHand(j)) # 0
          <5>1. InHand(j) \subseteq Files /\ InHand(j) # {}
            BY <3>1, <4>1 DEF InHand, With
          <5> QED
            BY <5>1, FilesAreFinite, FS_EmptySet
        <4>3. panel[own].done + 1 <= panel[own].total
          BY <1>2, <4>1, <4>2, CountsAreNat
        <4>4. panel[own].done + 1 \in Counted
          <5>1. Cardinality(Files) \in Nat /\ panel[own].done \in Nat /\ panel[own].total \in Nat
                /\ panel[own].total <= Cardinality(Files)
            BY <1>2, <2>1, FS_CardinalityType, ApplicationAssumption DEF Counted
          <5> HIDE DEF own
          <5> QED
            BY <4>3, <5>1 DEF Counted
        <4>5. panel' = panel \/ (/\ panel'[own].total = panel[own].total
                                 /\ panel'[own].done = panel[own].done + 1)
          BY <1>2, <2>3 DEF FinishFile, PanelInv, PanelTyped
        <4> QED
          BY <2>1, <4>4, <4>5
      <3>2. CASE f \notin panel[own].files
        BY <2>1, <2>3, <3>2 DEF FinishFile
      <3> QED
        BY <3>1, <3>2
    <2> HIDE DEF own
    <2>5. CASE \E f \in Files : FinishFile(own, f)
      BY <2>3, <2>5
    <2>6. CASE panel' = panel
      BY <2>1, <2>6
    <2> QED
      BY <2>5, <2>6 DEF WorkerDone, RecordBatch, own
  <1>5. /\ runs'[own].found \in Counted /\ runs'[own].downloaded \in Counted
        /\ runs'[own].failed \in Counted
    BY <1>1, <1>2 DEF CountsInv
  <1> HIDE DEF own
  <1>6. own = job[j].run
    BY DEF own
  <1> QED
    BY <1>1, <1>2, <1>3, <1>4, <1>5, <1>6, CountsOfOne

LEMMA CountsQueued ==
    ASSUME Typed, PanelInv, CountsInv, NEW j \in Jobs,
           \/ PcStep(j)
           \/ \E f \in Files, result \in {"ok", "failed"} : WorkerDone(j, f, result)
           \/ RecordBatch(j)
    PROVE  CountsInv'
  <1> DEFINE own == job[j].run
  <1>p. CASE PcStep(j)
    <2>1. Executing(j) /\ UNCHANGED <<mutex, cli, runs>>
      BY <1>p, PcMoves
    <2>2. /\ own \in RunIds /\ \A k \in Jobs \ {j} : job[k].run # own
          /\ job'[j].run = own /\ \A k \in Jobs \ {j} : job'[k] = job[k]
      BY <1>p, <2>1, PcMoves, OwnEntry DEF Executing
    <2>3. \/ rows' = rows
          \/ \E fs : rows' = [rows EXCEPT ![own] = fs] /\ job'[j].pc = "estimating"
      <3>1. CASE \E batch \in SUBSET Files : ClaimBatch(j, batch)
        <4>1. job' = [job EXCEPT ![j] = [job[j] EXCEPT !.pc = "estimating"]]
          BY <3>1 DEF ClaimBatch
        <4>2. job'[j].pc = "estimating"
          BY <4>1 DEF Typed, JobRecords
        <4> QED
          BY <3>1, <4>2 DEF ClaimBatch
      <3>2. CASE OpenRun(j) \/ ShowBatch(j)
        BY <3>2 DEF OpenRun, ShowBatch, dbVars
      <3> QED
        BY <1>p, <3>1, <3>2 DEF PcStep
    <2>4. /\ panel'[own].total \in Counted /\ panel'[own].done \in Counted
          /\ \A s \in RunIds \ {own} : panel'[s] = panel[s]
      <3>1. CASE OpenRun(j)
        <4> DEFINE entry == [Absent EXCEPT !.phase = "discovering"]
        <4>1. entry.total = 0 /\ entry.done = 0
          BY DEF Absent
        <4>2. panel' = [panel EXCEPT ![own] = entry]
          BY <3>1 DEF OpenRun, StartEntry
        <4> HIDE DEF entry
        <4>3. panel'[own] = entry /\ \A s \in RunIds \ {own} : panel'[s] = panel[s]
          BY <2>2, <4>2 DEF PanelInv, PanelTyped
        <4> QED
          BY <4>1, <4>3, FewAreCounted
      <3>2. CASE ShowBatch(j)
        <4>1. PICK batch : AddFiles(own, batch)
          BY <3>2 DEF ShowBatch
        <4>2. panel[own].total \in Counted /\ panel[own].done \in Counted
          BY <2>2 DEF CountsInv
        <4> QED
          BY <2>2, <4>1, <4>2 DEF AddFiles, PanelInv, PanelTyped
      <3>3. CASE \E batch \in SUBSET Files : ClaimBatch(j, batch)
        BY <2>2, <3>3 DEF ClaimBatch, CountsInv
      <3> QED
        BY <1>p, <3>1, <3>2, <3>3 DEF PcStep
    <2>5. \A s \in RunIds \ {own} : rows'[s] = rows[s]
      BY <2>2, <2>3 DEF PanelInv, PanelTyped
    <2>6. /\ runs'[own].found \in Counted /\ runs'[own].downloaded \in Counted
          /\ runs'[own].failed \in Counted
      BY <2>1, <2>2 DEF CountsInv
    <2>7. ASSUME job'[j].pc \in {"starting", "discovering"}
          PROVE  runs'[own].found = Persisted(rows'[own])
      <3>1. OpenRun(j)
        <4>1. CASE ShowBatch(j)
          <5>1. job' = [job EXCEPT ![j] = [job[j] EXCEPT !.pc = "downloading"]]
            BY <4>1 DEF ShowBatch
          <5>2. job'[j].pc = "downloading"
            BY <5>1 DEF Typed, JobRecords
          <5> QED
            BY <2>7, <5>2
        <4>2. CASE \E batch \in SUBSET Files : ClaimBatch(j, batch)
          <5>1. job' = [job EXCEPT ![j] = [job[j] EXCEPT !.pc = "estimating"]]
            BY <4>2 DEF ClaimBatch
          <5>2. job'[j].pc = "estimating"
            BY <5>1 DEF Typed, JobRecords
          <5> QED
            BY <2>7, <5>2
        <4> QED
          BY <1>p, <4>1, <4>2 DEF PcStep
      <3>2. job[j].pc = "starting" /\ UNCHANGED <<runs, rows>>
        BY <3>1 DEF OpenRun, dbVars
      <3> QED
        BY <3>2 DEF CountsInv
    <2> HIDE DEF own
    <2> QED
      BY <2>1, <2>2, <2>4, <2>5, <2>6, <2>7, CountsOfOne
  <1>q. CASE \/ \E f \in Files, result \in {"ok", "failed"} : WorkerDone(j, f, result)
             \/ RecordBatch(j)
    BY <1>q, CountsFinished
  <1> QED
    BY <1>p, <1>q

LEMMA CountsEnd ==
    ASSUME Typed, PanelInv, CountsInv, NEW j \in Jobs, NEW error \in Errors,
           Verdict(j) \/ OpenCircuit(j, error) \/ Fail(j, error)
    PROVE  CountsInv'
  <1>1. Executing(j) /\ UNCHANGED <<mutex, cli, panel>>
    BY EndsTyped DEF Verdict, OpenCircuit, Fail, EndRun
  <1>2. PICK fs : \E status \in Terminal, err \in Errors, raising \in BOOLEAN :
                     EndRun(j, fs, status, err, raising)
    BY EndsTyped
  <1>3. PICK status \in Terminal, err \in Errors, raising \in BOOLEAN :
                     EndRun(j, fs, status, err, raising)
    BY <1>2
  <1> DEFINE own == job[j].run
             new == Ended(runs[own], fs, status, err, job[j].warned)
             due == DueFor(own, new)
  <1>4. /\ own \in RunIds /\ runs[own] \in RunRecords /\ runs[own].found \in Counted
        /\ panel[own].total \in Counted /\ panel[own].done \in Counted
        /\ \A k \in Jobs \ {j} : job[k].run # own
    BY <1>1, OwnEntry DEF CountsInv, Typed, Executing
  <1>5. /\ runs' = [runs EXCEPT ![own] = new] /\ rows' = [rows EXCEPT ![own] = fs]
        /\ job' = [job EXCEPT ![j] = [job[j] EXCEPT !.pc = "alerting", !.raising = raising,
                                                    !.due = due]]
    BY <1>3 DEF EndRun
  <1>6. new.found \in Counted /\ new.downloaded \in Counted /\ new.failed \in Counted
    BY <1>4, EndedCounted
  <1> HIDE DEF new, due
  <1>7. /\ runs'[own] = new
        /\ \A s \in RunIds \ {own} : runs'[s] = runs[s] /\ rows'[s] = rows[s]
    BY <1>4, <1>5 DEF Typed, PanelInv, PanelTyped
  <1>8. /\ job'[j].run = own /\ job'[j].pc = "alerting"
        /\ \A k \in Jobs \ {j} : job'[k] = job[k]
    BY <1>5 DEF Typed, JobRecords
  <1> HIDE DEF own
  <1> QED
    BY <1>1, <1>4, <1>6, <1>7, <1>8, CountsOfOne

LEMMA CountsStep == Exclusion /\ PanelInv /\ CountsInv /\ [Next]_vars => CountsInv'
  <1> SUFFICES ASSUME Exclusion, PanelInv, CountsInv, [Next]_vars PROVE CountsInv'
    OBVIOUS
  <1>t. Typed /\ \A k \in Jobs : job[k] \in JobRecords
    BY DEF Exclusion, Typed
  <1>g. 0 \in 0..MaxTries-1 /\ \A code : Gone(code).tries = 0
    BY ApplicationAssumption DEF Gone
  <1>m. mutex \in {"none", "resident", "cli"} /\ cli.tries \in 0..MaxTries-1
    BY DEF CountsInv
  <1>1. CASE ResidentStart \/ Exit \/ Exited \/ UNCHANGED vars
    BY <1>1, <1>m, CountsStay
    DEF ResidentStart, Exit, Exited, vars, dbVars, jobVars
  <1>2. ASSUME NEW order \in Orders, OrderDirect(order) \/ OrderDelegated(order)
        PROVE  CountsInv'
    <2>1. cli'.tries = cli.tries
      BY <1>t, <1>2 DEF OrderDirect, OrderDelegated, Typed, CliRecords
    <2> QED
      BY <1>2, <1>m, <2>1, CountsStay DEF OrderDirect, OrderDelegated, dbVars, jobVars
  <1>3. CASE PostRefused \/ Timeout
    <2>1. cli'.tries \in 0..MaxTries-1
      <3>1. CASE cli' = Gone("one")
        BY <1>g, <3>1
      <3>2. CASE cli.tries + 1 # MaxTries /\ cli' = [cli EXCEPT !.tries = cli.tries + 1]
        <4>1. cli'.tries = cli.tries + 1
          BY <1>t, <3>2 DEF Typed, CliRecords
        <4> QED
          BY <1>m, <3>2, <4>1, ApplicationAssumption
      <3> QED
        BY <1>3, <3>1, <3>2 DEF PostRefused, Timeout, GiveUp
    <2> QED
      BY <1>3, <1>m, <2>1, CountsStay DEF PostRefused, Timeout, dbVars, jobVars
  <1>4. CASE ResidentOpen \/ (\E j \in Jobs : OpenCli(j))
    <2>1. Recover /\ UNCHANGED <<mutex, panel>> /\ cli'.tries = cli.tries
      BY <1>t, <1>4 DEF ResidentOpen, OpenCli, jobVars, Typed, CliRecords
    <2>2. \A k \in Jobs : job'[k].pc \notin {"starting", "discovering"}
      <3>1. \A k \in Jobs : job[k].pc = "idle"
        BY <1>4 DEF ResidentOpen, OpenCli, Exclusion, Processed, Owner, Hands
      <3>2. \A k \in Jobs : job'[k] = job[k] \/ job'[k].pc = "next"
        BY <1>t, <1>4 DEF ResidentOpen, OpenCli, jobVars, NewJob, Idle, Typed
      <3> QED
        BY <3>1, <3>2
    <2>3. ASSUME NEW s \in RunIds
          PROVE  /\ runs'[s].found \in Counted /\ runs'[s].downloaded \in Counted
                 /\ runs'[s].failed \in Counted
      <3>1. /\ runs[s] \in RunRecords /\ runs[s].found \in Counted
            /\ runs[s].downloaded \in Counted /\ runs[s].failed \in Counted
        BY <1>t DEF Typed, CountsInv
      <3>2. CASE runs[s].status = "running"
        <4>1. runs'[s] = Ended(runs[s], rows'[s], "failed", "interrupted", runs[s].warned)
          BY <2>1, <3>2 DEF Recover
        <4> QED
          BY <3>1, <4>1, EndedCounted
      <3>3. CASE runs[s].status # "running"
        BY <2>1, <3>1, <3>3 DEF Recover
      <3> QED
        BY <3>2, <3>3
    <2> QED
      BY <1>m, <2>1, <2>2, <2>3 DEF CountsInv
  <1>5. CASE CrashResident \/ CrashCli
    <2>1. PICK p : Die(p)
      BY <1>5 DEF CrashResident, CrashCli
    <2>2. /\ UNCHANGED <<runs, rows>> /\ mutex' \in {"none", mutex}
          /\ cli' = cli \/ cli' = Gone("one")
      BY <1>5 DEF CrashResident, CrashCli, dbVars
    <2>3. /\ \A k \in Jobs : job'[k] = job[k] \/ job'[k] = Idle
          /\ \A s \in RunIds : panel'[s] = panel[s] \/ panel'[s] = Absent
      BY <2>1 DEF Die
    <2>4. \A s \in RunIds : panel'[s].total \in Counted /\ panel'[s].done \in Counted
      BY <2>3, FewAreCounted DEF CountsInv, Absent
    <2>5. \A k \in Jobs : job'[k].pc \in {"starting", "discovering"} =>
             runs[job'[k].run].found = Persisted(rows[job'[k].run])
      BY <2>3 DEF CountsInv, Idle
    <2>6. \A k \in Jobs : Persisted(rows[job[k].run])' = Persisted(rows[job'[k].run])
      BY <2>2 DEF Persisted, With
    <2> QED
      BY <1>g, <1>m, <2>2, <2>4, <2>5, <2>6 DEF CountsInv
  <1>6. ASSUME NEW j \in Jobs, Post(j) \/ (\E c \in Conns : SchedulerJob(j, c))
        PROVE  CountsInv'
    <2>1. UNCHANGED <<mutex, runs, rows, panel>>
      BY <1>6 DEF Post, SchedulerJob, dbVars
    <2>2. cli'.tries \in 0..MaxTries-1
      BY <1>t, <1>g, <1>m, <1>6 DEF Post, SchedulerJob, Typed, CliRecords
    <2>3. job'[j].pc = "next" /\ \A k \in Jobs \ {j} : job'[k] = job[k]
      BY <1>t, <1>6 DEF Post, SchedulerJob, NewJob, Idle, Typed
    <2> QED
      BY <1>m, <2>1, <2>2, <2>3, CountsStay
  <1>7. ASSUME NEW j \in Jobs, RefuseRun(j) \/ CloseRun(j)
        PROVE  CountsInv'
    <2>1. /\ UNCHANGED <<runs, rows>> /\ mutex' \in {"none", mutex}
          /\ cli' = cli \/ cli' = Gone("one") \/ cli' = Gone("zero")
          /\ panel' = panel \/ panel' = [panel EXCEPT ![job[j].run] = Absent]
      BY <1>7 DEF RefuseRun, CloseRun, Raise, Over, RemoveEntry, dbVars
    <2>2. \/ job' = [job EXCEPT ![j] = Idle]
          \/ job' = [job EXCEPT ![j] = [job[j] EXCEPT !.pc = "next", !.run = 0]]
      BY <1>7 DEF RefuseRun, CloseRun, Raise, Over
    <2>3. /\ job'[j].pc \notin {"starting", "discovering"}
          /\ \A k \in Jobs \ {j} : job'[k] = job[k]
      <3>1. CASE job' = [job EXCEPT ![j] = Idle]
        <4>1. job'[j] = Idle
          BY <1>t, <3>1 DEF Typed
        <4> QED
          BY <1>t, <3>1, <4>1 DEF Typed, Idle
      <3>2. CASE job' = [job EXCEPT ![j] = [job[j] EXCEPT !.pc = "next", !.run = 0]]
        <4>1. job'[j] = [job[j] EXCEPT !.pc = "next", !.run = 0] /\ job[j] \in JobRecords
          BY <1>t, <3>2 DEF Typed
        <4>2. job'[j].pc = "next"
          BY <4>1 DEF JobRecords
        <4> QED
          BY <1>t, <3>2, <4>2 DEF Typed
      <3> QED
        BY <2>2, <3>1, <3>2
    <2>4. \A s \in RunIds : panel'[s].total \in Counted /\ panel'[s].done \in Counted
      BY <2>1, FewAreCounted DEF CountsInv, Absent, PanelInv, PanelTyped
    <2>5. \A k \in Jobs : job'[k].pc \in {"starting", "discovering"} =>
             runs[job'[k].run].found = Persisted(rows[job'[k].run])
      BY <2>3 DEF CountsInv
    <2>6. \A k \in Jobs : Persisted(rows[job[k].run])' = Persisted(rows[job'[k].run])
      BY <2>1 DEF Persisted, With
    <2> QED
      BY <1>g, <1>m, <2>1, <2>4, <2>5, <2>6 DEF CountsInv
  <1>8. ASSUME NEW j \in Jobs, NEW r \in RunIds, NEW error,
               BeginRun(j, r) \/ FailPreflight(j, r, error)
        PROVE  CountsInv'
    BY <1>t, <1>8, CountsBegin
  <1>9. ASSUME NEW j \in Jobs,
               \/ \E batch \in SUBSET Files : AddBatch(j, batch)
               \/ \E found \in 0..Cardinality(Files) : EndListing(j, found)
        PROVE  CountsInv'
    BY <1>t, <1>9, CountsListed
  <1>10. ASSUME NEW j \in Jobs,
                \/ PcStep(j)
                \/ \E f \in Files, result \in {"ok", "failed"} : WorkerDone(j, f, result)
                \/ RecordBatch(j)
         PROVE  CountsInv'
    BY <1>t, <1>10, CountsQueued
  <1>11. ASSUME NEW j \in Jobs, NEW error \in Errors,
                Verdict(j) \/ OpenCircuit(j, error) \/ Fail(j, error)
         PROVE  CountsInv'
    BY <1>t, <1>11, CountsEnd
  <1>12. ASSUME NEW j \in Jobs, TakeAlert(j) \/ Send(j)
         PROVE  CountsInv'
    <2>1. UNCHANGED <<mutex, cli, runs, rows, panel>>
      BY <1>12 DEF TakeAlert, Send
    <2>2. \A k \in Jobs : job'[k].pc = job[k].pc /\ job'[k].run = job[k].run
      BY <1>t, <1>12, AlertKeepsJob
    <2> QED
      BY <1>m, <2>1, <2>2, CountsStay
  <1>13. "none" \in Errors /\ Faults \subseteq Errors
    BY ApplicationAssumption DEF Errors
  <1> QED
    BY <1>1, <1>2, <1>3, <1>4, <1>5, <1>6, <1>7, <1>8, <1>9, <1>10, <1>11, <1>12, <1>13
    DEF Next, Processes, CommandLine, JobStep, PcStep

(* Every variable keeps to its type: the counts of a run and of its entry in the
   panel never exceed the files there are, the attempts of the command line stay
   below their limit, and the log has one row for each alert. *)
THEOREM TypesHold == ~Overlap /\ Spec => []TypeOK
  <1>1. Init => CountsInv
    BY InitCounts
  <1>2. Exclusion /\ PanelInv /\ CountsInv /\ [Next]_vars => CountsInv'
    BY CountsStep
  <1>3. Exclusion /\ PanelInv /\ AlertsInv /\ OrderInv /\ CountsInv => TypeOK
    <2> SUFFICES ASSUME Exclusion, PanelInv, AlertsInv, OrderInv, CountsInv PROVE TypeOK
      OBVIOUS
    <2>1. mutex \in {"none", "resident", "cli"}
          /\ resident \in {"off", "opening", "serving", "exiting"}
      BY DEF CountsInv, Exclusion, Processed, Owner
    <2>2. cli \in [pc: {"off", "opening", "direct", "posting", "waiting", "done"},
                   asked: Orders \cup {<<>>}, tries: 0..MaxTries-1,
                   code: {"none", "zero", "one"}]
      BY DEF Exclusion, Typed, CliRecords, OrderInv, CountsInv
    <2>3. runs \in [RunIds ->
                     [conn: Conns \cup {"none"}, trigger: {"none", "schedule", "cli"},
                      status: {"absent", "running"} \cup Terminal,
                      found: 0..Cardinality(Files), downloaded: 0..Cardinality(Files),
                      failed: 0..Cardinality(Files), error: Errors, warned: BOOLEAN]]
      BY DEF Exclusion, Typed, RunRecords, CountsInv, Counted
    <2>4. PanelTypeOK
      BY DEF PanelInv, PanelTyped, PanelTypeOK, CountsInv, Counted
    <2>5. dead \subseteq RunIds /\ AlertsTypeOK(RunIds)
      BY DEF AlertsInv, InHands
    <2>6. /\ rows \in [RunIds -> [Files -> {"none", "pending", "downloading", "ok", "failed"}]]
          /\ outcome \in [Jobs -> [Files -> {"none", "ok", "failed"}]]
      BY DEF PanelInv, PanelTyped, RowStatuses
    <2>7. job \in [Jobs -> JobRecords]
      BY DEF Exclusion, Typed
    <2> QED
      BY <2>1, <2>2, <2>3, <2>4, <2>5, <2>6, <2>7 DEF TypeOK, JobRecords
  <1> QED
    BY <1>1, <1>2, <1>3, AlertsInvariant, OrderInvariant, PTL DEF Spec

=============================================================================
