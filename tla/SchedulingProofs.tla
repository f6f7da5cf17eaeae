-------------------------- MODULE SchedulingProofs --------------------------
(***************************************************************************)
(* Theorems about Scheduling for any connections, settings and bounds:     *)
(* types, the windows that automatic runs do not repeat, and the chain of  *)
(* since_last_run windows, which leaves no file behind as long as the      *)
(* overlap covers the quiet period and the jitter.                         *)
(***************************************************************************)
EXTENDS Scheduling, TLAPS

(* Days are cut at midnight. *)
LEMMA MidnightBounds ==
    ASSUME NEW t \in Int
    PROVE  Midnight(t) \in Int /\ Midnight(t) <= t /\ t < Midnight(t) + Day
  BY ConstantsAssumption DEF Midnight

(* A job stands for a time that is at most the jitter ahead. *)
LEMMA NominalNotFarAhead ==
    ASSUME NEW t \in Int
    PROVE  NominalTime(t) \in Int /\ NominalTime(t) <= t + Jitter
  BY ConstantsAssumption, MidnightBounds DEF NominalTime

(* Some daily time is the first whose trigger is not past. *)
LEMMA NextNominalFound ==
    ASSUME NEW t \in Int
    PROVE  \E k \in 0..2 : NextNominal(t) = Midnight(t) + At + k * Day
  <1> DEFINE Later(n) == n - Jitter >= t /\ n - Jitter < t + Day
             Times == {Midnight(t) + At + k * Day : k \in 0..2}
  <1>1. /\ Midnight(t) \in Int /\ Midnight(t) <= t /\ t < Midnight(t) + Day
        /\ At \in Int /\ 0 <= At /\ At < Day /\ Day \in Int
        /\ Jitter \in Int /\ 0 <= Jitter /\ 2 * Jitter < Day
    BY ConstantsAssumption, JitterAssumption, MidnightBounds
  <1>2. /\ Midnight(t) + At + 0 * Day \in Times
        /\ Midnight(t) + At + 1 * Day \in Times
        /\ Midnight(t) + At + 2 * Day \in Times
    OBVIOUS
  <1>3. \E n \in Times : Later(n)
    <2>1. CASE Midnight(t) + At - Jitter >= t
      <3>1. Later(Midnight(t) + At + 0 * Day)
        BY <1>1, <2>1
      <3> QED
        BY <1>2, <3>1
    <2>2. CASE Midnight(t) + At - Jitter < t /\ Midnight(t) + At + Day - Jitter >= t
      <3>1. Later(Midnight(t) + At + 1 * Day)
        BY <1>1, <2>2
      <3> QED
        BY <1>2, <3>1
    <2>3. CASE Midnight(t) + At + Day - Jitter < t
      <3>1. Later(Midnight(t) + At + 2 * Day)
        BY <1>1, <2>3
      <3> QED
        BY <1>2, <3>1
    <2> QED
      BY <1>1, <2>1, <2>2, <2>3
  <1>4. NextNominal(t) \in Times
    BY <1>3 DEF NextNominal
  <1> QED
    BY <1>4

LEMMA NextNominalTyped ==
    ASSUME NEW t \in Int
    PROVE  NextNominal(t) \in Int
  <1>1. PICK k \in 0..2 : NextNominal(t) = Midnight(t) + At + k * Day
    BY NextNominalFound
  <1>2. k * Day \in Int /\ Midnight(t) \in Int /\ At \in Int
    BY ConstantsAssumption, MidnightBounds
  <1> QED
    BY <1>1, <1>2
-----------------------------------------------------------------------------
(* The history of a connection has a first start and a last end. *)
Bounded(S) ==
    S # {} => /\ \E w \in S : \A v \in S : v.end <= w.end
              /\ \E w \in S : \A v \in S : w.start <= v.start

Typed == TypeOK /\ \A c \in Conns : Bounded(ok[c])

(* The choice that LastEnd and FirstStart make in it. *)
LastOf(S)  == CHOOSE e \in {w.end : w \in S} : \A w \in S : w.end <= e
FirstOf(S) == CHOOSE s \in {w.start : w \in S} : \A w \in S : s <= w.start

LEMMA LastOfIs ==
    ASSUME NEW S, S \subseteq Windows, S # {}, Bounded(S)
    PROVE  /\ LastOf(S) \in Int
           /\ \E w \in S : LastOf(S) = w.end
           /\ \A w \in S : w.end <= LastOf(S)
  <1>1. PICK w \in S : \A v \in S : v.end <= w.end
    BY DEF Bounded
  <1>2. \E e \in {v.end : v \in S} : \A v \in S : v.end <= e
    BY <1>1
  <1>3. LastOf(S) \in {v.end : v \in S} /\ \A v \in S : v.end <= LastOf(S)
    BY <1>2 DEF LastOf
  <1> QED
    BY <1>3 DEF Windows

LEMMA FirstOfIs ==
    ASSUME NEW S, S \subseteq Windows, S # {}, Bounded(S)
    PROVE  /\ FirstOf(S) \in Int
           /\ \E w \in S : FirstOf(S) = w.start
           /\ \A w \in S : FirstOf(S) <= w.start
  <1>1. PICK w \in S : \A v \in S : w.start <= v.start
    BY DEF Bounded
  <1>2. \E s \in {v.start : v \in S} : \A v \in S : s <= v.start
    BY <1>1
  <1>3. FirstOf(S) \in {v.start : v \in S} /\ \A v \in S : FirstOf(S) <= v.start
    BY <1>2 DEF FirstOf
  <1> QED
    BY <1>3 DEF Windows

(* One more window keeps a history bounded. *)
LEMMA BoundedGrows ==
    ASSUME NEW S, S \subseteq Windows, Bounded(S), NEW w \in Windows
    PROVE  Bounded(S \cup {w})
  <1>1. CASE S = {}
    BY <1>1 DEF Bounded, Windows
  <1>2. CASE S # {}
    <2>1. PICK last \in S : \A v \in S : v.end <= last.end
      BY <1>2 DEF Bounded
    <2>2. PICK first \in S : \A v \in S : first.start <= v.start
      BY <1>2 DEF Bounded
    <2>3. \E e \in S \cup {w} : \A v \in S \cup {w} : v.end <= e.end
      <3>1. CASE w.end <= last.end
        BY <2>1, <3>1
      <3>2. CASE ~(w.end <= last.end)
        BY <2>1, <3>2 DEF Windows
      <3> QED
        BY <3>1, <3>2
    <2>4. \E e \in S \cup {w} : \A v \in S \cup {w} : e.start <= v.start
      <3>1. CASE first.start <= w.start
        BY <2>2, <3>1
      <3>2. CASE ~(first.start <= w.start)
        BY <2>2, <3>2 DEF Windows
      <3> QED
        BY <3>1, <3>2
    <2> QED
      BY <2>3, <2>4 DEF Bounded
  <1> QED
    BY <1>1, <1>2

LEMMA WindowTyped ==
    ASSUME Typed, NEW c \in Conns, NEW reference \in Int
    PROVE  CalculateWindow(c, reference) \in Windows
  <1>1. ok[c] \subseteq Windows /\ Bounded(ok[c])
    BY DEF Typed, TypeOK
  <1>2. ok[c] # {} => LastEnd(c) \in Int
    BY <1>1, LastOfIs DEF LastEnd, LastOf
  <1>3. /\ Midnight(reference) \in Int
        /\ Day \in Int /\ Hours \in Int /\ Overlap \in Int
    BY ConstantsAssumption, MidnightBounds
  <1> QED
    BY <1>2, <1>3 DEF CalculateWindow, Windows

(* What a request does to the run of its connection. *)
LEMMA RequestStarts ==
    ASSUME Typed, NEW c \in Conns, NEW reference \in Int, NEW auto \in BOOLEAN,
           Request(c, reference, auto)
    PROVE  \/ UNCHANGED run
           \/ /\ run[c] = Idle
              /\ auto /\ c \notin FullScan => CalculateWindow(c, reference) \notin ok[c]
              /\ run' = [run EXCEPT ![c] =
                           [stage |-> "started", window |-> CalculateWindow(c, reference),
                            started |-> now, auto |-> auto, file |-> "ignored"]]
  BY DEF Request, Execute, HasSuccessfulWindow

LEMMA RequestTyped ==
    ASSUME Typed, NEW c \in Conns, NEW reference \in Int, NEW auto \in BOOLEAN,
           Request(c, reference, auto)
    PROVE  run' \in [Conns -> Runs]
  <1>1. now \in Nat /\ run \in [Conns -> Runs]
    BY DEF Typed, TypeOK
  <1>2. CalculateWindow(c, reference) \in Windows
    BY WindowTyped
  <1>3. [stage |-> "started", window |-> CalculateWindow(c, reference),
         started |-> now, auto |-> auto, file |-> "ignored"] \in Runs
    BY <1>1, <1>2 DEF Runs
  <1> QED
    BY <1>1, <1>3, RequestStarts

(* What a catch-up reads. *)
LEMMA ScheduledAreTimes ==
    ASSUME now \in Int, NEW c \in Conns
    PROVE  /\ Scheduled(c) \subseteq Int
           /\ \A s \in Scheduled(c) : s <= now
  <1>1. ScheduledTimes \subseteq Int /\ \A s \in ScheduledTimes : s <= now
    BY ConstantsAssumption, MidnightBounds DEF ScheduledTimes
  <1>2. Scheduled(c) \subseteq ScheduledTimes
    BY DEF Scheduled
  <1> QED
    BY <1>1, <1>2

LEMMA CandidatesAreTimes ==
    ASSUME now \in Int
    PROVE  /\ Candidates \subseteq Conns \X Int
           /\ \A candidate \in Candidates : candidate[2] <= now
  <1>1. ASSUME NEW candidate \in Candidates
        PROVE  candidate \in Conns \X Int /\ candidate[2] <= now
    <2>1. PICK c \in Conns : candidate \in {c} \X Missing(c)
      BY DEF Candidates
    <2>2. candidate[1] = c /\ candidate[2] \in Scheduled(c) /\ candidate = <<candidate[1], candidate[2]>>
      BY <2>1 DEF Missing, HasSuccessfulWindow
    <2> QED
      BY <2>2, ScheduledAreTimes
  <1> QED
    BY <1>1

-----------------------------------------------------------------------------
(* Types, with the bounds of each history. *)
LEMMA InitTyped == Init => Typed
  <1> SUFFICES ASSUME Init PROVE Typed
    OBVIOUS
  <1>1. now \in 0..MaxTime /\ now \in Int
    BY ConstantsAssumption DEF Init
  <1>2. NextNominal(now) \in Int
    BY <1>1, NextNominalTyped
  <1>3. \A c \in Conns : Bounded(ok[c])
    BY DEF Init, Bounded
  <1>4. phase \in [Planners -> {"idle", "plan", "execute"}]
    BY DEF Init, AtStart
  <1>5. run \in [Conns -> Runs]
    BY DEF Init, Runs
  <1> QED
    BY <1>1, <1>2, <1>3, <1>4, <1>5, ConstantsAssumption DEF Init, Typed, TypeOK

LEMMA TypedStep == Typed /\ [Next]_vars => Typed'
  <1> SUFFICES ASSUME Typed, [Next]_vars PROVE Typed'
    OBVIOUS
  <1>t. TypeOK /\ \A c \in Conns : Bounded(ok[c])
    BY DEF Typed
  <1>n. now \in Int /\ now \in Nat
    BY <1>t DEF TypeOK
  <1>r. ASSUME run' \in [Conns -> Runs],
               UNCHANGED <<now, up, ok, mtime, taken, phase, owed>>,
               next' \in [Conns -> Int],
               pending' \in [Planners -> SUBSET (Conns \X Int)],
               awaiting' \in [Planners -> Conns \cup {NoConn}]
        PROVE  Typed'
    BY <1>t, <1>r DEF Typed, TypeOK
  <1>1. ASSUME NEW c \in Conns, RunManually(c)
        PROVE  Typed'
    <2>1. run' \in [Conns -> Runs]
      BY <1>1, <1>n, RequestTyped DEF RunManually
    <2> QED
      BY <1>1, <1>r, <1>t, <2>1 DEF RunManually, TypeOK
  <1>2. ASSUME NEW c \in Conns, NEW day \in 1..(MaxTime \div Day), RunDate(c, day)
        PROVE  Typed'
    <2>1. DateWindow(day) \in Windows
      BY ConstantsAssumption DEF DateWindow, Windows
    <2>2. run' \in [Conns -> Runs]
      <3>1. [stage |-> "started", window |-> DateWindow(day), started |-> now,
             auto |-> FALSE, file |-> "ignored"] \in Runs
        BY <1>n, <2>1 DEF Runs
      <3> QED
        BY <1>2, <1>t, <3>1 DEF RunDate, Execute, HasSuccessfulWindow, TypeOK
    <2> QED
      BY <1>2, <1>r, <1>t, <2>2 DEF RunDate, TypeOK
  <1>3. ASSUME NEW c \in Conns, ListFile(c)
        PROVE  Typed'
    <2>1. Classify(c) \in {"ignored", "quiet", "planned"}
      BY DEF Classify
    <2>2. run[c] \in Runs /\ run[c] # Idle
      BY <1>3, <1>t DEF ListFile, TypeOK
    <2>3. [run[c] EXCEPT !.stage = "listed", !.file = Classify(c)] \in Runs
      BY <2>1, <2>2 DEF Runs
    <2>4. run' \in [Conns -> Runs]
      BY <1>3, <1>t, <2>3 DEF ListFile, TypeOK
    <2> QED
      BY <1>3, <1>r, <1>t, <2>4 DEF ListFile, TypeOK
  <1>4. ASSUME NEW c \in Conns, FinishOk(c)
        PROVE  Typed'
    <2>1. run[c].window \in Windows
      BY <1>4, <1>t DEF FinishOk, TypeOK, Runs
    <2>2. ok' \in [Conns -> SUBSET Windows] /\ \A d \in Conns : Bounded(ok'[d])
      <3>1. ok[c] \cup {run[c].window} \subseteq Windows /\ Bounded(ok[c] \cup {run[c].window})
        BY <1>t, <2>1, BoundedGrows DEF TypeOK
      <3> QED
        BY <1>4, <1>t, <3>1 DEF FinishOk, TypeOK
    <2>3. run' \in [Conns -> Runs] /\ taken' \in [Conns -> BOOLEAN]
      <3>1. (taken[c] \/ run[c].file = "planned") \in BOOLEAN
        OBVIOUS
      <3>2. taken' \in [Conns -> BOOLEAN]
        BY <1>4, <1>t, <3>1 DEF FinishOk, TypeOK
      <3> QED
        BY <1>4, <1>t, <3>2 DEF FinishOk, TypeOK, Runs
    <2>4. owed' \in [Conns -> Int]
      BY <1>4, <1>t, <2>1 DEF FinishOk, TypeOK, Windows
    <2>5. awaiting' \in [Planners -> Conns \cup {NoConn}]
      BY <1>4, <1>t DEF FinishOk, TypeOK, Resume
    <2> QED
      BY <1>4, <1>t, <2>2, <2>3, <2>4, <2>5 DEF FinishOk, Typed, TypeOK
  <1>5. ASSUME NEW c \in Conns, FinishFailed(c)
        PROVE  Typed'
    <2>1. taken' \in [Conns -> BOOLEAN]
      BY <1>5, <1>t DEF FinishFailed, TypeOK
    <2>2. run' \in [Conns -> Runs]
      BY <1>5, <1>t DEF FinishFailed, TypeOK, Runs
    <2>3. awaiting' \in [Planners -> Conns \cup {NoConn}]
      BY <1>5, <1>t DEF FinishFailed, TypeOK, Resume
    <2> QED
      BY <1>5, <1>t, <2>1, <2>2, <2>3 DEF FinishFailed, Typed, TypeOK
  <1>6. ASSUME NEW c \in Conns, FireJob(c)
        PROVE  Typed'
    <2>1. NominalTime(now) \in Int
      BY <1>n, NominalNotFarAhead
    <2>2. run' \in [Conns -> Runs]
      BY <1>6, <2>1, RequestTyped DEF FireJob
    <2>3. next' \in [Conns -> Int]
      <3>1. PICK k \in 1..(MaxTime \div Day) : next' = [next EXCEPT ![c] = next[c] + k * Day]
        BY <1>6 DEF FireJob
      <3>2. k * Day \in Int
        BY ConstantsAssumption
      <3> QED
        BY <1>t, <3>1, <3>2 DEF TypeOK
    <2> QED
      BY <1>6, <1>r, <1>t, <2>2, <2>3 DEF FireJob, TypeOK
  <1>7. ASSUME NEW c \in Conns, FileAppears(c)
        PROVE  Typed'
    BY <1>7, <1>t DEF FileAppears, Typed, TypeOK
  <1>8. ASSUME NEW p \in Planners, BeginCatchup(p)
        PROVE  Typed'
    BY <1>8, <1>t DEF BeginCatchup, Typed, TypeOK
  <1>9. ASSUME NEW p \in Planners, PlanCatchup(p)
        PROVE  Typed'
    <2>1. Candidates \in SUBSET (Conns \X Int)
      BY <1>n, CandidatesAreTimes
    <2>2. /\ phase' \in [Planners -> {"idle", "plan", "execute"}]
          /\ pending' \in [Planners -> SUBSET (Conns \X Int)]
      BY <1>9, <1>t, <2>1 DEF PlanCatchup, TypeOK
    <2> QED
      BY <1>9, <1>t, <2>2 DEF PlanCatchup, Typed, TypeOK
  <1>10. ASSUME NEW p \in Planners, ExecuteCandidate(p)
        PROVE  Typed'
    <2>1. PICK candidate \in pending[p] :
             /\ pending' = [pending EXCEPT ![p] = @ \ {candidate}]
             /\ Request(candidate[1], candidate[2], TRUE)
             /\ awaiting' = [awaiting EXCEPT ![p] = IF run' = run THEN NoConn ELSE candidate[1]]
      BY <1>10 DEF ExecuteCandidate
    <2>2. candidate[1] \in Conns /\ candidate[2] \in Int
      BY <1>t, <2>1 DEF TypeOK
    <2>3. run' \in [Conns -> Runs]
      BY <2>1, <2>2, RequestTyped
    <2>4. pending' \in [Planners -> SUBSET (Conns \X Int)]
      BY <1>t, <2>1 DEF TypeOK
    <2>5. awaiting' \in [Planners -> Conns \cup {NoConn}]
      BY <1>t, <2>1, <2>2 DEF TypeOK
    <2> QED
      BY <1>10, <1>r, <1>t, <2>3, <2>4, <2>5 DEF ExecuteCandidate, TypeOK
  <1>11. ASSUME NEW p \in Planners, EndCatchup(p)
        PROVE  Typed'
    BY <1>11, <1>t DEF EndCatchup, Typed, TypeOK
  <1>12. CASE Reconfigure
    <2>1. next' \in [Conns -> Int]
      BY <1>12, <1>n, NextNominalTyped DEF Reconfigure
    <2> QED
      BY <1>12, <1>t, <2>1 DEF Reconfigure, Typed, TypeOK
  <1>13. CASE Tick
    BY <1>13, <1>t, ConstantsAssumption DEF Tick, Typed, TypeOK
  <1>14. CASE Crash
    <2>1. run' \in [Conns -> Runs]
      BY <1>14 DEF Crash, Runs
    <2> QED
      BY <1>14, <1>t, <2>1 DEF Crash, Typed, TypeOK
  <1>15. CASE Restart
    <2>1. next' \in [Conns -> Int]
      BY <1>15, <1>n, NextNominalTyped DEF Restart
    <2>2. phase' \in [Planners -> {"idle", "plan", "execute"}]
      BY <1>15 DEF Restart, AtStart
    <2> QED
      BY <1>15, <1>t, <2>1, <2>2 DEF Restart, Typed, TypeOK
  <1>16. CASE UNCHANGED vars
    BY <1>16, <1>t DEF vars, Typed, TypeOK
  <1> QED
    BY <1>1, <1>2, <1>3, <1>4, <1>5, <1>6, <1>7, <1>8, <1>9, <1>10, <1>11,
       <1>12, <1>13, <1>14, <1>15, <1>16 DEF Next

LEMMA AlwaysTyped == Spec => []Typed
  BY InitTyped, TypedStep, PTL DEF Spec

(* Every reachable state is well typed: the windows that calculate_window
   computes from the history, the times of the jobs and the candidates of a
   catch-up are instants. *)
THEOREM TypeCorrect == Spec => []TypeOK
  <1>1. Typed => TypeOK
    BY DEF Typed
  <1> QED
    BY <1>1, AlwaysTyped, PTL

-----------------------------------------------------------------------------
(* Automatic runs.  A window that was missing when the run began can only be
   completed by a run of the same connection, and there is no other. *)
LEMMA NotRepeatedStep == Typed /\ NoWindowRepeated /\ [Next]_vars => NoWindowRepeated'
  <1> SUFFICES ASSUME Typed, NoWindowRepeated, [Next]_vars,
                      NEW c \in Conns \ FullScan, run'[c] # Idle, run'[c].auto
               PROVE  run'[c].window \notin ok'[c]
    BY DEF NoWindowRepeated
  <1>t. TypeOK /\ now \in Int /\ run \in [Conns -> Runs] /\ ok \in [Conns -> SUBSET Windows]
    BY DEF Typed, TypeOK
  <1>h. run[c] # Idle /\ run[c].auto => run[c].window \notin ok[c]
    BY DEF NoWindowRepeated
  <1>k. ASSUME run'[c] = run[c], ok'[c] = ok[c]
        PROVE  run'[c].window \notin ok'[c]
    BY <1>h, <1>k
  <1>r. ASSUME NEW d \in Conns, NEW reference \in Int, NEW auto \in BOOLEAN,
               Request(d, reference, auto), UNCHANGED ok
        PROVE  run'[c].window \notin ok'[c]
    <2>1. CASE UNCHANGED run \/ d # c
      <3>1. run'[c] = run[c]
        BY <1>r, <1>t, <2>1, RequestStarts
      <3> QED
        BY <1>k, <1>r, <3>1
    <2>2. CASE ~(UNCHANGED run) /\ d = c
      <3>1. /\ auto => CalculateWindow(c, reference) \notin ok[c]
            /\ run'[c] = [stage |-> "started", window |-> CalculateWindow(c, reference),
                          started |-> now, auto |-> auto, file |-> "ignored"]
        BY <1>r, <1>t, <2>2, RequestStarts
      <3> QED
        BY <1>r, <3>1
    <2> QED
      BY <2>1, <2>2
  <1>1. ASSUME NEW d \in Conns, RunManually(d)
        PROVE  run'[c].window \notin ok'[c]
    BY <1>1, <1>r, <1>t DEF RunManually
  <1>2. ASSUME NEW d \in Conns, NEW day \in 1..(MaxTime \div Day), RunDate(d, day)
        PROVE  run'[c].window \notin ok'[c]
    <2>1. CASE d = c
      BY <1>2, <1>t, <2>1 DEF RunDate, Execute, HasSuccessfulWindow
    <2>2. CASE d # c
      BY <1>2, <1>t, <1>k, <2>2 DEF RunDate, Execute, HasSuccessfulWindow
    <2> QED
      BY <2>1, <2>2
  <1>3. ASSUME NEW d \in Conns, ListFile(d)
        PROVE  run'[c].window \notin ok'[c]
    <2>1. CASE d = c
      <3>1. /\ run[c] # Idle /\ ok'[c] = ok[c] /\ run[c] \in Runs
            /\ run'[c] = [run[c] EXCEPT !.stage = "listed", !.file = Classify(c)]
        BY <1>3, <1>t, <2>1 DEF ListFile
      <3>2. run'[c].window = run[c].window /\ run'[c].auto = run[c].auto
        BY <3>1 DEF Runs
      <3> QED
        BY <1>h, <3>1, <3>2
    <2>2. CASE d # c
      BY <1>3, <1>t, <1>k, <2>2 DEF ListFile
    <2> QED
      BY <2>1, <2>2
  <1>4. ASSUME NEW d \in Conns, FinishOk(d)
        PROVE  run'[c].window \notin ok'[c]
    BY <1>4, <1>t, <1>k DEF FinishOk
  <1>5. ASSUME NEW d \in Conns, FinishFailed(d)
        PROVE  run'[c].window \notin ok'[c]
    BY <1>5, <1>t, <1>k DEF FinishFailed
  <1>6. ASSUME NEW d \in Conns, FireJob(d)
        PROVE  run'[c].window \notin ok'[c]
    BY <1>6, <1>r, <1>t, NominalNotFarAhead DEF FireJob
  <1>7. ASSUME NEW d \in Conns, FileAppears(d)
        PROVE  run'[c].window \notin ok'[c]
    BY <1>7, <1>k DEF FileAppears
  <1>8. ASSUME NEW p \in Planners, BeginCatchup(p) \/ PlanCatchup(p) \/ EndCatchup(p)
        PROVE  run'[c].window \notin ok'[c]
    BY <1>8, <1>k DEF BeginCatchup, PlanCatchup, EndCatchup
  <1>9. ASSUME NEW p \in Planners, ExecuteCandidate(p)
        PROVE  run'[c].window \notin ok'[c]
    <2>1. PICK candidate \in pending[p] : Request(candidate[1], candidate[2], TRUE)
      BY <1>9 DEF ExecuteCandidate
    <2>2. candidate[1] \in Conns /\ candidate[2] \in Int
      BY <1>t, <2>1 DEF TypeOK
    <2> QED
      BY <1>9, <1>r, <2>1, <2>2 DEF ExecuteCandidate
  <1>10. CASE Reconfigure \/ Tick \/ Restart \/ UNCHANGED vars
    BY <1>10, <1>k DEF Reconfigure, Tick, Restart, vars
  <1>11. CASE Crash
    BY <1>11 DEF Crash
  <1> QED
    BY <1>1, <1>2, <1>3, <1>4, <1>5, <1>6, <1>7, <1>8, <1>9, <1>10, <1>11 DEF Next

(* The scheduler and the catch-up never run a window that has succeeded, for
   any number of connections and of threads that catch up: the history is
   looked at again under the lock of the connection. *)
THEOREM WindowsNotRepeated == Spec => []NoWindowRepeated
  <1>1. Init => NoWindowRepeated
    BY DEF Init, NoWindowRepeated
  <1> QED
    BY <1>1, NotRepeatedStep, AlwaysTyped, PTL DEF Spec

-----------------------------------------------------------------------------
(* The chain of since_last_run windows. *)
Chained == {c \in Conns : Mode[c] = "since_last_run" /\ c \notin FullScan}

(* A run that starts early by the jitter, and leaves what is newer than the
   quiet period, must be overlapped by the next one. *)
OverlapCovers == Overlap >= Jitter /\ Overlap + 1 >= Quiet + Jitter

Reached(c) ==
    /\ ok[c] # {} /\ mtime[c] # 0 /\ ~taken[c] /\ mtime[c] >= FirstOf(ok[c])
    => mtime[c] >= LastOf(ok[c]) - Overlap

(* What a run in progress knows of its window, and after the listing of why
   the file was not planned. *)
RunFacts(c) ==
    run[c] # Idle =>
        /\ run[c].started <= now
        /\ run[c].window.end <= run[c].started + Jitter
        /\ ok[c] # {} => run[c].window.start = LastOf(ok[c]) - Overlap
        /\ run[c].stage = "listed" /\ run[c].file = "ignored" =>
              \/ mtime[c] = 0
              \/ taken[c]
              \/ mtime[c] < run[c].window.start
              \/ mtime[c] >= run[c].window.end
              \/ mtime[c] >= run[c].started
        /\ run[c].stage = "listed" /\ run[c].file = "quiet" =>
              mtime[c] # 0 /\ mtime[c] > run[c].started - Quiet

Recent(c) == \A w \in ok[c] : w.end <= now + Jitter

PendingPast == \A p \in Planners : \A candidate \in pending[p] : candidate[2] <= now

ChainInv ==
    /\ PendingPast
    /\ \A c \in Chained : Reached(c) /\ RunFacts(c) /\ Recent(c)

LEMMA ChainInit == Init => ChainInv
  BY DEF Init, ChainInv, PendingPast, Reached, RunFacts, Recent, Chained

(* A success extends the chain by a window that begins where it ended and
   looked at everything in between but what the next one overlaps. *)
LEMMA ChainGrows ==
    ASSUME Typed, OverlapCovers, NEW c \in Chained, Reached(c), RunFacts(c), FinishOk(c)
    PROVE  Reached(c)'
  <1> DEFINE w == run[c].window
             history == ok[c] \cup {w}
  <1>t. /\ c \in Conns /\ ok[c] \subseteq Windows /\ Bounded(ok[c])
        /\ run[c] # Idle /\ run[c] \in Runs /\ run[c].stage = "listed"
        /\ mtime[c] \in Int
    BY DEF Typed, TypeOK, Chained, FinishOk
  <1>w. /\ w \in Windows /\ w.start \in Int /\ w.end \in Int /\ run[c].started \in Int
        /\ run[c].file \in {"ignored", "quiet", "planned"}
    BY <1>t DEF Runs, Windows
  <1>o. /\ Overlap \in Int /\ Quiet \in Int /\ Jitter \in Int
        /\ Overlap >= Jitter /\ Overlap + 1 >= Quiet + Jitter
    BY ConstantsAssumption DEF OverlapCovers
  <1>f. ok'[c] = history /\ mtime' = mtime
    BY <1>t DEF FinishOk, Typed, TypeOK
  <1>k. ~taken'[c] => ~taken[c] /\ run[c].file # "planned"
    BY <1>t, Zenon DEF FinishOk, Typed, TypeOK
  <1>h. history \subseteq Windows /\ history # {} /\ Bounded(history)
    BY <1>t, <1>w, BoundedGrows
  <1> SUFFICES ASSUME mtime[c] # 0, ~taken[c], run[c].file # "planned",
                      mtime[c] >= FirstOf(history)
               PROVE  mtime[c] >= LastOf(history) - Overlap
    BY <1>f, <1>k DEF Reached
  <1>1. mtime[c] >= w.start
    <2>1. PICK v \in history : FirstOf(history) = v.start
      BY <1>h, FirstOfIs
    <2>2. CASE v = w
      BY <2>1, <2>2
    <2>3. CASE v \in ok[c]
      <3>1. FirstOf(ok[c]) <= v.start /\ FirstOf(ok[c]) \in Int /\ v.start \in Int
        BY <1>t, <2>3, FirstOfIs DEF Windows
      <3>2. mtime[c] >= FirstOf(ok[c])
        BY <1>t, <2>1, <3>1
      <3>3. mtime[c] >= LastOf(ok[c]) - Overlap
        BY <2>3, <3>2 DEF Reached
      <3> QED
        BY <1>t, <2>3, <3>3 DEF RunFacts
    <2> QED
      BY <2>2, <2>3
  <1>2. mtime[c] >= w.end - Overlap
    <2>1. CASE run[c].file = "ignored"
      <3>1. mtime[c] >= w.end \/ mtime[c] >= run[c].started
        BY <1>1, <1>t, <1>w, <2>1 DEF RunFacts
      <3> QED
        BY <1>o, <1>t, <1>w, <3>1, ConstantsAssumption DEF RunFacts
    <2>2. CASE run[c].file = "quiet"
      BY <1>o, <1>t, <1>w, <2>2 DEF RunFacts
    <2> QED
      BY <1>w, <2>1, <2>2
  <1>3. PICK v \in history : LastOf(history) = v.end
    BY <1>h, LastOfIs
  <1>4. CASE v = w
    BY <1>2, <1>3, <1>4
  <1>5. CASE v \in ok[c]
    <2>1. v.end <= LastOf(ok[c]) /\ LastOf(ok[c]) \in Int /\ v.end \in Int
      BY <1>5, <1>t, LastOfIs DEF Windows
    <2>2. w.start = LastOf(ok[c]) - Overlap
      BY <1>5, <1>t DEF RunFacts
    <2> QED
      BY <1>1, <1>3, <1>o, <1>t, <2>1, <2>2
  <1> QED
    BY <1>3, <1>4, <1>5

(* What keeps the facts of a connection: nothing of it changes but the clock,
   or its file is downloaded, or its run ends. *)
LEMMA FactsKept ==
    ASSUME Typed, NEW c \in Chained, Reached(c), RunFacts(c), Recent(c),
           ok'[c] = ok[c], mtime'[c] = mtime[c], taken[c] => taken'[c],
           run'[c] = run[c] \/ run'[c] = Idle,
           now' \in Int, now <= now'
    PROVE  Reached(c)' /\ RunFacts(c)' /\ Recent(c)'
  <1>1. /\ now \in Int /\ Jitter \in Int
        /\ ok[c] \subseteq Windows
        /\ run[c] # Idle => run[c].started \in Int
    BY ConstantsAssumption DEF Typed, TypeOK, Chained, Runs, Windows
  <1>2. Reached(c)'
    BY DEF Reached
  <1>3. RunFacts(c)'
    BY <1>1 DEF RunFacts
  <1>4. Recent(c)'
    BY <1>1 DEF Recent, Windows
  <1> QED
    BY <1>2, <1>3, <1>4

(* A request for a time that is not ahead by more than the jitter begins where
   the history ends. *)
LEMMA RequestFacts ==
    ASSUME Typed, NEW c \in Chained, Reached(c), RunFacts(c), Recent(c),
           NEW d \in Conns, NEW reference \in Int, NEW auto \in BOOLEAN,
           reference <= now + Jitter, Request(d, reference, auto),
           UNCHANGED <<now, ok, mtime, taken>>
    PROVE  Reached(c)' /\ RunFacts(c)' /\ Recent(c)'
  <1>t. now \in Int /\ run \in [Conns -> Runs] /\ c \in Conns
    BY DEF Typed, TypeOK, Chained
  <1>1. CASE UNCHANGED run \/ d # c
    <2>1. run'[c] = run[c]
      BY <1>t, <1>1, RequestStarts
    <2> QED
      BY <1>t, <2>1, FactsKept
  <1>2. CASE ~(UNCHANGED run) /\ d = c
    <2>1. run'[c] = [stage |-> "started", window |-> CalculateWindow(c, reference),
                     started |-> now, auto |-> auto, file |-> "ignored"]
      BY <1>t, <1>2, RequestStarts
    <2>2. /\ CalculateWindow(c, reference).end = reference
          /\ ok[c] # {} => CalculateWindow(c, reference).start = LastOf(ok[c]) - Overlap
      BY DEF CalculateWindow, Chained, LastEnd, LastOf
    <2>3. RunFacts(c)'
      BY <1>t, <2>1, <2>2 DEF RunFacts
    <2>4. Reached(c)' /\ Recent(c)'
      BY DEF Reached, Recent
    <2> QED
      BY <2>3, <2>4
  <1> QED
    BY <1>1, <1>2

(* What a listing finds out. *)
LEMMA ListingFacts ==
    ASSUME Typed, NEW c \in Chained, RunFacts(c), ListFile(c)
    PROVE  RunFacts(c)'
  <1>1. /\ c \in Conns /\ c \notin FullScan
        /\ run[c] \in Runs /\ run[c] # Idle
        /\ run' = [run EXCEPT ![c] = [run[c] EXCEPT !.stage = "listed", !.file = Classify(c)]]
        /\ run \in [Conns -> Runs]
        /\ UNCHANGED <<now, ok, mtime, taken>>
    BY DEF Typed, TypeOK, Chained, ListFile
  <1>2. run'[c] = [run[c] EXCEPT !.stage = "listed", !.file = Classify(c)]
    BY <1>1
  <1>3. /\ run'[c].window = run[c].window
        /\ run'[c].started = run[c].started
        /\ run'[c].file = Classify(c)
    BY <1>1, <1>2 DEF Runs
  <1>4. Classify(c) = "ignored" =>
           \/ mtime[c] = 0
           \/ taken[c]
           \/ mtime[c] < run[c].window.start
           \/ mtime[c] >= run[c].window.end
    BY <1>1 DEF Classify
  <1>5. Classify(c) = "quiet" => mtime[c] # 0 /\ mtime[c] > run[c].started - Quiet
    BY DEF Classify
  <1> QED
    BY <1>1, <1>3, <1>4, <1>5 DEF RunFacts

LEMMA ChainStep ==
    ASSUME ~AllowDates, OverlapCovers
    PROVE  Typed /\ ChainInv /\ [Next]_vars => ChainInv'
  <1> SUFFICES ASSUME Typed, Typed', ChainInv, [Next]_vars PROVE ChainInv'
    BY TypedStep
  <1>t. TypeOK /\ now \in Int /\ now' \in Int /\ Jitter \in Int /\ Jitter >= 0
    BY ConstantsAssumption DEF Typed, TypeOK
  <1>p. PendingPast'
    <2> SUFFICES ASSUME NEW q \in Planners, NEW candidate \in pending'[q]
                 PROVE  candidate[2] <= now'
      BY DEF PendingPast
    <2>1. ASSUME pending'[q] \subseteq pending[q], now' = now \/ now' = now + 1
          PROVE  candidate[2] <= now'
      <3>1. candidate[2] <= now /\ candidate[2] \in Int
        BY <1>t, <2>1 DEF ChainInv, PendingPast, TypeOK
      <3> QED
        BY <1>t, <2>1, <3>1
    <2>2. ASSUME NEW p \in Planners, PlanCatchup(p)
          PROVE  candidate[2] <= now'
      <3>1. CASE pending'[q] = pending[q]
        BY <2>1, <2>2, <3>1 DEF PlanCatchup
      <3>2. CASE pending'[q] = Candidates
        BY <1>t, <2>2, <3>2, CandidatesAreTimes DEF PlanCatchup
      <3> QED
        BY <1>t, <2>2, <3>1, <3>2 DEF PlanCatchup, TypeOK
    <2>3. ASSUME NEW p \in Planners, ExecuteCandidate(p)
          PROVE  candidate[2] <= now'
      BY <1>t, <2>1, <2>3 DEF ExecuteCandidate, TypeOK
    <2>4. CASE Crash
      BY <2>4 DEF Crash
    <2>5. ASSUME NEW c \in Conns,
                 \/ RunManually(c) \/ ListFile(c) \/ FinishOk(c) \/ FinishFailed(c)
                 \/ FireJob(c) \/ FileAppears(c)
                 \/ \E day \in 1..(MaxTime \div Day) : RunDate(c, day)
          PROVE  candidate[2] <= now'
      BY <2>1, <2>5 DEF RunManually, ListFile, FinishOk, FinishFailed, FireJob, FileAppears, RunDate
    <2>6. ASSUME NEW p \in Planners, BeginCatchup(p) \/ EndCatchup(p)
          PROVE  candidate[2] <= now'
      BY <2>1, <2>6 DEF BeginCatchup, EndCatchup
    <2>7. CASE Reconfigure \/ Tick \/ Restart \/ UNCHANGED vars
      BY <2>1, <2>7 DEF Reconfigure, Tick, Restart, vars
    <2> QED
      BY <2>2, <2>3, <2>4, <2>5, <2>6, <2>7 DEF Next
  <1>c. ASSUME NEW c \in Chained
        PROVE  Reached(c)' /\ RunFacts(c)' /\ Recent(c)'
    <2>i. Reached(c) /\ RunFacts(c) /\ Recent(c)
      BY DEF ChainInv
    <2>t. /\ c \in Conns /\ run \in [Conns -> Runs] /\ taken \in [Conns -> BOOLEAN]
          /\ ok[c] \subseteq Windows /\ mtime[c] \in Int
          /\ Overlap \in Int /\ Overlap >= Jitter
      <3>1. Overlap \in Int /\ Overlap >= Jitter
        BY ConstantsAssumption DEF OverlapCovers
      <3>2. c \in Conns
        BY DEF Chained
      <3> QED
        BY <1>t, <3>1, <3>2 DEF TypeOK
    <2>1. ASSUME NEW d \in Conns, RunManually(d)
          PROVE  Reached(c)' /\ RunFacts(c)' /\ Recent(c)'
      <3>1. Request(d, now, FALSE) /\ UNCHANGED <<now, ok, mtime, taken>>
        BY <2>1 DEF RunManually
      <3>2. now <= now + Jitter
        BY <1>t
      <3> QED
        BY <1>t, <2>i, <3>1, <3>2, RequestFacts
    <2>2. ASSUME NEW d \in Conns, FireJob(d)
          PROVE  Reached(c)' /\ RunFacts(c)' /\ Recent(c)'
      BY <1>t, <2>2, <2>i, RequestFacts, NominalNotFarAhead DEF FireJob
    <2>3. ASSUME NEW p \in Planners, ExecuteCandidate(p)
          PROVE  Reached(c)' /\ RunFacts(c)' /\ Recent(c)'
      <3>1. PICK candidate \in pending[p] : Request(candidate[1], candidate[2], TRUE)
        BY <2>3 DEF ExecuteCandidate
      <3>2. candidate[1] \in Conns /\ candidate[2] \in Int
        BY <1>t, <3>1 DEF TypeOK
      <3>3. candidate[2] <= now + Jitter
        BY <1>t, <3>1, <3>2 DEF ChainInv, PendingPast
      <3>4. UNCHANGED <<now, ok, mtime, taken>>
        BY <2>3 DEF ExecuteCandidate
      <3> QED
        BY <2>i, <3>1, <3>2, <3>3, <3>4, RequestFacts
    <2>4. ASSUME NEW d \in Conns, ListFile(d)
          PROVE  Reached(c)' /\ RunFacts(c)' /\ Recent(c)'
      <3>1. CASE d # c
        BY <1>t, <2>4, <2>i, <2>t, <3>1, FactsKept DEF ListFile
      <3>2. CASE d = c
        BY <2>4, <2>i, <3>2, ListingFacts DEF ListFile, Reached, Recent
      <3> QED
        BY <3>1, <3>2
    <2>5. ASSUME NEW d \in Conns, FinishOk(d)
          PROVE  Reached(c)' /\ RunFacts(c)' /\ Recent(c)'
      <3>1. CASE d # c
        BY <1>t, <2>5, <2>i, <2>t, <3>1, FactsKept DEF FinishOk, Typed, TypeOK
      <3>2. CASE d = c
        <4>1. Reached(c)'
          BY <2>5, <2>i, <3>2, ChainGrows
        <4>2. RunFacts(c)'
          BY <2>5, <2>t, <3>2 DEF FinishOk, RunFacts
        <4>3. run[c].window.end <= now + Jitter
          <5>1. run[c] \in Runs /\ run[c].stage = "listed"
            BY <2>5, <2>t, <3>2 DEF FinishOk
          <5>2. run[c].started \in Int /\ run[c].window.end \in Int
            BY <5>1 DEF Runs, Windows, Idle
          <5>3. run[c] # Idle
            BY <2>5, <3>2 DEF FinishOk
          <5>4. run[c].started <= now /\ run[c].window.end <= run[c].started + Jitter
            BY <2>i, <5>3 DEF RunFacts
          <5> QED
            BY <1>t, <5>2, <5>4
        <4>4. Recent(c)'
          BY <2>5, <2>i, <2>t, <3>2, <4>3 DEF FinishOk, Recent, Typed, TypeOK
        <4> QED
          BY <4>1, <4>2, <4>4
      <3> QED
        BY <3>1, <3>2
    <2>6. ASSUME NEW d \in Conns, FinishFailed(d)
          PROVE  Reached(c)' /\ RunFacts(c)' /\ Recent(c)'
      <3>1. taken[c] => taken'[c]
        BY <2>6, <2>t DEF FinishFailed
      <3>2. run'[c] = run[c] \/ run'[c] = Idle
        BY <2>6, <2>t DEF FinishFailed
      <3> QED
        BY <1>t, <2>6, <2>i, <3>1, <3>2, FactsKept DEF FinishFailed
    <2>7. ASSUME NEW d \in Conns, FileAppears(d)
          PROVE  Reached(c)' /\ RunFacts(c)' /\ Recent(c)'
      <3>1. CASE d # c
        BY <1>t, <2>7, <2>i, <2>t, <3>1, FactsKept DEF FileAppears, Typed, TypeOK
      <3>2. CASE d = c
        <4>1. mtime[c] = 0 /\ mtime'[c] = now /\ UNCHANGED <<now, ok, taken, run>>
          BY <2>7, <3>2 DEF FileAppears, Typed, TypeOK
        <4>2. Reached(c)'
          <5>1. ok[c] # {} => LastOf(ok[c]) \in Int /\ LastOf(ok[c]) <= now + Jitter
            BY <2>i, <2>t, LastOfIs DEF Recent, Typed
          <5> QED
            BY <1>t, <2>t, <4>1, <5>1 DEF Reached
        <4>3. RunFacts(c)'
          BY <2>i, <4>1 DEF RunFacts
        <4>4. Recent(c)'
          BY <2>i, <4>1 DEF Recent
        <4> QED
          BY <4>2, <4>3, <4>4
      <3> QED
        BY <3>1, <3>2
    <2>8. ASSUME NEW p \in Planners, BeginCatchup(p) \/ PlanCatchup(p) \/ EndCatchup(p)
          PROVE  Reached(c)' /\ RunFacts(c)' /\ Recent(c)'
      BY <1>t, <2>8, <2>i, FactsKept DEF BeginCatchup, PlanCatchup, EndCatchup
    <2>9. CASE Reconfigure \/ Tick \/ Restart \/ UNCHANGED vars
      BY <1>t, <2>9, <2>i, FactsKept DEF Reconfigure, Tick, Restart, vars
    <2>10. CASE Crash
      BY <1>t, <2>10, <2>i, <2>t, FactsKept DEF Crash
    <2>11. ASSUME NEW d \in Conns, NEW day \in 1..(MaxTime \div Day), RunDate(d, day)
           PROVE  Reached(c)' /\ RunFacts(c)' /\ Recent(c)'
      BY <2>11 DEF RunDate
    <2> QED
      BY <2>1, <2>2, <2>3, <2>4, <2>5, <2>6, <2>7, <2>8, <2>9, <2>10, <2>11 DEF Next
  <1> QED
    BY <1>p, <1>c DEF ChainInv

(* Without runs of a chosen date, and with an overlap as long as the quiet
   period and the jitter together, a connection in since_last_run leaves no
   file behind, whatever fails, restarts, is caught up or is run by hand. *)
THEOREM NothingMissed ==
    ASSUME ~AllowDates, OverlapCovers
    PROVE  Spec => []NothingLeftBehind
  <1>1. ChainInv => NothingLeftBehind
    BY DEF ChainInv, Chained, Reached, NothingLeftBehind, LastEnd, LastOf, FirstStart, FirstOf
  <1> QED
    BY <1>1, ChainInit, ChainStep, AlwaysTyped, PTL DEF Spec

-----------------------------------------------------------------------------
(* The daily times.  Around one of them, up to the jitter, a job stands for
   that one, even if it fires on another day. *)
LEMMA NominalOfJob ==
    ASSUME NEW t \in Int, NEW j \in Int,
           j * Day + At - Jitter <= t, t <= j * Day + At + Jitter
    PROVE  NominalTime(t) = j * Day + At
  <1> DEFINE own == j * Day
  <1>c. /\ Day \in Int /\ Day > 0 /\ At \in Int /\ 0 <= At /\ At < Day
        /\ Jitter \in Int /\ 0 <= Jitter /\ 2 * Jitter < Day /\ own \in Int
    BY ConstantsAssumption, JitterAssumption
  <1>m. PICK m \in Int : Midnight(t) = m * Day
    <2>1. t - (t % Day) = (t \div Day) * Day /\ t \div Day \in Int
      BY <1>c
    <2> QED
      BY <2>1 DEF Midnight
  <1>b. m * Day \in Int /\ m * Day <= t /\ t < m * Day + Day
    BY <1>m, MidnightBounds
  <1>1. CASE m = j
    BY <1>1, <1>b, <1>c, <1>m DEF NominalTime
  <1>2. CASE m = j - 1
    <2>1. m * Day = own - Day
      BY <1>2, <1>c
    <2> QED
      BY <2>1, <1>b, <1>c, <1>m DEF NominalTime
  <1>3. CASE m = j + 1
    <2>1. m * Day = own + Day
      BY <1>3, <1>c
    <2> QED
      BY <2>1, <1>b, <1>c, <1>m DEF NominalTime
  <1>4. CASE m >= j + 2
    <2>1. m * Day >= own + 2 * Day
      BY <1>4, <1>c
    <2> QED
      BY <2>1, <1>b, <1>c
  <1>5. CASE m <= j - 2
    <2>1. m * Day <= own - 2 * Day
      BY <1>5, <1>c
    <2> QED
      BY <2>1, <1>b, <1>c
  <1> QED
    BY <1>1, <1>2, <1>3, <1>4, <1>5

(* The scheduler only keeps daily times. *)
Daily(n) == \E j \in Int : n = j * Day + At

AllDaily == \A c \in Conns : Daily(next[c])

LEMMA NextNominalDaily ==
    ASSUME NEW t \in Int
    PROVE  Daily(NextNominal(t))
  <1>1. PICK m \in Int : Midnight(t) = m * Day
    <2>1. t - (t % Day) = (t \div Day) * Day /\ t \div Day \in Int
      BY ConstantsAssumption
    <2> QED
      BY <2>1 DEF Midnight
  <1>2. PICK k \in 0..2 : NextNominal(t) = Midnight(t) + At + k * Day
    BY NextNominalFound
  <1>3. NextNominal(t) = (m + k) * Day + At
    BY <1>1, <1>2, ConstantsAssumption
  <1> QED
    BY <1>3 DEF Daily

LEMMA DailyStep == Typed /\ AllDaily /\ [Next]_vars => AllDaily'
  <1> SUFFICES ASSUME Typed, AllDaily, [Next]_vars PROVE AllDaily'
    OBVIOUS
  <1>t. now \in Int /\ next \in [Conns -> Int]
    BY DEF Typed, TypeOK
  <1>1. CASE UNCHANGED next
    BY <1>1 DEF AllDaily
  <1>2. CASE next' = [c \in Conns |-> NextNominal(now)]
    BY <1>t, <1>2, NextNominalDaily DEF AllDaily
  <1>3. ASSUME NEW d \in Conns, FireJob(d)
        PROVE  AllDaily'
    <2>1. PICK k \in 1..(MaxTime \div Day) : next' = [next EXCEPT ![d] = next[d] + k * Day]
      BY <1>3 DEF FireJob
    <2>2. PICK j \in Int : next[d] = j * Day + At
      BY DEF AllDaily, Daily
    <2>3. next'[d] = (j + k) * Day + At
      BY <1>t, <2>1, <2>2, ConstantsAssumption
    <2>4. Daily(next'[d])
      BY <2>3 DEF Daily
    <2> QED
      BY <1>t, <2>1, <2>4 DEF AllDaily
  <1> QED
    BY <1>1, <1>2, <1>3
    DEF Next, vars, RunManually, ListFile, FinishOk, FinishFailed, FileAppears, RunDate,
        BeginCatchup, PlanCatchup, ExecuteCandidate, EndCatchup, Reconfigure, Tick, Crash, Restart

(* Only a job changes its next time and the run of its connection at once. *)
LEMMA JobStep ==
    ASSUME Typed, AllDaily, [Next]_vars, NEW c \in Conns,
           next'[c] # next[c], run'[c] # run[c], run'[c] # Idle,
           now <= next[c] + Jitter
    PROVE  run'[c].window = CalculateWindow(c, next[c])
  <1>t. now \in Int /\ next \in [Conns -> Int] /\ run \in [Conns -> Runs] /\ Jitter \in Int
    BY ConstantsAssumption DEF Typed, TypeOK
  <1>1. PICK d \in Conns : FireJob(d)
    BY DEF Next, vars, RunManually, ListFile, FinishOk, FinishFailed, FileAppears, RunDate,
        BeginCatchup, PlanCatchup, ExecuteCandidate, EndCatchup, Reconfigure, Tick, Crash, Restart
  <1>2. d = c
    BY <1>t, <1>1 DEF FireJob
  <1>3. PICK j \in Int : next[c] = j * Day + At
    BY DEF AllDaily, Daily
  <1>4. next[c] - Jitter <= now /\ now <= next[c] + Jitter
    BY <1>t, <1>1, <1>2 DEF FireJob
  <1>5. NominalTime(now) = next[c]
    <2>1. j * Day + At - Jitter <= now /\ now <= j * Day + At + Jitter
      BY <1>3, <1>4, <1>t, ConstantsAssumption
    <2>2. NominalTime(now) = j * Day + At
      BY <1>t, <2>1, NominalOfJob
    <2> QED
      BY <1>3, <2>2
  <1>6. Request(c, next[c], TRUE)
    BY <1>1, <1>2, <1>5 DEF FireJob
  <1>7. run' = [run EXCEPT ![c] =
                  [stage |-> "started", window |-> CalculateWindow(c, next[c]),
                   started |-> now, auto |-> TRUE, file |-> "ignored"]]
    BY <1>t, <1>6, RequestStarts
  <1> QED
    BY <1>t, <1>7

(* Every job that fires within its jitter collects the window of its own daily
   time, for any schedule and any jitter below half a day, across
   midnight, suspensions and changes of the settings. *)
THEOREM JobsOnTheirDay == Spec => JobsCollectTheirDay
  <1>1. Init => AllDaily
    BY NextNominalDaily, ConstantsAssumption DEF Init, AllDaily
  <1>2. Typed /\ AllDaily /\ [Next]_vars =>
          [\A c \in Conns :
             /\ next'[c] # next[c] /\ run'[c] # run[c] /\ run'[c] # Idle
             /\ now <= next[c] + Jitter
             => run'[c].window = CalculateWindow(c, next[c])]_vars
    BY JobStep
  <1> QED
    BY <1>1, <1>2, DailyStep, AlwaysTyped, PTL DEF Spec, JobsCollectTheirDay
=============================================================================
