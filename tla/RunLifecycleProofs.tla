------------------------- MODULE RunLifecycleProofs -------------------------
(***************************************************************************)
(* Theorems about RunLifecycle for any connections, threads, files and     *)
(* bounds.  The argument has layers: typing with the facts that give each  *)
(* owning thread a run and a connection (Typed); the exclusion that the    *)
(* lock and the check under it add up to (Exclusion); what a stage of the  *)
(* code knows of the rows of its own run (QueueInv); and what the counters *)
(* and outcomes in the memory of a thread say of those rows (Knows).       *)
(***************************************************************************)
EXTENDS RunLifecycle, FiniteSetTheorems, TLAPS

(* The stages that may still have download workers. *)
EngineStages == {"claimed", "batch", "failing", "failing2", "closing"}

(* A thread that holds a lock has a connection, an owning thread has a run,
   and only an owning thread has workers. *)
Owners ==
    \A t \in Threads :
        /\ pc[t] # "idle" => target[t] \in Conns
        /\ pc[t] \in Owning => run[t] \in 1..lastRun
        /\ working[t] # {} => pc[t] \in EngineStages

Typed == TypeOK /\ Owners

(* Nothing is running and nobody owns a run when the process starts for the
   first time. *)
LEMMA InitTyped == Init => Typed
  BY ConstantsAssumption
  DEF Init, Typed, TypeOK, Owners, NoOutcome, RunIds, Stages, Owning,
      Reserving, Reserved, Unfinished, Outcomes, Terminal

(* One step per action; where a record of sets is rebuilt (a batch, a crash)
   its types are settled first. *)
LEMMA TypedStep == Typed /\ [Next]_vars => Typed'
  <1> SUFFICES ASSUME Typed, [Next]_vars PROVE Typed'
    OBVIOUS
  <1> USE ConstantsAssumption
      DEF Typed, TypeOK, Owners, RunIds, Stages, Owning, EngineStages, Reserving, Reserved,
          Unfinished, Outcomes, Terminal, NoOutcome, Goto,
          rowVars, sharedVars, localVars
  <1>1. ASSUME NEW t \in Threads, NEW c \in Conns, AcquireLock(t, c)
       PROVE  Typed'
    BY <1>1 DEF AcquireLock
  <1>2. ASSUME NEW t \in Threads, PassChecks(t)
       PROVE  Typed'
    BY <1>2 DEF PassChecks
  <1>3. ASSUME NEW t \in Threads, PassDryRunChecks(t)
       PROVE  Typed'
    BY <1>3 DEF PassDryRunChecks
  <1>4. ASSUME NEW t \in Threads, RefuseReservation(t)
       PROVE  Typed'
    BY <1>4 DEF RefuseReservation, FreeLock
  <1>5. ASSUME NEW t \in Threads, ReturnWithoutRun(t)
       PROVE  Typed'
    BY <1>5 DEF ReturnWithoutRun, FreeLock
  <1>6. ASSUME NEW t \in Threads, StartRun(t)
       PROVE  Typed'
    BY <1>6 DEF StartRun, InsertRun
  <1>7. ASSUME NEW t \in Threads, StartPreflightFailure(t)
       PROVE  Typed'
    BY <1>7 DEF StartPreflightFailure, InsertRun
  <1>8. ASSUME NEW t \in Threads, FinishPreflightFailure(t)
       PROVE  Typed'
    <2>1. run[t] \in RunIds
      BY <1>8 DEF FinishPreflightFailure
    <2>2. runStatus' \in [RunIds -> {"absent", "running"} \cup Terminal]
      <3>1. CASE FinishRow(t, "failed")
        BY <2>1, <3>1 DEF FinishRow
      <3>2. CASE UNCHANGED rowVars
        BY <3>2
      <3> QED
        BY <1>8, <3>1, <3>2 DEF FinishPreflightFailure
    <2>3. /\ pc' = [pc EXCEPT ![t] = "release"]
          /\ UNCHANGED <<conn, lastRun, runConn, fileStatus, sharedVars, localVars>>
      BY <1>8 DEF FinishPreflightFailure, FinishRow
    <2> QED
      BY <1>8, <2>2, <2>3 DEF FinishPreflightFailure
  <1>9. ASSUME NEW t \in Threads, OpenRun(t)
       PROVE  Typed'
    <2>1. run[t] \in RunIds
      BY <1>9 DEF OpenRun
    <2>2. progress' \in SUBSET RunIds /\ event' \in [RunIds -> {"absent", "clear", "set"}]
      BY <1>9, <2>1 DEF OpenRun
    <2> QED
      BY <1>9, <2>2 DEF OpenRun
  <1>10. ASSUME NEW t \in Threads, FailOpening(t)
       PROVE  Typed'
    <2>1. run[t] \in RunIds
      BY <1>10 DEF FailOpening
    <2>2. runStatus' \in [RunIds -> {"absent", "running"} \cup Terminal]
      <3>1. CASE FinishRow(t, "failed")
        BY <2>1, <3>1 DEF FinishRow
      <3>2. CASE UNCHANGED rowVars
        BY <3>2
      <3> QED
        BY <1>10, <3>1, <3>2 DEF FailOpening
    <2>3. /\ progress' \in SUBSET RunIds
          /\ event' \in [RunIds -> {"absent", "clear", "set"}]
      BY <1>10, <2>1 DEF FailOpening
    <2>4. /\ pc' = [pc EXCEPT ![t] = "release"]
          /\ UNCHANGED <<conn, lastRun, runConn, fileStatus, up, lock, localVars>>
      BY <1>10 DEF FailOpening, FinishRow
    <2> QED
      BY <1>10, <2>2, <2>3, <2>4 DEF FailOpening
  <1>11. ASSUME NEW t \in Threads, BeginDiscovery(t)
       PROVE  Typed'
    BY <1>11 DEF BeginDiscovery
  <1>12. ASSUME NEW t \in Threads, DiscoverBatch(t)
       PROVE  Typed'
    <2>1. fileStatus' \in [RunIds -> [Files -> {"none"} \cup Unfinished \cup Outcomes]]
      BY <1>12 DEF DiscoverBatch
    <2>2. tally' \in [Threads -> SUBSET Outcomes]
      BY <1>12 DEF DiscoverBatch
    <2> QED
      BY <1>12, <2>1, <2>2 DEF DiscoverBatch
  <1>13. ASSUME NEW t \in Threads, FinishDiscovery(t)
       PROVE  Typed'
    BY <1>13 DEF FinishDiscovery
  <1>14. ASSUME NEW t \in Threads, CancelBeforeQueue(t)
       PROVE  Typed'
    <2>1. run[t] \in RunIds
      BY <1>14 DEF CancelBeforeQueue
    <2>2. fileStatus' \in [RunIds -> [Files -> {"none"} \cup Unfinished \cup Outcomes]]
      BY <1>14, <2>1 DEF CancelBeforeQueue, CloseQueue, CloseUnfinished
    <2>3. /\ pc' = [pc EXCEPT ![t] = "verdict"]
          /\ UNCHANGED <<conn, lastRun, runConn, runStatus, sharedVars, localVars>>
      BY <1>14 DEF CancelBeforeQueue, CloseQueue
    <2> QED
      BY <1>14, <2>2, <2>3 DEF CancelBeforeQueue
  <1>15. ASSUME NEW t \in Threads, StartQueue(t)
       PROVE  Typed'
    BY <1>15 DEF StartQueue
  <1>16. ASSUME NEW t \in Threads, CheckCancel(t)
       PROVE  Typed'
    BY <1>16 DEF CheckCancel
  <1>17. ASSUME NEW t \in Threads, ClaimBatch(t)
       PROVE  Typed'
    BY <1>17 DEF ClaimBatch, PendingFiles
  <1>18. ASSUME NEW t \in Threads, SubmitBatch(t)
       PROVE  Typed'
    BY <1>18 DEF SubmitBatch
  <1>19. ASSUME NEW t \in Threads, RecordBatch(t)
       PROVE  Typed'
    <2>1. fileStatus' \in [RunIds -> [Files -> {"none"} \cup Unfinished \cup Outcomes]]
      BY <1>19 DEF RecordBatch
    <2>2. tally' \in [Threads -> SUBSET Outcomes]
      BY <1>19 DEF RecordBatch
    <2>3. outcome' \in [Threads -> [Files -> {"none"} \cup Outcomes]]
      BY <1>19 DEF RecordBatch
    <2> QED
      BY <1>19, <2>1, <2>2, <2>3 DEF RecordBatch
  <1>20. ASSUME NEW t \in Threads, NextBatch(t)
       PROVE  Typed'
    BY <1>20 DEF NextBatch
  <1>21. ASSUME NEW t \in Threads, TripCircuit(t)
       PROVE  Typed'
    <2>1. run[t] \in RunIds
      BY <1>21 DEF TripCircuit
    <2>2. fileStatus' \in [RunIds -> [Files -> {"none"} \cup Unfinished \cup Outcomes]]
      BY <1>21, <2>1 DEF TripCircuit, CloseQueue, CloseUnfinished
    <2>3. /\ pc' = [pc EXCEPT ![t] = "drained"]
          /\ UNCHANGED <<conn, lastRun, runConn, runStatus, sharedVars, localVars>>
      BY <1>21 DEF TripCircuit, CloseQueue
    <2> QED
      BY <1>21, <2>2, <2>3 DEF TripCircuit
  <1>22. ASSUME NEW t \in Threads, CancelRest(t)
       PROVE  Typed'
    <2>1. fileStatus' \in [RunIds -> [Files -> {"none"} \cup Unfinished \cup Outcomes]]
      <3>1. run[t] \in RunIds
        BY <1>22 DEF CancelRest
      <3>2. CASE CloseQueue(t, "cancelled")
        BY <3>1, <3>2 DEF CloseQueue, CloseUnfinished
      <3>3. CASE UNCHANGED rowVars
        BY <3>3
      <3> QED
        BY <1>22, <3>2, <3>3 DEF CancelRest
    <2> QED
      BY <1>22, <2>1 DEF CancelRest, CloseQueue
  <1>23. ASSUME NEW t \in Threads, FinishRun(t)
       PROVE  Typed'
    <2>1. run[t] \in RunIds
      BY <1>23 DEF FinishRun
    <2>2. RunStatusFromCounts(tally[t], CancelRequested(t)) \in Terminal
      BY DEF RunStatusFromCounts
    <2>3. runStatus' \in [RunIds -> {"absent", "running"} \cup Terminal]
      BY <1>23, <2>1, <2>2 DEF FinishRun, FinishRow
    <2>4. /\ pc' = [pc EXCEPT ![t] = "finished"]
          /\ UNCHANGED <<conn, lastRun, runConn, fileStatus, sharedVars, localVars>>
      BY <1>23 DEF FinishRun, FinishRow
    <2> QED
      BY <1>23, <2>3, <2>4 DEF FinishRun
  <1>24. ASSUME NEW t \in Threads, ReturnExecution(t)
       PROVE  Typed'
    BY <1>24 DEF ReturnExecution
  <1>25. ASSUME NEW t \in Threads, Raise(t)
       PROVE  Typed'
    BY <1>25 DEF Raise, MayRaise
  <1>26. ASSUME NEW t \in Threads, FailQueue(t)
       PROVE  Typed'
    <2>1. fileStatus' \in [RunIds -> [Files -> {"none"} \cup Unfinished \cup Outcomes]]
      <3>1. run[t] \in RunIds
        BY <1>26 DEF FailQueue
      <3>2. CASE CloseQueue(t, "failed")
        BY <3>1, <3>2 DEF CloseQueue, CloseUnfinished
      <3>3. CASE UNCHANGED rowVars
        BY <3>3
      <3> QED
        BY <1>26, <3>2, <3>3 DEF FailQueue
    <2> QED
      <3>1. /\ pc' \in [Threads -> Stages] /\ pc[t] = "failing"
            /\ pc'[t] \in {"failing2", "closing"}
            /\ \A u \in Threads \ {t} : pc'[u] = pc[u]
        BY <1>26 DEF FailQueue
      <3>2. UNCHANGED <<conn, lastRun, runConn, runStatus, sharedVars, localVars>>
        BY <1>26 DEF FailQueue, CloseQueue
      <3> QED
        BY <2>1, <3>1, <3>2
  <1>27. ASSUME NEW t \in Threads, FailRun(t)
       PROVE  Typed'
    <2>1. run[t] \in RunIds
      BY <1>27 DEF FailRun
    <2>2. runStatus' \in [RunIds -> {"absent", "running"} \cup Terminal]
      <3>1. CASE FinishRow(t, "failed")
        BY <2>1, <3>1 DEF FinishRow
      <3>2. CASE UNCHANGED rowVars
        BY <3>2
      <3> QED
        BY <1>27, <3>1, <3>2 DEF FailRun
    <2>3. /\ pc' = [pc EXCEPT ![t] = "closing"]
          /\ UNCHANGED <<conn, lastRun, runConn, fileStatus, sharedVars, localVars>>
      BY <1>27 DEF FailRun, FinishRow
    <2> QED
      BY <1>27, <2>2, <2>3 DEF FailRun
  <1>28. ASSUME NEW t \in Threads, Close(t)
       PROVE  Typed'
    <2>1. run[t] \in RunIds
      BY <1>28 DEF Close
    <2>2. /\ progress' \in SUBSET RunIds
          /\ event' \in [RunIds -> {"absent", "clear", "set"}]
      BY <1>28, <2>1 DEF Close
    <2> QED
      BY <1>28, <2>2 DEF Close
  <1>29. ASSUME NEW t \in Threads, ReleaseLock(t)
       PROVE  Typed'
    <2>1. target[t] \in Conns
      BY <1>29 DEF ReleaseLock
    <2> QED
      BY <1>29, <2>1 DEF ReleaseLock, FreeLock
  <1>30. ASSUME NEW t \in Threads, NEW f \in Files, WorkerDone(t, f)
       PROVE  Typed'
    BY <1>30 DEF WorkerDone
  <1>31. ASSUME NEW r \in RunIds, Cancel(r)
       PROVE  Typed'
    BY <1>31 DEF Cancel
  <1>32. ASSUME NEW c \in Conns, SetEnabled(c)
       PROVE  Typed'
    BY <1>32 DEF SetEnabled
  <1>33. ASSUME NEW c \in Conns, DeleteConnection(c)
       PROVE  Typed'
    BY <1>33 DEF DeleteConnection, DeleteRuns
  <1>34. ASSUME NEW k \in RunIds, Purge(k)
       PROVE  Typed'
    BY <1>34 DEF Purge, DeleteRuns
  <1>35. ASSUME Crash
       PROVE  Typed'
    <2>1. UNCHANGED rowVars
      BY <1>35 DEF Crash
    <2>2. /\ up' \in BOOLEAN
          /\ lock' \in [Conns -> Threads \cup {NoThread}]
          /\ event' \in [RunIds -> {"absent", "clear", "set"}]
          /\ progress' \in SUBSET RunIds
      BY <1>35 DEF Crash
    <2>3. /\ pc' = [t \in Threads |-> "idle"]
          /\ target' = [t \in Threads |-> NoConn]
          /\ run' = [t \in Threads |-> 0]
          /\ tally' = [t \in Threads |-> {}]
          /\ working' = [t \in Threads |-> {}]
          /\ outcome' = [t \in Threads |-> NoOutcome]
      BY <1>35 DEF Crash
    <2>4. /\ pc' \in [Threads -> Stages]
          /\ target' \in [Threads -> Conns \cup {NoConn}]
          /\ run' \in [Threads -> 0..MaxRuns]
      BY <2>3
    <2>5. /\ tally' \in [Threads -> SUBSET Outcomes]
          /\ working' \in [Threads -> SUBSET Files]
          /\ outcome' \in [Threads -> [Files -> {"none"} \cup Outcomes]]
      BY <2>3
    <2> QED
      BY <2>1, <2>2, <2>3, <2>4, <2>5
  <1>36. ASSUME Restart
       PROVE  Typed'
    BY <1>36 DEF Restart, CloseUnfinished
  <1>37. ASSUME UNCHANGED vars
       PROVE  Typed'
    BY <1>37 DEF vars
  <1> QED
    BY <1>1, <1>2, <1>3, <1>4, <1>5, <1>6, <1>7, <1>8, <1>9, <1>10, <1>11, <1>12, <1>13, <1>14, <1>15, <1>16, <1>17, <1>18, <1>19, <1>20, <1>21, <1>22, <1>23, <1>24, <1>25, <1>26, <1>27, <1>28, <1>29, <1>30, <1>31, <1>32, <1>33, <1>34, <1>35, <1>36, <1>37
    DEF Next, ThreadStep, Environment

(* Every reachable state is well typed: no call sequence of callers, workers,
   user and retention job, and no crash, writes a status, an event or a local
   of another kind, even when the database fails inside the error handlers. *)
THEOREM TypeCorrect == Spec => []TypeOK
  <1>1. Init => Typed
    BY InitTyped
  <1>2. Typed /\ [Next]_vars => Typed'
    BY TypedStep
  <1>3. Typed => TypeOK
    BY DEF Typed
  <1> QED
    BY <1>1, <1>2, <1>3, PTL DEF Spec

-----------------------------------------------------------------------------
(* What the lock and the check under it add up to: a thread that is past the
   check of has_active_run is the only one that can add a running row to its
   connection, and an owning thread's run is the only running row there. *)
Exclusion ==
    /\ \A t \in Threads :
         /\ pc[t] # "idle" => lock[target[t]] = t
         /\ pc[t] \in Reserved =>
              \A r \in RunIds : runConn[r] = target[t] => runStatus[r] # "running"
         /\ pc[t] \in Owning =>
              /\ runConn[run[t]] = target[t]
              /\ \A r \in RunIds :
                   runConn[r] = target[t] /\ runStatus[r] = "running" => r = run[t]
    /\ \A r \in RunIds : r > lastRun => runStatus[r] = "absent"

Inv == Typed /\ Exclusion /\ OneActiveRun

(* Without rows and without owners the exclusion holds. *)
LEMMA InitInv == Init => Inv
  <1> SUFFICES ASSUME Init PROVE Exclusion /\ OneActiveRun
    BY InitTyped DEF Inv
  <1> QED
    BY ConstantsAssumption
    DEF Init, Exclusion, OneActiveRun, RunsOf, Reserved, Owning, RunIds

(* The check made under the lock is what lets InsertRun keep the exclusion. *)
LEMMA InvStep == Inv /\ [Next]_vars => Inv'
  <1> SUFFICES ASSUME Inv, [Next]_vars PROVE Exclusion' /\ OneActiveRun'
    BY TypedStep DEF Inv
  <1> USE ConstantsAssumption
      DEF Inv, Typed, TypeOK, Owners, Exclusion, OneActiveRun, RunsOf, RunIds, Stages,
          Owning, Reserving, Reserved, Terminal, Goto, rowVars, sharedVars, localVars
  <1>1. ASSUME NEW t \in Threads, NEW c \in Conns, AcquireLock(t, c)
       PROVE  Exclusion' /\ OneActiveRun'
    BY <1>1 DEF AcquireLock
  <1>2. ASSUME NEW t \in Threads, PassChecks(t)
       PROVE  Exclusion' /\ OneActiveRun'
    BY <1>2 DEF PassChecks, HasActiveRun
  <1>3. ASSUME NEW t \in Threads, PassDryRunChecks(t)
       PROVE  Exclusion' /\ OneActiveRun'
    BY <1>3 DEF PassDryRunChecks, HasActiveRun
  <1>4. ASSUME NEW t \in Threads, RefuseReservation(t)
       PROVE  Exclusion' /\ OneActiveRun'
    BY <1>4 DEF RefuseReservation, FreeLock
  <1>5. ASSUME NEW t \in Threads, ReturnWithoutRun(t)
       PROVE  Exclusion' /\ OneActiveRun'
    BY <1>5 DEF ReturnWithoutRun, FreeLock
  <1>6. ASSUME NEW t \in Threads, StartRun(t)
       PROVE  Exclusion' /\ OneActiveRun'
    BY <1>6 DEF StartRun, InsertRun
  <1>7. ASSUME NEW t \in Threads, StartPreflightFailure(t)
       PROVE  Exclusion' /\ OneActiveRun'
    BY <1>7 DEF StartPreflightFailure, InsertRun
  <1>8. ASSUME NEW t \in Threads, FinishPreflightFailure(t)
       PROVE  Exclusion' /\ OneActiveRun'
    <2>1. /\ UNCHANGED <<runConn, lastRun>>
          /\ \A r \in RunIds : runStatus'[r] = "running" => runStatus[r] = "running"
          /\ \A r \in RunIds : runStatus[r] = "absent" => runStatus'[r] = "absent"
      BY <1>8 DEF FinishPreflightFailure, FinishRow
    <2>2. /\ UNCHANGED <<lock, target, run>>
          /\ pc[t] \in Owning /\ pc'[t] \in Owning
          /\ \A u \in Threads \ {t} : pc'[u] = pc[u]
      BY <1>8 DEF FinishPreflightFailure
    <2> QED
      BY <2>1, <2>2
  <1>9. ASSUME NEW t \in Threads, OpenRun(t)
       PROVE  Exclusion' /\ OneActiveRun'
    BY <1>9 DEF OpenRun
  <1>10. ASSUME NEW t \in Threads, FailOpening(t)
       PROVE  Exclusion' /\ OneActiveRun'
    BY <1>10 DEF FailOpening, FinishRow
  <1>11. ASSUME NEW t \in Threads, BeginDiscovery(t)
       PROVE  Exclusion' /\ OneActiveRun'
    BY <1>11 DEF BeginDiscovery
  <1>12. ASSUME NEW t \in Threads, DiscoverBatch(t)
       PROVE  Exclusion' /\ OneActiveRun'
    BY <1>12 DEF DiscoverBatch
  <1>13. ASSUME NEW t \in Threads, FinishDiscovery(t)
       PROVE  Exclusion' /\ OneActiveRun'
    BY <1>13 DEF FinishDiscovery
  <1>14. ASSUME NEW t \in Threads, CancelBeforeQueue(t)
       PROVE  Exclusion' /\ OneActiveRun'
    BY <1>14 DEF CancelBeforeQueue, CloseQueue, CloseUnfinished
  <1>15. ASSUME NEW t \in Threads, StartQueue(t)
       PROVE  Exclusion' /\ OneActiveRun'
    BY <1>15 DEF StartQueue
  <1>16. ASSUME NEW t \in Threads, CheckCancel(t)
       PROVE  Exclusion' /\ OneActiveRun'
    BY <1>16 DEF CheckCancel
  <1>17. ASSUME NEW t \in Threads, ClaimBatch(t)
       PROVE  Exclusion' /\ OneActiveRun'
    BY <1>17 DEF ClaimBatch, PendingFiles
  <1>18. ASSUME NEW t \in Threads, SubmitBatch(t)
       PROVE  Exclusion' /\ OneActiveRun'
    BY <1>18 DEF SubmitBatch
  <1>19. ASSUME NEW t \in Threads, RecordBatch(t)
       PROVE  Exclusion' /\ OneActiveRun'
    BY <1>19 DEF RecordBatch
  <1>20. ASSUME NEW t \in Threads, NextBatch(t)
       PROVE  Exclusion' /\ OneActiveRun'
    BY <1>20 DEF NextBatch
  <1>21. ASSUME NEW t \in Threads, TripCircuit(t)
       PROVE  Exclusion' /\ OneActiveRun'
    BY <1>21 DEF TripCircuit, CloseQueue, CloseUnfinished
  <1>22. ASSUME NEW t \in Threads, CancelRest(t)
       PROVE  Exclusion' /\ OneActiveRun'
    BY <1>22 DEF CancelRest, CloseQueue, CloseUnfinished
  <1>23. ASSUME NEW t \in Threads, FinishRun(t)
       PROVE  Exclusion' /\ OneActiveRun'
    BY <1>23 DEF FinishRun, FinishRow, RunStatusFromCounts
  <1>24. ASSUME NEW t \in Threads, ReturnExecution(t)
       PROVE  Exclusion' /\ OneActiveRun'
    BY <1>24 DEF ReturnExecution
  <1>25. ASSUME NEW t \in Threads, Raise(t)
       PROVE  Exclusion' /\ OneActiveRun'
    BY <1>25 DEF Raise, MayRaise
  <1>26. ASSUME NEW t \in Threads, FailQueue(t)
       PROVE  Exclusion' /\ OneActiveRun'
    BY <1>26 DEF FailQueue, CloseQueue, CloseUnfinished
  <1>27. ASSUME NEW t \in Threads, FailRun(t)
       PROVE  Exclusion' /\ OneActiveRun'
    <2>1. /\ UNCHANGED <<runConn, lastRun>>
          /\ \A r \in RunIds : runStatus'[r] = "running" => runStatus[r] = "running"
          /\ \A r \in RunIds : runStatus[r] = "absent" => runStatus'[r] = "absent"
      BY <1>27 DEF FailRun, FinishRow
    <2>2. /\ UNCHANGED <<lock, target, run>>
          /\ pc[t] \in Owning /\ pc'[t] \in Owning
          /\ \A u \in Threads \ {t} : pc'[u] = pc[u]
      BY <1>27 DEF FailRun
    <2> QED
      BY <2>1, <2>2
  <1>28. ASSUME NEW t \in Threads, Close(t)
       PROVE  Exclusion' /\ OneActiveRun'
    BY <1>28 DEF Close
  <1>29. ASSUME NEW t \in Threads, ReleaseLock(t)
       PROVE  Exclusion' /\ OneActiveRun'
    BY <1>29 DEF ReleaseLock, FreeLock
  <1>30. ASSUME NEW t \in Threads, NEW f \in Files, WorkerDone(t, f)
       PROVE  Exclusion' /\ OneActiveRun'
    BY <1>30 DEF WorkerDone
  <1>31. ASSUME NEW r \in RunIds, Cancel(r)
       PROVE  Exclusion' /\ OneActiveRun'
    BY <1>31 DEF Cancel
  <1>32. ASSUME NEW c \in Conns, SetEnabled(c)
       PROVE  Exclusion' /\ OneActiveRun'
    BY <1>32 DEF SetEnabled
  <1>33. ASSUME NEW c \in Conns, DeleteConnection(c)
       PROVE  Exclusion' /\ OneActiveRun'
    BY <1>33 DEF DeleteConnection, DeleteRuns
  <1>34. ASSUME NEW k \in RunIds, Purge(k)
       PROVE  Exclusion' /\ OneActiveRun'
    BY <1>34 DEF Purge, DeleteRuns
  <1>35. ASSUME Crash
       PROVE  Exclusion' /\ OneActiveRun'
    BY <1>35 DEF Crash
  <1>36. ASSUME Restart
       PROVE  Exclusion' /\ OneActiveRun'
    BY <1>36 DEF Restart, CloseUnfinished
  <1>37. ASSUME UNCHANGED vars
       PROVE  Exclusion' /\ OneActiveRun'
    BY <1>37 DEF vars
  <1> QED
    BY <1>1, <1>2, <1>3, <1>4, <1>5, <1>6, <1>7, <1>8, <1>9, <1>10, <1>11, <1>12, <1>13, <1>14, <1>15, <1>16, <1>17, <1>18, <1>19, <1>20, <1>21, <1>22, <1>23, <1>24, <1>25, <1>26, <1>27, <1>28, <1>29, <1>30, <1>31, <1>32, <1>33, <1>34, <1>35, <1>36, <1>37
    DEF Next, ThreadStep, Environment

(* The invariant holds throughout: what the theorems below and those of the
   queue start from. *)
LEMMA Invariance == Spec => []Inv
  BY InitInv, InvStep, PTL DEF Spec

(* A connection never has two running rows, for any number of callers: the lock
   alone does not suffice, since a crash frees it and keeps the row. *)
THEOREM OneRunPerConnection == Spec => []OneActiveRun
  <1>1. Inv => OneActiveRun
    BY DEF Inv
  <1> QED
    BY <1>1, Invariance, PTL

(* Whatever the coordinator raised, its download workers run under the lock of
   their connection until the last one has ended. *)
THEOREM WorkersUnderLock == Spec => []EnginesUnderLock
  <1>1. Inv => EnginesUnderLock
    BY DEF Inv, Typed, Owners, Exclusion, EnginesUnderLock, EngineStages
  <1> QED
    BY <1>1, Invariance, PTL
-----------------------------------------------------------------------------
(* A thread within its execution, whose only change to the rows is the one of
   the files: whether its connection exists and which run it owns stay. *)
LEMMA ThreadMoves ==
    ASSUME Typed, NEW t \in Threads,
           \/ BeginDiscovery(t) \/ DiscoverBatch(t) \/ FinishDiscovery(t)
           \/ CancelBeforeQueue(t) \/ StartQueue(t) \/ CheckCancel(t) \/ ClaimBatch(t)
           \/ SubmitBatch(t) \/ RecordBatch(t) \/ NextBatch(t) \/ TripCircuit(t)
           \/ CancelRest(t) \/ Raise(t)
    PROVE  /\ UNCHANGED <<conn, runConn, runStatus, lastRun, up, lock, event, progress, target, run>>
           /\ pc[t] \in Owning
           /\ pc'[t] \in Owning \ {"preflight", "opening", "opened", "finished", "closing", "release"}
           /\ pc' = [pc EXCEPT ![t] = pc'[t]]
  <1> USE DEF Goto, Owning, rowVars, sharedVars, localVars, Typed, TypeOK
  <1>1. CASE BeginDiscovery(t) \/ FinishDiscovery(t) \/ StartQueue(t) \/ CheckCancel(t)
               \/ SubmitBatch(t) \/ NextBatch(t)
    BY <1>1 DEF BeginDiscovery, FinishDiscovery, StartQueue, CheckCancel, SubmitBatch, NextBatch
  <1>2. CASE DiscoverBatch(t)
    BY <1>2 DEF DiscoverBatch
  <1>3. CASE CancelBeforeQueue(t) \/ TripCircuit(t) \/ CancelRest(t)
    BY <1>3 DEF CancelBeforeQueue, TripCircuit, CancelRest, CloseQueue
  <1>4. CASE ClaimBatch(t)
    BY <1>4 DEF ClaimBatch
  <1>5. CASE RecordBatch(t)
    BY <1>5 DEF RecordBatch
  <1>6. CASE Raise(t)
    BY <1>6 DEF Raise, MayRaise
  <1> QED
    BY <1>1, <1>2, <1>3, <1>4, <1>5, <1>6

(* Nobody begins or goes on with a connection that is deleted: a deletion needs
   its lock, and a reservation looks at the row under the lock. *)
LEMMA DeletedStep == Inv /\ DeletedIsQuiet /\ [Next]_vars => DeletedIsQuiet'
  <1> SUFFICES ASSUME Inv, DeletedIsQuiet, [Next]_vars PROVE DeletedIsQuiet'
    OBVIOUS
  <1> DEFINE Busy == Reserved \cup Owning
  <1>i. Typed /\ "idle" \notin Busy /\ "locked" \notin Busy
    BY DEF Inv, Reserved, Owning
  <1>g. ASSUME conn' = conn,
               \A t \in Threads : pc'[t] \in Busy => pc[t] \in Busy /\ target'[t] = target[t]
        PROVE  DeletedIsQuiet'
    BY <1>g DEF DeletedIsQuiet
  <1>1. ASSUME NEW t \in Threads, NEW c \in Conns, AcquireLock(t, c)
        PROVE  DeletedIsQuiet'
    BY <1>1, <1>i, <1>g DEF AcquireLock, Goto, rowVars, Typed, TypeOK
  <1>2. ASSUME NEW t \in Threads, PassChecks(t) \/ PassDryRunChecks(t)
        PROVE  DeletedIsQuiet'
    BY <1>2, <1>i DEF PassChecks, PassDryRunChecks, Goto, rowVars, localVars, Typed, TypeOK,
                      Owners, DeletedIsQuiet
  <1>3. ASSUME NEW t \in Threads,
               RefuseReservation(t) \/ ReturnWithoutRun(t) \/ ReleaseLock(t)
        PROVE  DeletedIsQuiet'
    <2>1. FreeLock(t)
      BY <1>3 DEF RefuseReservation, ReturnWithoutRun, ReleaseLock
    <2> QED
      BY <2>1, <1>i, <1>g DEF FreeLock, Goto, rowVars, Typed, TypeOK
  <1>4. ASSUME NEW t \in Threads, StartRun(t) \/ StartPreflightFailure(t)
        PROVE  DeletedIsQuiet'
    <2>1. PICK stage \in {"opening", "preflight"} : InsertRun(t, stage)
      BY <1>4 DEF StartRun, StartPreflightFailure
    <2>2. pc[t] \in Busy /\ conn' = conn /\ target' = target /\ pc' = [pc EXCEPT ![t] = stage]
      BY <2>1 DEF InsertRun, Goto, Reserved
    <2> QED
      BY <2>2, <1>i, <1>g DEF Typed, TypeOK
  <1>5. ASSUME NEW t \in Threads,
               \/ FinishPreflightFailure(t) \/ FailOpening(t) \/ FinishRun(t)
               \/ OpenRun(t) \/ ReturnExecution(t) \/ FailQueue(t) \/ FailRun(t) \/ Close(t)
        PROVE  DeletedIsQuiet'
    <2>1. pc[t] \in Owning
      BY <1>5 DEF FinishPreflightFailure, FailOpening, FinishRun, OpenRun, ReturnExecution,
                  FailQueue, FailRun, Close, Owning
    <2>2. conn' = conn /\ target' = target
      BY <1>5 DEF FinishPreflightFailure, FailOpening, FinishRun, OpenRun, ReturnExecution,
                  FailQueue, FailRun, Close, FinishRow, CloseQueue, rowVars, localVars
    <2>3. \A u \in Threads \ {t} : pc'[u] = pc[u]
      BY <1>5, <1>i DEF FinishPreflightFailure, FailOpening, FinishRun, OpenRun, ReturnExecution,
                  FailQueue, FailRun, Close, Goto, Typed, TypeOK
    <2> QED
      BY <2>1, <2>2, <2>3, <1>g
  <1>6. ASSUME NEW t \in Threads,
               \/ BeginDiscovery(t) \/ DiscoverBatch(t) \/ FinishDiscovery(t)
               \/ CancelBeforeQueue(t) \/ StartQueue(t) \/ CheckCancel(t) \/ ClaimBatch(t)
               \/ SubmitBatch(t) \/ RecordBatch(t) \/ NextBatch(t) \/ TripCircuit(t)
               \/ CancelRest(t) \/ Raise(t)
        PROVE  DeletedIsQuiet'
    <2>1. conn' = conn /\ target' = target /\ pc[t] \in Owning /\ pc' = [pc EXCEPT ![t] = pc'[t]]
      BY <1>6, <1>i, ThreadMoves
    <2>2. \A u \in Threads \ {t} : pc'[u] = pc[u]
      BY <2>1, <1>i DEF Typed, TypeOK
    <2> QED
      BY <2>1, <2>2, <1>g
  <1>7. ASSUME NEW c \in Conns, DeleteConnection(c)
        PROVE  DeletedIsQuiet'
    <2>1. \A t \in Threads : pc[t] # "idle" => target[t] # c
      BY <1>7, ConstantsAssumption DEF DeleteConnection, Inv, Exclusion
    <2>2. UNCHANGED <<pc, target>> /\ \A d \in Conns : d # c => conn'[d] = conn[d]
      BY <1>7, <1>i DEF DeleteConnection, localVars, Typed, TypeOK
    <2> QED
      BY <2>1, <2>2, <1>i DEF DeletedIsQuiet
  <1>8. ASSUME NEW c \in Conns, SetEnabled(c)
        PROVE  DeletedIsQuiet'
    BY <1>8, <1>i DEF SetEnabled, localVars, Typed, TypeOK, DeletedIsQuiet
  <1>9. CASE \/ \E r \in RunIds : Cancel(r)
             \/ \E k \in RunIds : Purge(k)
             \/ \E t \in Threads, f \in Files : WorkerDone(t, f)
             \/ Restart \/ UNCHANGED vars
    <2>1. UNCHANGED <<conn, pc, target>>
      BY <1>9 DEF Cancel, Purge, WorkerDone, Restart, vars, rowVars, localVars
    <2> QED
      BY <2>1, <1>g
  <1>10. CASE Crash
    BY <1>10, <1>i, <1>g DEF Crash, rowVars
  <1> QED
    BY <1>1, <1>2, <1>3, <1>4, <1>5, <1>6, <1>7, <1>8, <1>9, <1>10
    DEF Next, ThreadStep, Environment

(* A connection can be deleted only while no thread plans or executes it: the
   DELETE, like every execution, is made under the lock of the connection. *)
THEOREM OnlyIdleDeleted == Spec => []DeletedIsQuiet
  <1>1. Init => DeletedIsQuiet
    BY DEF Init, DeletedIsQuiet
  <1> QED
    BY <1>1, DeletedStep, Invariance, PTL DEF Spec

-----------------------------------------------------------------------------
(* What the stages of a thread say of its row, event and entry: when it comes
   to give up the ownership of its run, nothing marks the run as active. *)
Handed ==
    /\ ~up => /\ progress = {}
              /\ \A r \in RunIds : event[r] = "absent"
              /\ \A t \in Threads : pc[t] = "idle"
    /\ \A t \in Threads :
         /\ pc[t] \in {"preflight", "opening", "opened"} => runStatus[run[t]] = "running"
         /\ pc[t] \in {"preflight", "release"} => event[run[t]] = "absent" /\ run[t] \notin progress
         /\ pc[t] \in {"finished", "closing", "release"} => runStatus[run[t]] # "running"

(* A run has one owner. *)
LEMMA OneOwner ==
    ASSUME Inv, NEW t \in Threads, NEW u \in Threads, pc[t] \in Owning, pc[u] \in Owning,
           run[t] = run[u]
    PROVE  t = u
  BY DEF Inv, Exclusion, Owning

(* A step of the owner of a run, which touches the marks of that run only. *)
LEMMA OwnerActs ==
    ASSUME Inv, NothingLeaks, Handed, NEW t \in Threads,
           pc[t] \in Owning, pc'[t] \in Owning, UNCHANGED <<run, up>>,
           \A u \in Threads \ {t} : pc'[u] = pc[u],
           \A r \in RunIds \ {run[t]} :
               /\ runStatus'[r] = runStatus[r] /\ event'[r] = event[r]
               /\ r \in progress' <=> r \in progress,
           pc'[t] \in {"preflight", "opening", "opened"} => runStatus'[run[t]] = "running",
           pc'[t] \in {"preflight", "release"} =>
               event'[run[t]] = "absent" /\ run[t] \notin progress',
           pc'[t] \in {"finished", "closing", "release"} => runStatus'[run[t]] # "running"
    PROVE  NothingLeaks' /\ Handed'
  <1>1. up
    BY DEF Handed, Owning
  <1>2. \A u \in Threads : pc[u] \in Owning => run[u] \in RunIds
    BY ConstantsAssumption DEF Inv, Typed, Owners, TypeOK, RunIds
  <1>3. \A u \in Threads \ {t} : pc[u] \in Owning => run[u] \in RunIds \ {run[t]}
    BY <1>2, OneOwner
  <1>4. NothingLeaks'
    <2> SUFFICES ASSUME NEW r \in RunIds,
                        runStatus'[r] = "running" \/ event'[r] # "absent" \/ r \in progress'
                 PROVE  \E u \in Threads : pc'[u] \in Owning /\ run'[u] = r
      BY DEF NothingLeaks
    <2>1. CASE r = run[t]
      BY <2>1
    <2>2. CASE r # run[t]
      <3>1. PICK u \in Threads : pc[u] \in Owning /\ run[u] = r
        BY <1>1, <2>2 DEF NothingLeaks
      <3> QED
        BY <2>2, <3>1
    <2> QED
      BY <2>1, <2>2
  <1>5. Handed'
    <2>1. \A u \in Threads \ {t} :
            /\ pc'[u] \in {"preflight", "opening", "opened"} => runStatus'[run'[u]] = "running"
            /\ pc'[u] \in {"preflight", "release"} =>
                 event'[run'[u]] = "absent" /\ run'[u] \notin progress'
            /\ pc'[u] \in {"finished", "closing", "release"} => runStatus'[run'[u]] # "running"
      BY <1>3 DEF Handed, Owning
    <2> QED
      BY <1>1, <2>1 DEF Handed
  <1> QED
    BY <1>4, <1>5

(* A step of a thread that owns no run before or after it. *)
LEMMA StrangerActs ==
    ASSUME Inv, NothingLeaks, Handed, NEW t \in Threads, up, up' = up,
           pc[t] \notin Owning, pc'[t] \notin Owning,
           \A u \in Threads \ {t} : pc'[u] = pc[u] /\ run'[u] = run[u],
           UNCHANGED <<runStatus, event, progress>>
    PROVE  NothingLeaks' /\ Handed'
  <1>1. NothingLeaks'
    BY DEF NothingLeaks
  <1>2. Handed'
    BY DEF Handed, Owning
  <1> QED
    BY <1>1, <1>2

LEMMA HandedStep ==
    ASSUME Inv, NothingLeaks, Handed, ~AllowDbFailure, [Next]_vars
    PROVE  NothingLeaks' /\ Handed'
  <1>i. Typed /\ ConstantsAssumption
    BY ConstantsAssumption DEF Inv
  <1>o. \A t \in Threads : pc[t] \in Owning => run[t] \in RunIds /\ run[t] \in 1..lastRun
    BY <1>i DEF Typed, Owners, TypeOK, RunIds
  <1>u. \A t \in Threads : pc[t] # "idle" => up
    BY DEF Handed
  <1>1. ASSUME NEW t \in Threads, NEW c \in Conns, AcquireLock(t, c)
        PROVE  NothingLeaks' /\ Handed'
    <2>1. /\ up /\ up' = up /\ pc[t] \notin Owning /\ pc'[t] \notin Owning
          /\ \A u \in Threads \ {t} : pc'[u] = pc[u] /\ run'[u] = run[u]
          /\ UNCHANGED <<runStatus, event, progress>>
      BY <1>1, <1>i DEF AcquireLock, Goto, Owning, rowVars, Typed, TypeOK
    <2> QED
      BY <2>1, StrangerActs
  <1>2. ASSUME NEW t \in Threads, PassChecks(t) \/ PassDryRunChecks(t)
        PROVE  NothingLeaks' /\ Handed'
    <2>1. /\ up' = up /\ pc[t] = "locked" /\ pc'[t] \notin Owning
          /\ \A u \in Threads \ {t} : pc'[u] = pc[u] /\ run'[u] = run[u]
          /\ UNCHANGED <<runStatus, event, progress>>
      BY <1>2, <1>i DEF PassChecks, PassDryRunChecks, Goto, Owning, rowVars, sharedVars,
                        localVars, Typed, TypeOK
    <2> QED
      BY <2>1, <1>u, StrangerActs DEF Owning
  <1>3. ASSUME NEW t \in Threads, RefuseReservation(t) \/ ReturnWithoutRun(t)
        PROVE  NothingLeaks' /\ Handed'
    <2>1. /\ up' = up /\ pc[t] \in {"locked", "reserved", "dryrun"} /\ pc'[t] \notin Owning
          /\ \A u \in Threads \ {t} : pc'[u] = pc[u] /\ run'[u] = run[u]
          /\ UNCHANGED <<runStatus, event, progress>>
      BY <1>3, <1>i DEF RefuseReservation, ReturnWithoutRun, FreeLock, Goto, Owning, Reserved,
                        rowVars, Typed, TypeOK
    <2> QED
      BY <2>1, <1>u, StrangerActs DEF Owning
  <1>4. ASSUME NEW t \in Threads, ReleaseLock(t)
        PROVE  NothingLeaks' /\ Handed'
    <2>1. /\ pc[t] = "release" /\ pc'[t] = "idle" /\ up' = up
          /\ \A u \in Threads \ {t} : pc'[u] = pc[u] /\ run'[u] = run[u]
          /\ UNCHANGED <<runStatus, event, progress>>
      BY <1>4, <1>i DEF ReleaseLock, FreeLock, Goto, rowVars, Typed, TypeOK
    <2>2. /\ up /\ runStatus[run[t]] # "running" /\ event[run[t]] = "absent"
          /\ run[t] \notin progress
      BY <2>1, <1>u DEF Handed
    <2>3. NothingLeaks'
      BY <2>1, <2>2 DEF NothingLeaks
    <2>4. Handed'
      BY <2>1, <2>2 DEF Handed
    <2> QED
      BY <2>3, <2>4
  <1>5. ASSUME NEW t \in Threads, StartRun(t) \/ StartPreflightFailure(t)
        PROVE  NothingLeaks' /\ Handed'
    <2>1. PICK stage \in {"opening", "preflight"} : InsertRun(t, stage)
      BY <1>5 DEF StartRun, StartPreflightFailure
    <2> DEFINE new == lastRun + 1
    <2>2. /\ pc[t] = "reserved" /\ pc'[t] = stage /\ run'[t] = new /\ new \in RunIds
          /\ \A u \in Threads \ {t} : pc'[u] = pc[u] /\ run'[u] = run[u]
          /\ runStatus'[new] = "running"
          /\ \A r \in RunIds \ {new} : runStatus'[r] = runStatus[r]
          /\ UNCHANGED <<event, progress, up>>
      BY <2>1, <1>i DEF InsertRun, Goto, RunIds, sharedVars, Typed, TypeOK
    <2>3. \A u \in Threads : pc[u] \in Owning => run[u] \in RunIds \ {new}
      BY <1>o, <1>i DEF Typed, TypeOK
    <2>4. up /\ event[new] = "absent" /\ new \notin progress
      BY <1>u, <2>2, <2>3 DEF NothingLeaks
    <2>5. \A u \in Threads \ {t} :
            /\ pc'[u] \in {"preflight", "opening", "opened"} => runStatus'[run'[u]] = "running"
            /\ pc'[u] \in {"preflight", "release"} =>
                 event'[run'[u]] = "absent" /\ run'[u] \notin progress'
            /\ pc'[u] \in {"finished", "closing", "release"} => runStatus'[run'[u]] # "running"
      BY <2>2, <2>3 DEF Handed, Owning
    <2> HIDE DEF new
    <2>6. Handed'
      BY <2>2, <2>4, <2>5 DEF Handed
    <2>7. NothingLeaks'
      <3> SUFFICES ASSUME NEW r \in RunIds,
                          runStatus'[r] = "running" \/ event'[r] # "absent" \/ r \in progress'
                   PROVE  \E u \in Threads : pc'[u] \in Owning /\ run'[u] = r
        BY DEF NothingLeaks
      <3>1. CASE r = new
        BY <2>2, <3>1 DEF Owning
      <3>2. CASE r # new
        <4>1. PICK u \in Threads : pc[u] \in Owning /\ run[u] = r
          BY <2>2, <2>4, <3>2 DEF NothingLeaks
        <4>2. u # t
          BY <2>2, <4>1 DEF Owning
        <4> QED
          BY <2>2, <4>1, <4>2
      <3> QED
        BY <3>1, <3>2
    <2> QED
      BY <2>6, <2>7
  <1>6. ASSUME NEW t \in Threads,
               \/ BeginDiscovery(t) \/ DiscoverBatch(t) \/ FinishDiscovery(t)
               \/ CancelBeforeQueue(t) \/ StartQueue(t) \/ CheckCancel(t) \/ ClaimBatch(t)
               \/ SubmitBatch(t) \/ RecordBatch(t) \/ NextBatch(t) \/ TripCircuit(t)
               \/ CancelRest(t) \/ Raise(t)
        PROVE  NothingLeaks' /\ Handed'
    <2>1. /\ UNCHANGED <<runStatus, up, event, progress, run>>
          /\ pc[t] \in Owning
          /\ pc'[t] \in Owning \ {"preflight", "opening", "opened", "finished", "closing", "release"}
          /\ pc' = [pc EXCEPT ![t] = pc'[t]]
      BY <1>6, <1>i, ThreadMoves
    <2>2. \A u \in Threads \ {t} : pc'[u] = pc[u]
      BY <2>1, <1>i DEF Typed, TypeOK
    <2> QED
      BY <2>1, <2>2, OwnerActs
  <1>7. ASSUME NEW t \in Threads, FinishPreflightFailure(t)
        PROVE  NothingLeaks' /\ Handed'
    <2>1. /\ pc[t] = "preflight" /\ pc'[t] = "release" /\ UNCHANGED <<run, up, event, progress>>
          /\ \A u \in Threads \ {t} : pc'[u] = pc[u]
      BY <1>7, <1>i DEF FinishPreflightFailure, Goto, sharedVars, localVars, Typed, TypeOK
    <2>2. FinishRow(t, "failed")
      BY <1>7, <2>1 DEF FinishPreflightFailure, FinishRaises, Handed
    <2>3. runStatus' = [runStatus EXCEPT ![run[t]] = "failed"]
      BY <2>2 DEF FinishRow
    <2>4. /\ runStatus'[run[t]] = "failed"
          /\ \A r \in RunIds \ {run[t]} : runStatus'[r] = runStatus[r]
      BY <2>1, <2>3, <1>i, <1>o DEF Typed, TypeOK, Owning
    <2>5. event[run[t]] = "absent" /\ run[t] \notin progress
      BY <2>1 DEF Handed
    <2> QED
      BY <2>1, <2>4, <2>5, OwnerActs DEF Owning
  <1>8. ASSUME NEW t \in Threads, OpenRun(t)
        PROVE  NothingLeaks' /\ Handed'
    <2>1. /\ pc[t] = "opening" /\ pc'[t] = "opened" /\ UNCHANGED <<run, up, runStatus>>
          /\ \A u \in Threads \ {t} : pc'[u] = pc[u]
          /\ \A r \in RunIds \ {run[t]} : event'[r] = event[r] /\ (r \in progress' <=> r \in progress)
      BY <1>8, <1>i, <1>o DEF OpenRun, Goto, rowVars, localVars, Typed, TypeOK
    <2>2. runStatus[run[t]] = "running"
      BY <2>1 DEF Handed
    <2> QED
      BY <2>1, <2>2, OwnerActs DEF Owning
  <1>9. ASSUME NEW t \in Threads, FailOpening(t)
        PROVE  NothingLeaks' /\ Handed'
    <2>1. /\ pc[t] \in {"opening", "opened"} /\ pc'[t] = "release" /\ UNCHANGED <<run, up>>
          /\ \A u \in Threads \ {t} : pc'[u] = pc[u]
      BY <1>9, <1>i DEF FailOpening, Goto, localVars, Typed, TypeOK
    <2>2. /\ FinishRow(t, "failed") /\ progress' = progress \ {run[t]}
          /\ event' = [event EXCEPT ![run[t]] = "absent"]
      BY <1>9, <2>1 DEF FailOpening, FinishRaises, Handed
    <2>3. runStatus' = [runStatus EXCEPT ![run[t]] = "failed"]
      BY <2>2 DEF FinishRow
    <2>4. /\ runStatus'[run[t]] = "failed" /\ event'[run[t]] = "absent"
          /\ \A r \in RunIds \ {run[t]} :
                runStatus'[r] = runStatus[r] /\ event'[r] = event[r]
      BY <2>1, <2>2, <2>3, <1>i, <1>o DEF Typed, TypeOK, Owning
    <2> QED
      BY <2>1, <2>2, <2>4, OwnerActs DEF Owning
  <1>10. ASSUME NEW t \in Threads, FinishRun(t)
         PROVE  NothingLeaks' /\ Handed'
    <2> DEFINE status == RunStatusFromCounts(tally[t], CancelRequested(t))
    <2>1. /\ pc[t] = "verdict" /\ pc'[t] = "finished" /\ UNCHANGED <<run, up, event, progress>>
          /\ \A u \in Threads \ {t} : pc'[u] = pc[u]
          /\ runStatus' = [runStatus EXCEPT ![run[t]] = status]
      BY <1>10, <1>i DEF FinishRun, FinishRow, Goto, sharedVars, localVars, Typed, TypeOK
    <2>2. status # "running"
      BY DEF RunStatusFromCounts
    <2> HIDE DEF status
    <2>3. /\ runStatus'[run[t]] = status
          /\ \A r \in RunIds \ {run[t]} : runStatus'[r] = runStatus[r]
      BY <2>1, <1>i, <1>o DEF Typed, TypeOK, Owning
    <2> QED
      BY <2>1, <2>2, <2>3, OwnerActs DEF Owning
  <1>11. ASSUME NEW t \in Threads, ReturnExecution(t) \/ FailQueue(t)
         PROVE  NothingLeaks' /\ Handed'
    <2>1. /\ UNCHANGED <<run, up, event, progress, runStatus>>
          /\ \A u \in Threads \ {t} : pc'[u] = pc[u]
          /\ \/ pc[t] = "finished" /\ pc'[t] = "closing"
             \/ pc[t] = "failing" /\ pc'[t] = "failing2"
      BY <1>11, <1>i DEF ReturnExecution, FailQueue, CloseQueue, Goto, rowVars, sharedVars,
                         localVars, Typed, TypeOK
    <2>2. pc[t] = "finished" => runStatus[run[t]] # "running"
      BY DEF Handed
    <2> QED
      BY <2>1, <2>2, OwnerActs DEF Owning
  <1>12. ASSUME NEW t \in Threads, FailRun(t)
         PROVE  NothingLeaks' /\ Handed'
    <2>1. /\ pc[t] = "failing2" /\ pc'[t] = "closing" /\ UNCHANGED <<run, up, event, progress>>
          /\ \A u \in Threads \ {t} : pc'[u] = pc[u]
      BY <1>12, <1>i DEF FailRun, Goto, sharedVars, localVars, Typed, TypeOK
    <2>2. \/ runStatus' = [runStatus EXCEPT ![run[t]] = "failed"]
          \/ runStatus' = runStatus /\ runStatus[run[t]] = "absent"
      BY <1>12 DEF FailRun, FinishRow, FinishRaises, rowVars
    <2>3. /\ runStatus'[run[t]] # "running"
          /\ \A r \in RunIds \ {run[t]} : runStatus'[r] = runStatus[r]
      BY <2>1, <2>2, <1>i, <1>o DEF Typed, TypeOK, Owning
    <2> QED
      BY <2>1, <2>3, OwnerActs DEF Owning
  <1>13. ASSUME NEW t \in Threads, Close(t)
         PROVE  NothingLeaks' /\ Handed'
    <2>1. /\ pc[t] = "closing" /\ pc'[t] = "release" /\ UNCHANGED <<run, up, runStatus>>
          /\ \A u \in Threads \ {t} : pc'[u] = pc[u]
          /\ event'[run[t]] = "absent" /\ progress' = progress \ {run[t]}
          /\ \A r \in RunIds \ {run[t]} : event'[r] = event[r]
      BY <1>13, <1>i, <1>o DEF Close, Goto, Owning, rowVars, localVars, Typed, TypeOK
    <2>2. runStatus[run[t]] # "running"
      BY <2>1 DEF Handed
    <2> QED
      BY <2>1, <2>2, OwnerActs DEF Owning
  <1>14. ASSUME NEW r \in RunIds, Cancel(r)
         PROVE  NothingLeaks' /\ Handed'
    <2>1. event[r] = "clear" /\ event' = [event EXCEPT ![r] = "set"]
          /\ UNCHANGED <<runStatus, progress, pc, run, up>>
      BY <1>14 DEF Cancel, rowVars, localVars
    <2>2. \A s \in RunIds : event'[s] # "absent" <=> event[s] # "absent"
      BY <2>1, <1>i DEF Typed, TypeOK
    <2>3. NothingLeaks'
      BY <2>1, <2>2 DEF NothingLeaks
    <2>4. Handed'
      BY <2>1, <2>2, <1>o DEF Handed, Owning
    <2> QED
      BY <2>3, <2>4
  <1>15. ASSUME NEW c \in Conns, DeleteConnection(c)
         PROVE  NothingLeaks' /\ Handed'
    <2>1. UNCHANGED <<event, progress, pc, run, up>>
          /\ \A r \in RunIds : /\ runStatus'[r] \in {"absent", runStatus[r]}
                               /\ runStatus[r] = "running" => runStatus'[r] = "running"
      BY <1>15 DEF DeleteConnection, HasActiveRun, DeleteRuns, RunsOf, sharedVars, localVars
    <2>2. NothingLeaks'
      BY <2>1 DEF NothingLeaks
    <2>3. Handed'
      BY <2>1, <1>o DEF Handed, Owning
    <2> QED
      BY <2>2, <2>3
  <1>16. ASSUME NEW k \in RunIds, Purge(k)
         PROVE  NothingLeaks' /\ Handed'
    <2>1. UNCHANGED <<event, progress, pc, run, up>>
          /\ \A r \in RunIds : /\ runStatus'[r] \in {"absent", runStatus[r]}
                               /\ r > k => runStatus'[r] = runStatus[r]
          /\ \A t \in Threads : pc[t] \in {"preflight", "opening", "opened"} => run[t] > k
      BY <1>16 DEF Purge, DeleteRuns, sharedVars, localVars, RunIds
    <2>2. NothingLeaks'
      BY <2>1 DEF NothingLeaks
    <2>3. Handed'
      BY <2>1, <1>o DEF Handed, Owning
    <2> QED
      BY <2>2, <2>3
  <1>17. CASE Crash
    BY <1>17 DEF Crash, NothingLeaks, Handed
  <1>18. CASE Restart
    <2>1. /\ ~up /\ UNCHANGED <<event, progress, pc, run>>
          /\ \A r \in RunIds : runStatus'[r] # "running"
      BY <1>18 DEF Restart, localVars
    <2> QED
      BY <2>1 DEF NothingLeaks, Handed
  <1>19. CASE \/ \E c \in Conns : SetEnabled(c)
              \/ \E t \in Threads, f \in Files : WorkerDone(t, f)
              \/ UNCHANGED vars
    <2>1. UNCHANGED <<runStatus, event, progress, pc, run, up>>
      BY <1>19 DEF SetEnabled, WorkerDone, vars, rowVars, sharedVars, localVars
    <2> QED
      BY <2>1 DEF NothingLeaks, Handed
  <1> QED
    BY <1>1, <1>2, <1>3, <1>4, <1>5, <1>6, <1>7, <1>8, <1>9, <1>10, <1>11, <1>12, <1>13,
       <1>14, <1>15, <1>16, <1>17, <1>18, <1>19
    DEF Next, ThreadStep, Environment

(* When the database does not fail inside an error handler, whatever marks a
   run as active belongs to the thread that owns it. *)
THEOREM OwnersHoldMarks == ~AllowDbFailure /\ Spec => []NothingLeaks
  <1> SUFFICES ASSUME ~AllowDbFailure PROVE Spec => []NothingLeaks
    OBVIOUS
  <1>1. Init => NothingLeaks /\ Handed
    BY DEF Init, NothingLeaks, Handed
  <1>2. Inv /\ NothingLeaks /\ Handed /\ [Next]_vars => NothingLeaks' /\ Handed'
    BY HandedStep
  <1> QED
    BY <1>1, <1>2, Invariance, PTL DEF Spec

-----------------------------------------------------------------------------
(* THE QUEUE OF A RUN and the deletion of its connection.  Since two owning
   threads never share a run, each stage of the code leaves the rows of its
   own run as the next stage expects them. *)

(* Rows that nobody has claimed since the run began or since the last batch
   was recorded. *)
Unclaimed == {"discovering", "listed", "queue", "claim", "recorded"}

(* What a stage knows of the rows of its run. *)
StageFacts(t) ==
    LET rows == fileStatus[run[t]] IN
    /\ pc[t] \in {"preflight", "opening", "opened"} =>
         \A f \in Files : rows[f] \notin Unfinished
    /\ pc[t] \in Unclaimed =>
         \A f \in Files : rows[f] # "downloading"
    /\ pc[t] \in {"claimed", "batch"} =>
         \A f \in Files :
            rows[f] = "downloading" => f \in working[t] \/ outcome[t][f] # "none"
    /\ pc[t] = "drained" =>
         event[run[t]] = "set" \/ \A f \in Files : rows[f] \notin Unfinished
    /\ pc[t] \in {"verdict", "failing2"} =>
         \A f \in Files : rows[f] \notin Unfinished

(* A run that does not exist has no files. *)
NoOrphanFiles ==
    \A r \in RunIds : runStatus[r] = "absent" => fileStatus[r] = NoOutcome

QueueInv ==
    /\ \A t \in Threads : pc[t] \in Owning => StageFacts(t)
    /\ NoOrphanFiles
    /\ QueueClosed

-----------------------------------------------------------------------------
(* Owning threads hold the locks of different connections, so their runs
   differ. *)
LEMMA OwnersDiffer ==
    ASSUME Inv, NEW t \in Threads, NEW u \in Threads, t # u,
           pc[t] \in Owning, pc[u] \in Owning
    PROVE  run[t] # run[u]
  <1>1. pc[t] # "idle" /\ pc[u] # "idle"
    BY DEF Owning
  <1>2. lock[target[t]] = t /\ lock[target[u]] = u
    BY <1>1 DEF Inv, Exclusion
  <1>3. runConn[run[t]] = target[t] /\ runConn[run[u]] = target[u]
    BY DEF Inv, Exclusion
  <1> QED
    BY <1>2, <1>3

(* The one statement that closes a queue leaves nothing open in it and nothing
   changed elsewhere. *)
LEMMA ClosedQueue ==
    ASSUME TypeOK, NEW t \in Threads, run[t] \in RunIds,
           NEW status \in {"cancelled", "failed"}, CloseQueue(t, status)
    PROVE  /\ UNCHANGED <<runStatus, lastRun>>
           /\ \A r \in RunIds : r # run[t] => fileStatus'[r] = fileStatus[r]
           /\ \A f \in Files : fileStatus'[run[t]][f] \notin Unfinished
           /\ fileStatus[run[t]] = NoOutcome => fileStatus'[run[t]] = NoOutcome
  BY DEF TypeOK, CloseQueue, CloseUnfinished, RunIds, Unfinished, NoOutcome

(* A thread that acts on the rows of its own run leaves the stages of the
   others as they are. *)
LEMMA OthersKeepTheirStage ==
    ASSUME Inv, NEW t \in Threads, NEW u \in Threads, t # u,
           pc[t] \in Owning, pc[u] \in Owning, StageFacts(u),
           \A r \in RunIds : r # run[t] => fileStatus'[r] = fileStatus[r],
           pc'[u] = pc[u], UNCHANGED run, outcome'[u] = outcome[u],
           working'[u] = working[u], UNCHANGED event
    PROVE  StageFacts(u)'
  <1>1. run[u] # run[t]
    BY OwnersDiffer
  <1>2. run[u] \in RunIds
    BY DEF Inv, Typed, TypeOK, Owners, RunIds
  <1>3. fileStatus'[run'[u]] = fileStatus[run[u]] /\ event'[run'[u]] = event[run[u]]
    BY <1>1, <1>2
  <1> QED
    BY <1>3 DEF StageFacts

(* At the start there are no rows and no owners. *)
LEMMA QueueInit == Init => QueueInv
  BY DEF Init, QueueInv, QueueClosed, NoOrphanFiles, Owning, RunIds, Terminal

(* Every step of the code keeps the queue as its stage expects it. *)
LEMMA QueueStep == Inv /\ QueueInv /\ [Next]_vars => QueueInv'
  <1> SUFFICES ASSUME Inv, QueueInv, [Next]_vars PROVE QueueInv'
    OBVIOUS
  <1>a. TypeOK /\ Owners
    BY DEF Inv, Typed
  <1>b. \A t, u \in Threads :
          t # u /\ pc[t] \in Owning /\ pc[u] \in Owning => run[t] # run[u]
    BY OwnersDiffer
  <1>c. \A r \in RunIds : r > lastRun => runStatus[r] = "absent"
    BY DEF Inv, Exclusion
  <1> USE <1>a, <1>b, <1>c, ConstantsAssumption
      DEF QueueInv, StageFacts, NoOrphanFiles, QueueClosed, Unclaimed, TypeOK,
          Owners, RunIds, Stages, Owning, Reserving, Reserved, Terminal,
          Unfinished, Outcomes, NoOutcome, Goto, rowVars, sharedVars, localVars
  <1>1. ASSUME NEW t \in Threads, NEW c \in Conns, AcquireLock(t, c)
       PROVE  QueueInv'
    BY <1>1 DEF AcquireLock
  <1>2. ASSUME NEW t \in Threads, PassChecks(t)
       PROVE  QueueInv'
    BY <1>2 DEF PassChecks
  <1>3. ASSUME NEW t \in Threads, PassDryRunChecks(t)
       PROVE  QueueInv'
    BY <1>3 DEF PassDryRunChecks
  <1>4. ASSUME NEW t \in Threads, RefuseReservation(t)
       PROVE  QueueInv'
    BY <1>4 DEF RefuseReservation, FreeLock
  <1>5. ASSUME NEW t \in Threads, ReturnWithoutRun(t)
       PROVE  QueueInv'
    BY <1>5 DEF ReturnWithoutRun, FreeLock
  <1>6. ASSUME NEW t \in Threads, StartRun(t)
       PROVE  QueueInv'
    BY <1>6 DEF StartRun, InsertRun
  <1>7. ASSUME NEW t \in Threads, StartPreflightFailure(t)
       PROVE  QueueInv'
    BY <1>7 DEF StartPreflightFailure, InsertRun
  <1>8. ASSUME NEW t \in Threads, FinishPreflightFailure(t)
       PROVE  QueueInv'
    BY <1>8 DEF FinishPreflightFailure, FinishRow
  <1>9. ASSUME NEW t \in Threads, OpenRun(t)
       PROVE  QueueInv'
    BY <1>9 DEF OpenRun
  <1>10. ASSUME NEW t \in Threads, FailOpening(t)
       PROVE  QueueInv'
    <2>1. CASE FinishRow(t, "failed")
      BY <1>10, <2>1 DEF FailOpening, FinishRow
    <2>2. CASE UNCHANGED rowVars
      BY <1>10, <2>2 DEF FailOpening
    <2> QED
      BY <1>10, <2>1, <2>2 DEF FailOpening
  <1>11. ASSUME NEW t \in Threads, BeginDiscovery(t)
       PROVE  QueueInv'
    BY <1>11 DEF BeginDiscovery
  <1>12. ASSUME NEW t \in Threads, DiscoverBatch(t)
       PROVE  QueueInv'
    <2>1. /\ runStatus[run[t]] = "running"
          /\ UNCHANGED <<runStatus, pc, run, working, outcome, event>>
          /\ run[t] \in RunIds /\ pc[t] = "discovering"
      BY <1>12 DEF DiscoverBatch, RowIsRunning
    <2>2. \A r \in RunIds : r # run[t] => fileStatus'[r] = fileStatus[r]
      BY <1>12, <2>1 DEF DiscoverBatch
    <2>3. \A f \in Files : fileStatus'[run[t]][f] # "downloading"
      BY <1>12, <2>1 DEF DiscoverBatch
    <2>4. NoOrphanFiles' /\ QueueClosed'
      BY <2>1, <2>2
    <2>5. StageFacts(t)'
      BY <2>1, <2>3
    <2>6. \A u \in Threads \ {t} : pc'[u] \in Owning => StageFacts(u)'
      BY <2>1, <2>2, OthersKeepTheirStage
    <2> QED
      BY <2>1, <2>4, <2>5, <2>6
  <1>13. ASSUME NEW t \in Threads, FinishDiscovery(t)
       PROVE  QueueInv'
    BY <1>13 DEF FinishDiscovery
  <1>14. ASSUME NEW t \in Threads, CancelBeforeQueue(t)
       PROVE  QueueInv'
    BY <1>14 DEF CancelBeforeQueue, CloseQueue, CloseUnfinished
  <1>15. ASSUME NEW t \in Threads, StartQueue(t)
       PROVE  QueueInv'
    BY <1>15 DEF StartQueue
  <1>16. ASSUME NEW t \in Threads, CheckCancel(t)
       PROVE  QueueInv'
    BY <1>16 DEF CheckCancel, CancelRequested
  <1>17. ASSUME NEW t \in Threads, ClaimBatch(t)
       PROVE  QueueInv'
    <2>1. PICK batch \in SUBSET PendingFiles(run[t]) :
            /\ \/ Cardinality(batch) = BatchLimit
               \/ batch = PendingFiles(run[t])
            /\ fileStatus' = [fileStatus EXCEPT ![run[t]] = [f \in Files |->
                   IF f \in batch THEN "downloading" ELSE fileStatus[run[t]][f]]]
            /\ working' = [working EXCEPT ![t] = batch]
            /\ Goto(t, IF batch = {} THEN "drained" ELSE "claimed")
      BY <1>17 DEF ClaimBatch
    <2>2. /\ UNCHANGED <<runStatus, run, outcome, event>>
          /\ run[t] \in RunIds /\ pc[t] = "claim"
      BY <1>17 DEF ClaimBatch
    <2>3. \A r \in RunIds : r # run[t] => fileStatus'[r] = fileStatus[r]
      BY <2>1, <2>2
    <2>4. CASE batch = {}
      <3>1. PendingFiles(run[t]) = {}
        BY <2>1, <2>4, FS_EmptySet
      <3>2. fileStatus' = fileStatus
        BY <2>1, <2>2, <2>4
      <3>3. \A f \in Files : fileStatus[run[t]][f] \notin Unfinished
        BY <2>2, <3>1 DEF PendingFiles
      <3> QED
        BY <2>1, <2>2, <2>4, <3>2, <3>3
    <2>5. CASE batch # {}
      <3>1. \A f \in Files : fileStatus'[run[t]][f] = "downloading" => f \in batch
        BY <2>1, <2>2
      <3>2. runStatus[run[t]] \notin Terminal \cup {"absent"}
        BY <2>1, <2>2, <2>5 DEF PendingFiles
      <3> QED
        BY <2>1, <2>2, <2>3, <2>5, <3>1, <3>2
    <2> QED
      BY <2>4, <2>5
  <1>18. ASSUME NEW t \in Threads, SubmitBatch(t)
       PROVE  QueueInv'
    BY <1>18 DEF SubmitBatch
  <1>19. ASSUME NEW t \in Threads, RecordBatch(t)
       PROVE  QueueInv'
    <2>1. /\ runStatus[run[t]] # "absent" /\ working[t] = {}
          /\ UNCHANGED <<runStatus, run, working, event>>
          /\ run[t] \in RunIds /\ pc[t] = "batch"
          /\ pc' = [pc EXCEPT ![t] = "recorded"]
          /\ outcome' = [outcome EXCEPT ![t] = NoOutcome]
      BY <1>19 DEF RecordBatch
    <2>2. \A r \in RunIds : r # run[t] => fileStatus'[r] = fileStatus[r]
      BY <1>19, <2>1 DEF RecordBatch
    <2>3. \A f \in Files :
            /\ fileStatus'[run[t]][f] # "downloading"
            /\ fileStatus'[run[t]][f] = "pending" => fileStatus[run[t]][f] = "pending"
      <3> SUFFICES ASSUME NEW f \in Files
                   PROVE  /\ fileStatus'[run[t]][f] # "downloading"
                          /\ fileStatus'[run[t]][f] = "pending" =>
                               fileStatus[run[t]][f] = "pending"
        OBVIOUS
      <3>1. fileStatus'[run[t]][f] = IF outcome[t][f] = "none"
                                     THEN fileStatus[run[t]][f] ELSE outcome[t][f]
        BY <1>19, <2>1 DEF RecordBatch
      <3>2. outcome[t][f] \in {"none"} \cup Outcomes
        OBVIOUS
      <3>3. fileStatus[run[t]][f] = "downloading" => outcome[t][f] # "none"
        BY <2>1
      <3> QED
        BY <3>1, <3>2, <3>3
    <2>4. NoOrphanFiles' /\ QueueClosed'
      <3>1. NoOrphanFiles'
        BY <2>1, <2>2
      <3>2. \A f \in Files : fileStatus'[run[t]][f] \in Unfinished =>
               fileStatus[run[t]][f] \in Unfinished
        BY <2>1, <2>3
      <3>3. QueueClosed'
        BY <2>1, <2>2, <3>2
      <3> QED
        BY <3>1, <3>3
    <2>5. StageFacts(t)'
      BY <2>1, <2>3
    <2>6. \A u \in Threads \ {t} : pc'[u] \in Owning => StageFacts(u)'
      BY <2>1, <2>2, OthersKeepTheirStage
    <2> QED
      BY <2>4, <2>5, <2>6
  <1>20. ASSUME NEW t \in Threads, NextBatch(t)
       PROVE  QueueInv'
    BY <1>20 DEF NextBatch
  <1>21. ASSUME NEW t \in Threads, TripCircuit(t)
       PROVE  QueueInv'
    BY <1>21 DEF TripCircuit, CloseQueue, CloseUnfinished
  <1>22. ASSUME NEW t \in Threads, CancelRest(t)
       PROVE  QueueInv'
    <2>1. CASE CancelRequested(t)
      <3>1. /\ CloseQueue(t, "cancelled") /\ pc[t] = "drained"
            /\ pc' = [pc EXCEPT ![t] = "verdict"]
            /\ UNCHANGED <<run, working, outcome, event>>
        BY <1>22, <2>1 DEF CancelRest
      <3>2. run[t] \in RunIds /\ pc[t] \in Owning
        BY <3>1
      <3>3. /\ UNCHANGED runStatus
            /\ \A r \in RunIds : r # run[t] => fileStatus'[r] = fileStatus[r]
            /\ \A f \in Files : fileStatus'[run[t]][f] \notin Unfinished
            /\ fileStatus[run[t]] = NoOutcome => fileStatus'[run[t]] = NoOutcome
        BY <3>1, <3>2, ClosedQueue
      <3>4. NoOrphanFiles'
        BY <3>2, <3>3
      <3>5. QueueClosed'
        BY <3>2, <3>3
      <3>6. StageFacts(t)'
        BY <3>1, <3>1, <3>2, <3>3
      <3>7. \A u \in Threads \ {t} : pc'[u] \in Owning => StageFacts(u)'
        BY <3>1, <3>1, <3>2, <3>3, OthersKeepTheirStage
      <3> QED
        BY <3>4, <3>5, <3>6, <3>7
    <2>2. CASE ~CancelRequested(t)
      BY <1>22, <2>2 DEF CancelRest, CancelRequested
    <2> QED
      BY <2>1, <2>2
  <1>23. ASSUME NEW t \in Threads, FinishRun(t)
       PROVE  QueueInv'
    BY <1>23 DEF FinishRun, FinishRow, RunStatusFromCounts
  <1>24. ASSUME NEW t \in Threads, ReturnExecution(t)
       PROVE  QueueInv'
    BY <1>24 DEF ReturnExecution
  <1>25. ASSUME NEW t \in Threads, Raise(t)
       PROVE  QueueInv'
    BY <1>25 DEF Raise, MayRaise
  <1>26. ASSUME NEW t \in Threads, FailQueue(t)
       PROVE  QueueInv'
    <2>1. CASE CloseQueue(t, "failed") /\ Goto(t, "failing2")
      <3>1. pc[t] = "failing" /\ UNCHANGED <<run, working, outcome, event>>
        BY <1>26 DEF FailQueue
      <3>2. run[t] \in RunIds /\ pc[t] \in Owning
        BY <3>1
      <3>3. /\ UNCHANGED runStatus
            /\ \A r \in RunIds : r # run[t] => fileStatus'[r] = fileStatus[r]
            /\ \A f \in Files : fileStatus'[run[t]][f] \notin Unfinished
            /\ fileStatus[run[t]] = NoOutcome => fileStatus'[run[t]] = NoOutcome
        BY <2>1, <3>2, ClosedQueue
      <3>4. NoOrphanFiles'
        BY <3>2, <3>3
      <3>5. QueueClosed'
        BY <3>2, <3>3
      <3>6. StageFacts(t)'
        BY <2>1, <3>1, <3>2, <3>3
      <3>7. \A u \in Threads \ {t} : pc'[u] \in Owning => StageFacts(u)'
        BY <2>1, <3>1, <3>2, <3>3, OthersKeepTheirStage
      <3> QED
        BY <3>4, <3>5, <3>6, <3>7
    <2>2. CASE Goto(t, "closing") /\ UNCHANGED rowVars
      BY <1>26, <2>2 DEF FailQueue
    <2> QED
      BY <1>26, <2>1, <2>2 DEF FailQueue
  <1>27. ASSUME NEW t \in Threads, FailRun(t)
       PROVE  QueueInv'
    <2>1. CASE FinishRow(t, "failed")
      BY <1>27, <2>1 DEF FailRun, FinishRow
    <2>2. CASE UNCHANGED rowVars
      BY <1>27, <2>2 DEF FailRun
    <2> QED
      BY <1>27, <2>1, <2>2 DEF FailRun
  <1>28. ASSUME NEW t \in Threads, Close(t)
       PROVE  QueueInv'
    BY <1>28 DEF Close
  <1>29. ASSUME NEW t \in Threads, ReleaseLock(t)
       PROVE  QueueInv'
    BY <1>29 DEF ReleaseLock, FreeLock
  <1>30. ASSUME NEW t \in Threads, NEW f \in Files, WorkerDone(t, f)
       PROVE  QueueInv'
    BY <1>30 DEF WorkerDone
  <1>31. ASSUME NEW r \in RunIds, Cancel(r)
       PROVE  QueueInv'
    BY <1>31 DEF Cancel
  <1>32. ASSUME NEW c \in Conns, SetEnabled(c)
       PROVE  QueueInv'
    BY <1>32 DEF SetEnabled
  <1>33. ASSUME NEW c \in Conns, DeleteConnection(c)
       PROVE  QueueInv'
    BY <1>33 DEF DeleteConnection, DeleteRuns
  <1>34. ASSUME NEW k \in RunIds, Purge(k)
       PROVE  QueueInv'
    BY <1>34 DEF Purge, DeleteRuns
  <1>35. ASSUME Crash
       PROVE  QueueInv'
    BY <1>35 DEF Crash
  <1>36. ASSUME Restart
       PROVE  QueueInv'
    BY <1>36 DEF Restart, CloseUnfinished
  <1>37. ASSUME UNCHANGED vars
       PROVE  QueueInv'
    BY <1>37 DEF vars
  <1> QED
    BY <1>1, <1>2, <1>3, <1>4, <1>5, <1>6, <1>7, <1>8, <1>9, <1>10, <1>11,
       <1>12, <1>13, <1>14, <1>15, <1>16, <1>17, <1>18, <1>19, <1>20,
       <1>21, <1>22, <1>23, <1>24, <1>25, <1>26, <1>27, <1>28, <1>29,
       <1>30, <1>31, <1>32, <1>33, <1>34, <1>35, <1>36, <1>37
    DEF Next, ThreadStep, Environment

(* No run that has ended, however it ended, leaves a file pending or
   downloading: for any number of callers, batches, cancellations, purges and
   restarts. *)
THEOREM NothingLeftOpen == Spec => []QueueClosed
  <1>1. QueueInv => QueueClosed
    BY DEF QueueInv
  <1>2. Spec => []QueueInv
    BY QueueInit, QueueStep, Invariance, PTL DEF Spec
  <1> QED
    BY <1>1, <1>2, PTL

-----------------------------------------------------------------------------
(* WHAT THE HISTORY SAYS OF A RUN: its verdict agrees with its rows, no file
   is downloaded twice, and what has ended stays as it is. *)

(* The stages before a run has any row, and those whose counters decide the
   verdict: an error of the coordinator leaves them for good. *)
Opening == {"preflight", "opening", "opened"}
Counting == {"discovering", "listed", "queue", "claim", "claimed", "batch",
             "recorded", "drained", "verdict"}
Fresh == {"idle", "locked", "reserved", "dryrun"} \cup Opening

(* The counters agree with the rows, and nothing was cancelled by itself. *)
Ledger(t) ==
    LET rows == fileStatus[run[t]] IN
    /\ "failed" \in tally[t] <=> \E f \in Files : rows[f] = "failed"
    /\ "ok" \in tally[t] => \E f \in Files : rows[f] = "ok"
    /\ (\E f \in Files : rows[f] = "cancelled" \/ outcome[t][f] = "cancelled")
         => CancelRequested(t)

(* What the run may still download was not downloaded before. *)
NewToHistory(t) ==
    target[t] \notin FullScan =>
        \A f \in Files :
            fileStatus[run[t]][f] \in Unfinished => ~KnownOk(target[t], f)

(* The workers of the run, and the outcomes that wait to be recorded, are of
   claimed files. *)
WorksOnClaimed(t) ==
    \A f \in Files :
        f \in working[t] \/ outcome[t][f] # "none" =>
            fileStatus[run[t]][f] = "downloading"

Knows(t) ==
    /\ pc[t] # "idle" => up
    /\ pc[t] \in Fresh => tally[t] = {} /\ outcome[t] = NoOutcome
    /\ pc[t] \in Opening =>
         runStatus[run[t]] = "running" /\ fileStatus[run[t]] = NoOutcome
    /\ pc[t] \in Counting \ {"claimed", "batch"} => outcome[t] = NoOutcome
    /\ pc[t] \in Counting /\ runStatus[run[t]] # "absent" =>
         /\ runStatus[run[t]] = "running"
         /\ Ledger(t)
         /\ NewToHistory(t)
         /\ WorksOnClaimed(t)

VerdictOf(r) ==
    /\ runStatus[r] = "ok" =>
         \A f \in Files : fileStatus[r][f] \in {"none", "ok", "skipped"}
    /\ runStatus[r] = "partial" =>
         /\ \E f \in Files : fileStatus[r][f] = "ok"
         /\ \E f \in Files : fileStatus[r][f] = "failed"

HistoryInv ==
    /\ \A t \in Threads : Knows(t)
    /\ \A r \in RunIds : VerdictOf(r)
    /\ DownloadedOnce

(* The body of HistoryIsFinal. *)
Final ==
    \A r \in RunIds :
      /\ runStatus[r] \in Terminal /\ runStatus'[r] # runStatus[r] =>
           \/ runStatus'[r] = "absent"
           \/ /\ runStatus'[r] = "failed"
              /\ \E t \in Threads : run[t] = r /\ pc[t] = "failing2"
      /\ runStatus'[r] # "absent" =>
           \A f \in Files : fileStatus[r][f] \in Outcomes =>
               fileStatus'[r][f] = fileStatus[r][f]

Locals(t) == <<pc[t], target[t], run[t], tally[t], working[t], outcome[t]>>

-----------------------------------------------------------------------------
(* At the start there is no run to know anything of. *)
LEMMA InitHistory == Init => HistoryInv
  BY DEF Init, HistoryInv, Knows, VerdictOf, DownloadedOnce, RunsOf, Fresh,
         Opening, Counting, RunIds

(* A step that touches neither rows nor events disturbs nobody else. *)
LEMMA SameRows ==
    ASSUME HistoryInv, NEW t \in Threads, Knows(t)',
           UNCHANGED <<runConn, runStatus, fileStatus, event, up>>,
           \A u \in Threads \ {t} : Locals(u)' = Locals(u)
    PROVE  HistoryInv' /\ Final
  <1>1. \A u \in Threads \ {t} : Knows(u)'
    <2> SUFFICES ASSUME NEW u \in Threads \ {t} PROVE Knows(u)'
      OBVIOUS
    <2>1. Knows(u) /\ Locals(u)' = Locals(u)
      BY DEF HistoryInv
    <2> QED
      BY <2>1 DEF Knows, Ledger, NewToHistory, WorksOnClaimed, CancelRequested,
                  KnownOk, RunsOf, Locals
  <1>2. (\A r \in RunIds : VerdictOf(r)') /\ DownloadedOnce'
    BY DEF HistoryInv, VerdictOf, DownloadedOnce, RunsOf
  <1>3. Final
    BY DEF Final
  <1> QED
    BY <1>1, <1>2, <1>3 DEF HistoryInv

(* A step of the owner of a run that touches the rows, the status and the event
   of that run only: the others know what they knew. *)
LEMMA OthersKnow ==
    ASSUME Inv, NEW t \in Threads, NEW u \in Threads, t # u, pc[t] \in Owning,
           Knows(u), UNCHANGED <<up, runConn>>, Locals(u)' = Locals(u),
           \A r \in RunIds \ {run[t]} :
               /\ runStatus'[r] = runStatus[r] /\ fileStatus'[r] = fileStatus[r]
               /\ event'[r] = event[r]
    PROVE  Knows(u)'
  <1>1. CASE pc[u] \notin Owning
    BY <1>1 DEF Knows, Locals, Owning, Opening, Counting
  <1>2. CASE pc[u] \in Owning
    <2>1. run[u] # run[t] /\ run[u] \in RunIds
      BY <1>2, OwnersDiffer, ConstantsAssumption
      DEF Inv, Typed, Owners, TypeOK, RunIds
    <2>2. runConn[run[t]] # target[u]
      <3>1. runConn[run[t]] = target[t] /\ lock[target[t]] = t /\ lock[target[u]] = u
        BY <1>2 DEF Inv, Exclusion, Owning
      <3> QED
        BY <3>1
    <2>3. \A f \in Files : KnownOk(target[u], f)' <=> KnownOk(target[u], f)
      BY <2>2 DEF KnownOk, RunsOf, Locals
    <2>4. /\ runStatus'[run[u]] = runStatus[run[u]]
          /\ fileStatus'[run[u]] = fileStatus[run[u]]
          /\ event'[run[u]] = event[run[u]]
      BY <2>1
    <2>5. Ledger(u)' <=> Ledger(u)
      BY <2>4 DEF Ledger, CancelRequested, Locals
    <2>6. NewToHistory(u)' <=> NewToHistory(u)
      BY <2>3, <2>4 DEF NewToHistory, Locals, KnownOk, RunsOf
    <2>7. WorksOnClaimed(u)' <=> WorksOnClaimed(u)
      BY <2>4 DEF WorksOnClaimed, Locals
    <2> QED
      BY <2>4, <2>5, <2>6, <2>7 DEF Knows, Locals
  <1> QED
    BY <1>1, <1>2

(* What such a step has to show of its own run. *)
LEMMA OwnRun ==
    ASSUME Inv, HistoryInv, NEW t \in Threads, pc[t] \in Owning,
           NEW own, own = run[t],
           UNCHANGED <<up, runConn>>,
           \A u \in Threads \ {t} : Locals(u)' = Locals(u),
           \A r \in RunIds \ {run[t]} :
               /\ runStatus'[r] = runStatus[r] /\ fileStatus'[r] = fileStatus[r]
               /\ event'[r] = event[r],
           Knows(t)', VerdictOf(own)',
           runStatus[run[t]] = "absent" => runStatus'[run[t]] = "absent",
           \A f \in Files :
               fileStatus'[run[t]][f] = "ok" =>
                   \/ fileStatus[run[t]][f] = "ok"
                   \/ target[t] \in FullScan \/ ~KnownOk(target[t], f)
    PROVE  HistoryInv'
  <1>1. \A u \in Threads : Knows(u)'
    BY OthersKnow DEF HistoryInv
  <1>2. \A r \in RunIds : VerdictOf(r)'
    BY DEF HistoryInv, VerdictOf
  <1>3. DownloadedOnce'
    <2>1. runConn[run[t]] = target[t] /\ run[t] \in RunIds
      BY ConstantsAssumption DEF Inv, Exclusion, Typed, Owners, TypeOK, RunIds
    <2>2. \A c \in Conns : RunsOf(c)' \subseteq RunsOf(c)
      BY DEF RunsOf
    <2>3. \A c \in Conns \ FullScan : \A r, q \in RunsOf(c) : \A f \in Files :
             fileStatus'[r][f] = "ok" /\ fileStatus'[q][f] = "ok" => r = q
      <3> SUFFICES ASSUME NEW c \in Conns \ FullScan,
                          NEW r \in RunsOf(c), NEW q \in RunsOf(c), NEW f \in Files,
                          fileStatus'[r][f] = "ok", fileStatus'[q][f] = "ok", r # q
                   PROVE  FALSE
        OBVIOUS
      <3>0. r \in RunIds /\ q \in RunIds /\ runConn[r] = c /\ runConn[q] = c
        BY DEF RunsOf
      <3>1. CASE r # run[t] /\ q # run[t]
        BY <3>0, <3>1 DEF HistoryInv, DownloadedOnce
      <3>2. CASE r = run[t]
        <4>1. fileStatus[q][f] = "ok" /\ KnownOk(c, f) /\ c = target[t]
          BY <2>1, <3>0, <3>2 DEF KnownOk
        <4> QED
          BY <3>2, <4>1 DEF HistoryInv, DownloadedOnce
      <3>3. CASE q = run[t]
        <4>1. fileStatus[r][f] = "ok" /\ KnownOk(c, f) /\ c = target[t]
          BY <2>1, <3>0, <3>3 DEF KnownOk
        <4> QED
          BY <3>3, <4>1 DEF HistoryInv, DownloadedOnce
      <3> QED
        BY <3>1, <3>2, <3>3
    <2> QED
      BY <2>2, <2>3 DEF DownloadedOnce
  <1> QED
    BY <1>1, <1>2, <1>3 DEF HistoryInv

-----------------------------------------------------------------------------
(* Steps that leave the rows of all runs and the events alone. *)
LEMMA QuietStep ==
    ASSUME Inv, QueueInv, HistoryInv, NEW t \in Threads,
           \/ \E c \in Conns : AcquireLock(t, c)
           \/ PassChecks(t) \/ PassDryRunChecks(t) \/ RefuseReservation(t)
           \/ ReturnWithoutRun(t) \/ ReleaseLock(t)
           \/ BeginDiscovery(t) \/ FinishDiscovery(t) \/ StartQueue(t) \/ CheckCancel(t)
           \/ SubmitBatch(t) \/ NextBatch(t) \/ ReturnExecution(t) \/ Raise(t)
           \/ \E f \in Files : WorkerDone(t, f)
    PROVE  HistoryInv' /\ Final
  <1>t. TypeOK /\ Owners /\ Knows(t)
    BY DEF Inv, Typed, HistoryInv
  <1> USE <1>t DEF TypeOK, Goto, rowVars, sharedVars, localVars
  <1>1. CASE \/ \E c \in Conns : AcquireLock(t, c)
             \/ PassChecks(t) \/ PassDryRunChecks(t) \/ RefuseReservation(t)
             \/ ReturnWithoutRun(t) \/ ReleaseLock(t)
    <2>1. /\ UNCHANGED <<runConn, runStatus, fileStatus, event, up>>
          /\ \A u \in Threads \ {t} : Locals(u)' = Locals(u)
      BY <1>1 DEF AcquireLock, PassChecks, PassDryRunChecks, RefuseReservation,
                  ReturnWithoutRun, ReleaseLock, FreeLock, Locals
    <2>2. /\ pc'[t] \in {"idle", "locked", "reserved", "dryrun"}
          /\ tally'[t] = {} /\ outcome'[t] = NoOutcome
          /\ pc'[t] # "idle" => up
      BY <1>1 DEF AcquireLock, PassChecks, PassDryRunChecks, RefuseReservation,
                  ReturnWithoutRun, ReleaseLock, FreeLock, Knows, Fresh
    <2>3. Knows(t)'
      BY <2>1, <2>2 DEF Knows, Opening, Counting
    <2> QED
      BY <2>1, <2>3, SameRows
  <1>2. CASE \/ BeginDiscovery(t) \/ FinishDiscovery(t) \/ StartQueue(t) \/ CheckCancel(t)
             \/ SubmitBatch(t) \/ NextBatch(t) \/ ReturnExecution(t)
    <2>1. /\ UNCHANGED <<runConn, runStatus, fileStatus, event, up>>
          /\ \A u \in Threads \ {t} : Locals(u)' = Locals(u)
      BY <1>2 DEF BeginDiscovery, FinishDiscovery, StartQueue, CheckCancel, SubmitBatch,
                  NextBatch, ReturnExecution, Locals
    <2>2. /\ UNCHANGED <<target, run, tally, working, outcome>>
          /\ \/ pc[t] = "opened" /\ pc'[t] = "discovering"
             \/ /\ pc[t] \in Counting /\ pc'[t] \in Counting \ {"claimed", "discovering"}
                /\ (pc[t] = "claimed" <=> pc'[t] = "batch")
                /\ pc[t] # "batch"
             \/ pc'[t] = "closing"
      BY <1>2 DEF BeginDiscovery, FinishDiscovery, StartQueue, CheckCancel, SubmitBatch,
                  NextBatch, ReturnExecution, Counting
    <2>3. Knows(t)'
      <3>1. CASE pc[t] = "opened" /\ pc'[t] = "discovering"
        <4>1. /\ runStatus[run[t]] = "running" /\ fileStatus[run[t]] = NoOutcome
              /\ outcome[t] = NoOutcome /\ tally[t] = {} /\ up
          BY <3>1 DEF Knows, Opening, Fresh
        <4>2. working[t] = {}
          BY <3>1 DEF Owners, EngineStages
        <4>3. Ledger(t)' /\ NewToHistory(t)' /\ WorksOnClaimed(t)'
          BY <2>1, <2>2, <4>1, <4>2
          DEF Ledger, NewToHistory, WorksOnClaimed, NoOutcome, Unfinished
        <4> QED
          BY <2>1, <2>2, <3>1, <4>1, <4>3 DEF Knows, Fresh, Opening, Counting
      <3>2. CASE /\ pc[t] \in Counting /\ pc'[t] \in Counting \ {"claimed", "discovering"}
                 /\ (pc[t] = "claimed" <=> pc'[t] = "batch")
                 /\ pc[t] # "batch"
        BY <2>1, <2>2, <3>2
        DEF Knows, Fresh, Opening, Counting, Ledger, NewToHistory, WorksOnClaimed,
            CancelRequested, KnownOk, RunsOf
      <3>3. CASE pc'[t] = "closing"
        BY <1>2, <2>1, <3>3
        DEF Knows, Fresh, Opening, Counting, BeginDiscovery, FinishDiscovery, StartQueue,
            CheckCancel, SubmitBatch, NextBatch, ReturnExecution
      <3> QED
        BY <2>2, <3>1, <3>2, <3>3
    <2> QED
      BY <2>1, <2>3, SameRows
  <1>3. CASE Raise(t)
    <2>1. /\ UNCHANGED <<runConn, runStatus, fileStatus, event, up>>
          /\ \A u \in Threads \ {t} : Locals(u)' = Locals(u)
      BY <1>3 DEF Raise, Locals
    <2>2. pc'[t] = "failing" /\ pc[t] # "idle"
      BY <1>3 DEF Raise, MayRaise
    <2>3. Knows(t)'
      BY <2>1, <2>2 DEF Knows, Fresh, Opening, Counting
    <2> QED
      BY <2>1, <2>3, SameRows
  <1>4. ASSUME NEW f \in Files, WorkerDone(t, f)
        PROVE  HistoryInv' /\ Final
    <2>1. /\ UNCHANGED <<runConn, runStatus, fileStatus, event, up>>
          /\ \A u \in Threads \ {t} : Locals(u)' = Locals(u)
      BY <1>4 DEF WorkerDone, Locals
    <2>2. /\ f \in working[t] /\ working'[t] = working[t] \ {f}
          /\ UNCHANGED <<pc, target, run, tally>>
          /\ \A g \in Files \ {f} : outcome'[t][g] = outcome[t][g]
          /\ outcome'[t][f] = "cancelled" => CancelRequested(t)
      BY <1>4 DEF WorkerDone
    <2>3. pc[t] \in EngineStages \ {"claimed"}
      BY <1>4, <2>2 DEF WorkerDone, Owners
    <2>4. CASE pc[t] = "batch"
      <3>1. ASSUME runStatus[run[t]] # "absent"
            PROVE  Ledger(t)' /\ NewToHistory(t)' /\ WorksOnClaimed(t)'
        <4>0. Ledger(t) /\ NewToHistory(t) /\ WorksOnClaimed(t)
          BY <2>4, <3>1 DEF Knows, Counting
        <4>1. Ledger(t)'
          BY <4>0, <2>1, <2>2 DEF Ledger, CancelRequested
        <4>2. NewToHistory(t)'
          BY <4>0, <2>1, <2>2 DEF NewToHistory, KnownOk, RunsOf
        <4>3. WorksOnClaimed(t)'
          BY <4>0, <2>1, <2>2 DEF WorksOnClaimed
        <4> QED
          BY <4>1, <4>2, <4>3
      <3>2. Knows(t)'
        BY <2>1, <2>2, <2>4, <3>1 DEF Knows, Fresh, Opening, Counting
      <3> QED
        BY <2>1, <3>2, SameRows
    <2>5. CASE pc[t] # "batch"
      <3>1. Knows(t)'
        BY <2>1, <2>2, <2>3, <2>5 DEF Knows, Fresh, Opening, Counting, EngineStages
      <3> QED
        BY <2>1, <3>1, SameRows
    <2> QED
      BY <2>4, <2>5
  <1> QED
    BY <1>1, <1>2, <1>3, <1>4

(* Steps that give a run its row, its event, its verdict, and drop its event. *)
LEMMA StatusStep ==
    ASSUME Inv, QueueInv, HistoryInv, NEW t \in Threads,
           \/ FinishPreflightFailure(t) \/ OpenRun(t) \/ FailOpening(t)
           \/ FinishRun(t) \/ FailRun(t) \/ Close(t)
    PROVE  HistoryInv' /\ Final
  <1>t. /\ TypeOK /\ Owners /\ Knows(t) /\ pc[t] \in Owning
        /\ run[t] \in RunIds
    <2>1. pc[t] \in Owning
      BY DEF FinishPreflightFailure, OpenRun, FailOpening, FinishRun, FailRun, Close, Owning
    <2> QED
      BY <2>1, ConstantsAssumption DEF Inv, Typed, HistoryInv, Owners, RunIds, TypeOK
  <1> DEFINE own == run[t]
  <1>s. /\ UNCHANGED <<up, runConn, fileStatus>>
        /\ UNCHANGED <<target, run, tally, working, outcome>>
        /\ \A u \in Threads \ {t} : Locals(u)' = Locals(u)
        /\ \A r \in RunIds \ {own} :
              runStatus'[r] = runStatus[r] /\ event'[r] = event[r]
        /\ runStatus[own] = "absent" => runStatus'[own] = "absent"
    BY <1>t DEF FinishPreflightFailure, OpenRun, FailOpening, FinishRun, FailRun, Close,
         FinishRow, FinishRaises, Goto, rowVars, sharedVars, localVars, Locals, TypeOK
  <1>1. CASE FinishPreflightFailure(t) \/ FailOpening(t)
    <2>1. /\ pc[t] \in Opening /\ pc'[t] = "release"
          /\ runStatus'[own] \in {runStatus[own], "failed"}
      BY <1>1, <1>t DEF FinishPreflightFailure, FailOpening, FinishRow, Goto, Opening,
                        rowVars, TypeOK
    <2>2. runStatus[own] = "running" /\ up
      BY <1>t, <2>1 DEF Knows, Opening
    <2>3. Knows(t)' /\ VerdictOf(own)'
      BY <1>s, <2>1, <2>2, <1>t DEF Knows, Fresh, Opening, Counting, VerdictOf
    <2>4. Final
      BY <1>s, <2>2 DEF Final, Terminal
    <2> QED
      BY <1>s, <1>t, <2>3, <2>4, OwnRun
  <1>2. CASE OpenRun(t)
    <2>1. pc[t] = "opening" /\ pc'[t] = "opened" /\ UNCHANGED runStatus
      BY <1>2, <1>t DEF OpenRun, Goto, rowVars, TypeOK
    <2>2. Knows(t)' /\ VerdictOf(own)'
      BY <1>s, <2>1, <1>t DEF Knows, Fresh, Opening, Counting, VerdictOf
    <2>3. Final
      BY <1>s, <2>1 DEF Final
    <2> QED
      BY <1>s, <1>t, <2>2, <2>3, OwnRun
  <1>3. CASE FinishRun(t)
    <2>1. /\ pc[t] = "verdict" /\ pc'[t] = "finished"
          /\ runStatus[own] # "absent"
          /\ runStatus'[own] = RunStatusFromCounts(tally[t], CancelRequested(t))
      BY <1>3, <1>t DEF FinishRun, FinishRow, Goto, TypeOK
    <2>2. runStatus[own] = "running" /\ up /\ Ledger(t)
      BY <1>t, <2>1 DEF Knows, Counting
    <2>3. \A f \in Files : fileStatus[own][f] \notin Unfinished
      BY <2>1, <1>t DEF QueueInv, StageFacts
    <2>4. \A f \in Files : fileStatus[own][f] \in {"none"} \cup Unfinished \cup Outcomes
      BY <1>t DEF TypeOK
    <2>5. VerdictOf(own)'
      BY <1>s, <2>1, <2>2, <2>3, <2>4 DEF VerdictOf, Ledger, RunStatusFromCounts, Outcomes
    <2>6. Knows(t)'
      BY <1>s, <2>1, <2>2 DEF Knows, Fresh, Opening, Counting
    <2>7. Final
      BY <1>s, <2>2 DEF Final, Terminal
    <2> QED
      BY <1>s, <1>t, <2>5, <2>6, <2>7, OwnRun
  <1>4. CASE FailRun(t)
    <2>1. /\ pc[t] = "failing2" /\ pc'[t] = "closing"
          /\ runStatus'[own] \in {runStatus[own], "failed"}
      BY <1>4, <1>t DEF FailRun, FinishRow, Goto, rowVars, TypeOK
    <2>2. Knows(t)' /\ VerdictOf(own)'
      BY <1>s, <2>1, <1>t DEF Knows, Fresh, Opening, Counting, VerdictOf, HistoryInv
    <2>3. Final
      BY <1>s, <2>1 DEF Final
    <2> QED
      BY <1>s, <1>t, <2>2, <2>3, OwnRun
  <1>5. CASE Close(t)
    <2>1. pc[t] = "closing" /\ pc'[t] = "release" /\ UNCHANGED runStatus
      BY <1>5, <1>t DEF Close, Goto, rowVars, TypeOK
    <2>2. Knows(t)' /\ VerdictOf(own)'
      BY <1>s, <2>1, <1>t DEF Knows, Fresh, Opening, Counting, VerdictOf, HistoryInv
    <2>3. Final
      BY <1>s, <2>1 DEF Final
    <2> QED
      BY <1>s, <1>t, <2>2, <2>3, OwnRun
  <1> QED
    BY <1>1, <1>2, <1>3, <1>4, <1>5

-----------------------------------------------------------------------------
(* Closing the queue turns its open rows into the given status and leaves the
   rest. *)
LEMMA ClosedRows ==
    ASSUME TypeOK, NEW t \in Threads, run[t] \in RunIds, NEW status,
           CloseQueue(t, status)
    PROVE  /\ UNCHANGED <<runConn, runStatus, lastRun, conn>>
           /\ \A r \in RunIds \ {run[t]} : fileStatus'[r] = fileStatus[r]
           /\ \A f \in Files :
                fileStatus'[run[t]][f] = IF fileStatus[run[t]][f] \in Unfinished
                                         THEN status ELSE fileStatus[run[t]][f]
  BY DEF TypeOK, CloseQueue, CloseUnfinished

(* Steps that change rows of the run of the thread. *)
LEMMA RowsStep ==
    ASSUME Inv, QueueInv, HistoryInv, NEW t \in Threads,
           \/ DiscoverBatch(t) \/ CancelBeforeQueue(t) \/ ClaimBatch(t) \/ RecordBatch(t)
           \/ TripCircuit(t) \/ CancelRest(t) \/ FailQueue(t)
    PROVE  HistoryInv' /\ Final
  <1>t. /\ TypeOK /\ Owners /\ Knows(t) /\ pc[t] \in Owning
        /\ run[t] \in RunIds
    <2>1. pc[t] \in Owning
      BY DEF DiscoverBatch, CancelBeforeQueue, ClaimBatch, RecordBatch, TripCircuit,
             CancelRest, FailQueue, Owning
    <2> QED
      BY <2>1, ConstantsAssumption DEF Inv, Typed, HistoryInv, Owners, RunIds, TypeOK
  <1> DEFINE own == run[t]
             rows == fileStatus[own]
  <1>s. /\ UNCHANGED <<up, event, runConn, runStatus>>
        /\ UNCHANGED <<target, run>>
        /\ \A u \in Threads \ {t} : Locals(u)' = Locals(u)
        /\ \A r \in RunIds \ {own} : fileStatus'[r] = fileStatus[r]
    BY <1>t DEF DiscoverBatch, CancelBeforeQueue, ClaimBatch, RecordBatch, TripCircuit,
         CancelRest, FailQueue, CloseQueue, Goto, rowVars, sharedVars, localVars, Locals, TypeOK
  <1>c. pc[t] \in Counting /\ runStatus[own] # "absent" =>
          runStatus[own] = "running" /\ Ledger(t) /\ NewToHistory(t) /\ WorksOnClaimed(t)
    BY <1>t DEF Knows
  <1>a. runStatus[own] = "absent" => rows = NoOutcome
    BY <1>t DEF QueueInv, NoOrphanFiles
  (* What is left to show when the run is still counting. *)
  <1>g. ASSUME pc[t] \in Counting, pc'[t] \in Counting,
               pc'[t] \in Counting \ {"claimed", "batch"} => outcome'[t] = NoOutcome,
               runStatus[own] # "absent" =>
                   Ledger(t)' /\ NewToHistory(t)' /\ WorksOnClaimed(t)',
               runStatus[own] # "absent" =>
                   \A f \in Files : rows[f] \in Outcomes => fileStatus'[own][f] = rows[f],
               \A f \in Files : fileStatus'[own][f] = "ok" =>
                   rows[f] = "ok" \/ rows[f] \in Unfinished
        PROVE  HistoryInv' /\ Final
    <2>1. Knows(t)' /\ VerdictOf(own)'
      BY <1>c, <1>g, <1>s, <1>t DEF Knows, Fresh, Opening, Counting, VerdictOf
    <2>2. \A f \in Files : fileStatus'[own][f] = "ok" =>
            rows[f] = "ok" \/ target[t] \in FullScan \/ ~KnownOk(target[t], f)
      BY <1>a, <1>c, <1>g DEF NewToHistory, NoOutcome, Unfinished
    <2>3. Final
      BY <1>g, <1>s DEF Final
    <2> QED
      BY <1>s, <1>t, <2>1, <2>2, <2>3, OwnRun
  <1>1. CASE DiscoverBatch(t)
    <2>1. /\ pc[t] = "discovering" /\ pc'[t] = "discovering" /\ runStatus[own] = "running"
          /\ UNCHANGED <<working, outcome>>
      BY <1>1 DEF DiscoverBatch, RowIsRunning, sharedVars
    <2>2. PICK planned, invalid \in SUBSET Plannable(t) :
            /\ planned \cap invalid = {}
            /\ fileStatus' = [fileStatus EXCEPT ![own] = [f \in Files |->
                   IF f \in planned THEN "pending"
                   ELSE IF f \in invalid THEN "failed"
                   ELSE fileStatus[own][f]]]
            /\ tally' = [tally EXCEPT
                   ![t] = @ \cup (IF invalid # {} THEN {"failed"} ELSE {})]
      BY <1>1 DEF DiscoverBatch
    <2>3. \A f \in Files : fileStatus'[own][f] = IF f \in planned THEN "pending"
                   ELSE IF f \in invalid THEN "failed" ELSE rows[f]
      BY <2>2, <1>t DEF TypeOK
    <2>4. tally'[t] = tally[t] \cup (IF invalid # {} THEN {"failed"} ELSE {})
      BY <2>2, <1>t DEF TypeOK
    <2>5. \A f \in planned \cup invalid :
            f \in Files /\ rows[f] = "none" /\ (target[t] \in FullScan \/ ~KnownOk(target[t], f))
      BY DEF Plannable
    <2>6. outcome[t] = NoOutcome /\ working[t] = {}
      BY <1>t, <2>1 DEF Knows, Counting, Owners, EngineStages
    <2>7. Ledger(t) /\ NewToHistory(t)
      BY <1>c, <2>1 DEF Counting
    <2>8. Ledger(t)'
      <3>1. "failed" \in tally'[t] <=> \E f \in Files : fileStatus'[own][f] = "failed"
        <4>1. CASE invalid = {}
          BY <2>3, <2>4, <2>5, <2>7, <4>1 DEF Ledger
        <4>2. CASE invalid # {}
          <5>1. PICK f \in invalid : f \in Files /\ f \notin planned
            BY <2>2, <2>5, <4>2
          <5> QED
            BY <2>3, <2>4, <4>2, <5>1
        <4> QED
          BY <4>1, <4>2
      <3>2. "ok" \in tally'[t] => \E f \in Files : fileStatus'[own][f] = "ok"
        <4>1. "ok" \in tally'[t] => "ok" \in tally[t]
          BY <2>4
        <4>2. \A f \in Files : rows[f] = "ok" => fileStatus'[own][f] = "ok"
          BY <2>3, <2>5
        <4> QED
          BY <2>7, <4>1, <4>2 DEF Ledger
      <3>3. \A f \in Files : fileStatus'[own][f] = "cancelled" => rows[f] = "cancelled"
        BY <2>3
      <3> QED
        BY <1>s, <2>1, <2>6, <2>7, <3>1, <3>2, <3>3 DEF Ledger, CancelRequested, NoOutcome
    <2>9. NewToHistory(t)'
      <3>1. \A f \in Files : fileStatus'[own][f] = "ok" => rows[f] = "ok"
        BY <2>3
      <3>2. \A f \in Files : KnownOk(target[t], f)' => KnownOk(target[t], f)
        BY <1>s, <3>1 DEF KnownOk, RunsOf
      <3>3. \A f \in Files : fileStatus'[own][f] \in Unfinished =>
              rows[f] \in Unfinished \/ f \in planned
        BY <2>3 DEF Unfinished
      <3> QED
        BY <1>s, <2>5, <2>7, <3>2, <3>3 DEF NewToHistory, KnownOk, RunsOf
    <2>10. WorksOnClaimed(t)'
      BY <2>1, <2>6 DEF WorksOnClaimed, NoOutcome
    <2>11. \A f \in Files : rows[f] \in Outcomes => fileStatus'[own][f] = rows[f]
      BY <2>3, <2>5 DEF Outcomes
    <2>12. \A f \in Files : fileStatus'[own][f] = "ok" => rows[f] = "ok"
      BY <2>3
    <2> QED
      BY <1>g, <2>1, <2>6, <2>8, <2>9, <2>10, <2>11, <2>12 DEF Counting
  (* The three stages that close the queue and go on to the verdict. *)
  <1>2. ASSUME NEW status \in {"cancelled", "failed"}, CloseQueue(t, status),
               pc[t] \in Counting \ {"claimed", "batch"},
               pc'[t] \in Counting \ {"claimed", "batch"},
               UNCHANGED <<tally, working, outcome>>,
               status = "cancelled" => CancelRequested(t),
               status = "failed" => "failed" \in tally[t]
        PROVE  HistoryInv' /\ Final
    <2>1. \A f \in Files : fileStatus'[own][f] =
            IF rows[f] \in Unfinished THEN status ELSE rows[f]
      BY <1>2, <1>t, ClosedRows
    <2>2. outcome[t] = NoOutcome /\ working[t] = {}
      BY <1>t, <1>2 DEF Knows, Counting, Owners, EngineStages
    <2>3. ASSUME runStatus[own] # "absent"
          PROVE  Ledger(t)' /\ NewToHistory(t)' /\ WorksOnClaimed(t)'
      <3>0. Ledger(t)
        BY <1>2, <1>c, <2>3
      <3>1. Ledger(t)'
        BY <1>2, <1>s, <2>1, <2>2, <3>0 DEF Ledger, CancelRequested, NoOutcome, Unfinished
      <3>2. NewToHistory(t)'
        BY <1>2, <1>s, <2>1 DEF NewToHistory, Unfinished
      <3>3. WorksOnClaimed(t)'
        BY <1>2, <2>2 DEF WorksOnClaimed, NoOutcome
      <3> QED
        BY <3>1, <3>2, <3>3
    <2>4. \A f \in Files : rows[f] \in Outcomes => fileStatus'[own][f] = rows[f]
      BY <2>1 DEF Unfinished, Outcomes
    <2>5. \A f \in Files : fileStatus'[own][f] = "ok" => rows[f] = "ok"
      BY <2>1
    <2> QED
      BY <1>2, <1>g, <2>2, <2>3, <2>4, <2>5
  <1>3. CASE CancelBeforeQueue(t)
    <2>1. /\ CloseQueue(t, "cancelled") /\ CancelRequested(t)
          /\ pc[t] = "listed" /\ pc'[t] = "verdict"
          /\ UNCHANGED <<tally, working, outcome>>
      BY <1>3, <1>t DEF CancelBeforeQueue, Goto, localVars, TypeOK
    <2> QED
      BY <1>2, <2>1 DEF Counting
  <1>4. CASE TripCircuit(t)
    <2>1. /\ CloseQueue(t, "failed") /\ "failed" \in tally[t]
          /\ pc[t] = "recorded" /\ pc'[t] = "drained"
          /\ UNCHANGED <<tally, working, outcome>>
      BY <1>4, <1>t DEF TripCircuit, Goto, localVars, TypeOK
    <2> QED
      BY <1>2, <2>1 DEF Counting
  <1>5. CASE CancelRest(t)
    <2>1. /\ pc[t] = "drained" /\ pc'[t] = "verdict"
          /\ UNCHANGED <<tally, working, outcome>>
      BY <1>5, <1>t DEF CancelRest, Goto, localVars, TypeOK
    <2>2. CASE CancelRequested(t)
      <3>1. CloseQueue(t, "cancelled")
        BY <1>5, <2>2 DEF CancelRest
      <3> QED
        BY <1>2, <2>1, <2>2, <3>1 DEF Counting
    <2>3. CASE ~CancelRequested(t)
      <3>1. UNCHANGED fileStatus
        BY <1>5, <2>3 DEF CancelRest, rowVars
      <3>2. Knows(t)'
        BY <1>s, <1>t, <2>1, <3>1
        DEF Knows, Fresh, Opening, Counting, Ledger, NewToHistory, WorksOnClaimed,
            CancelRequested, KnownOk, RunsOf
      <3> QED
        BY <1>s, <3>1, <3>2, SameRows
    <2> QED
      BY <2>2, <2>3
  <1>6. CASE FailQueue(t)
    <2>1. pc[t] = "failing" /\ pc'[t] \in {"failing2", "closing"} /\ up
      BY <1>6, <1>t DEF FailQueue, Goto, TypeOK, Knows
    <2>2. Knows(t)'
      BY <1>s, <2>1 DEF Knows, Fresh, Opening, Counting
    <2>3. CASE CloseQueue(t, "failed")
      <3>1. \A f \in Files : fileStatus'[own][f] =
              IF rows[f] \in Unfinished THEN "failed" ELSE rows[f]
        BY <2>3, <1>t, ClosedRows
      <3>2. runStatus[own] \in Terminal => \A f \in Files : rows[f] \notin Unfinished
        BY <1>t DEF QueueInv, QueueClosed
      <3>3. VerdictOf(own)
        BY <1>t DEF HistoryInv
      <3>4. VerdictOf(own)'
        BY <1>s, <3>1, <3>2, <3>3 DEF VerdictOf, Terminal
      <3>5. Final
        BY <1>s, <3>1 DEF Final, Outcomes, Unfinished
      <3>6. \A f \in Files : fileStatus'[own][f] = "ok" => rows[f] = "ok"
        BY <3>1
      <3> QED
        BY <1>s, <1>t, <2>2, <3>4, <3>5, <3>6, OwnRun
    <2>4. CASE UNCHANGED rowVars
      BY <1>s, <2>2, <2>4, SameRows DEF rowVars
    <2> QED
      BY <1>6, <2>3, <2>4 DEF FailQueue
  <1>7. CASE ClaimBatch(t)
    <2>1. /\ pc[t] = "claim" /\ pc'[t] \in {"drained", "claimed"}
          /\ UNCHANGED <<tally, outcome>>
      BY <1>7, <1>t DEF ClaimBatch, Goto, TypeOK
    <2>2. PICK batch \in SUBSET PendingFiles(own) :
            /\ fileStatus' = [fileStatus EXCEPT ![own] = [f \in Files |->
                   IF f \in batch THEN "downloading" ELSE fileStatus[own][f]]]
            /\ working' = [working EXCEPT ![t] = batch]
      BY <1>7 DEF ClaimBatch
    <2>3. /\ \A f \in Files : fileStatus'[own][f] = IF f \in batch THEN "downloading" ELSE rows[f]
          /\ working'[t] = batch
          /\ \A f \in batch : f \in Files /\ rows[f] = "pending"
      BY <2>2, <1>t DEF TypeOK, PendingFiles
    <2>4. outcome[t] = NoOutcome
      BY <1>t, <2>1 DEF Knows, Counting
    <2>5. ASSUME runStatus[own] # "absent"
          PROVE  Ledger(t)' /\ NewToHistory(t)' /\ WorksOnClaimed(t)'
      <3>0. Ledger(t) /\ NewToHistory(t)
        BY <1>c, <2>1, <2>5 DEF Counting
      <3>1. Ledger(t)'
        BY <1>s, <2>1, <2>3, <2>4, <3>0 DEF Ledger, CancelRequested, NoOutcome
      <3>2. NewToHistory(t)'
        <4>1. \A f \in Files : KnownOk(target[t], f)' => KnownOk(target[t], f)
          BY <1>s, <2>3 DEF KnownOk, RunsOf
        <4>2. \A f \in Files : fileStatus'[own][f] \in Unfinished => rows[f] \in Unfinished
          BY <2>3 DEF Unfinished
        <4> QED
          BY <1>s, <3>0, <4>1, <4>2 DEF NewToHistory, KnownOk, RunsOf
      <3>3. WorksOnClaimed(t)'
        BY <2>1, <1>s, <2>3, <2>4 DEF WorksOnClaimed, NoOutcome
      <3> QED
        BY <3>1, <3>2, <3>3
    <2>6. \A f \in Files : rows[f] \in Outcomes => fileStatus'[own][f] = rows[f]
      BY <2>3 DEF Outcomes
    <2>7. \A f \in Files : fileStatus'[own][f] = "ok" => rows[f] = "ok"
      BY <2>3
    <2> QED
      BY <1>g, <2>1, <2>4, <2>5, <2>6, <2>7 DEF Counting
  <1>8. CASE RecordBatch(t)
    <2>1. /\ pc[t] = "batch" /\ pc'[t] = "recorded" /\ runStatus[own] # "absent"
          /\ working[t] = {} /\ UNCHANGED working
          /\ outcome'[t] = NoOutcome
          /\ tally'[t] = tally[t] \cup ({outcome[t][f] : f \in Files} \ {"none"})
          /\ \A f \in Files : fileStatus'[own][f] =
                IF outcome[t][f] = "none" THEN rows[f] ELSE outcome[t][f]
      BY <1>8, <1>t DEF RecordBatch, Goto, TypeOK
    <2>2. Ledger(t) /\ NewToHistory(t) /\ WorksOnClaimed(t)
      BY <1>c, <2>1 DEF Counting
    <2>3. \A f \in Files : outcome[t][f] # "none" => rows[f] = "downloading"
      BY <2>2 DEF WorksOnClaimed
    <2>4. \A f \in Files : rows[f] = "downloading" => outcome[t][f] # "none"
      BY <1>t, <2>1 DEF QueueInv, StageFacts
    <2>5. \A f \in Files : outcome[t][f] \in {"none"} \cup Outcomes
      BY <1>t DEF TypeOK
    <2>6. Ledger(t)'
      <3>1. "failed" \in tally'[t] <=> \E f \in Files : fileStatus'[own][f] = "failed"
        BY <2>1, <2>2, <2>3 DEF Ledger
      <3>2. "ok" \in tally'[t] => \E f \in Files : fileStatus'[own][f] = "ok"
        BY <2>1, <2>2, <2>3 DEF Ledger
      <3>3. (\E f \in Files : fileStatus'[own][f] = "cancelled") => CancelRequested(t)
        BY <2>1, <2>2 DEF Ledger
      <3> QED
        BY <1>s, <2>1, <3>1, <3>2, <3>3 DEF Ledger, CancelRequested, NoOutcome
    <2>7. NewToHistory(t)'
      <3> SUFFICES ASSUME target[t] \notin FullScan, NEW f \in Files,
                          fileStatus'[own][f] \in Unfinished
                   PROVE  ~KnownOk(target[t], f)'
        BY <1>s DEF NewToHistory, KnownOk, RunsOf
      <3>1. fileStatus'[own][f] = rows[f]
        BY <2>1, <2>5 DEF Unfinished, Outcomes
      <3>2. ~KnownOk(target[t], f)
        BY <2>2, <3>1 DEF NewToHistory
      <3> QED
        BY <1>s, <3>1, <3>2 DEF KnownOk, RunsOf
    <2>8. WorksOnClaimed(t)'
      BY <2>1 DEF WorksOnClaimed, NoOutcome
    <2>9. \A f \in Files : rows[f] \in Outcomes => fileStatus'[own][f] = rows[f]
      BY <2>1, <2>3 DEF Outcomes
    <2>10. \A f \in Files : fileStatus'[own][f] = "ok" => rows[f] = "ok" \/ rows[f] \in Unfinished
      BY <2>1, <2>3 DEF Unfinished
    <2> QED
      BY <1>g, <2>1, <2>6, <2>7, <2>8, <2>9, <2>10 DEF Counting
  <1> QED
    BY <1>1, <1>3, <1>4, <1>5, <1>6, <1>7, <1>8

-----------------------------------------------------------------------------
(* A run is inserted: its row is new, so the history knows nothing of it. *)
LEMMA InsertStep ==
    ASSUME Inv, QueueInv, HistoryInv, NEW t \in Threads,
           StartRun(t) \/ StartPreflightFailure(t)
    PROVE  HistoryInv' /\ Final
  <1>t. TypeOK /\ Owners /\ Knows(t)
    BY DEF Inv, Typed, HistoryInv
  <1>1. PICK stage \in Opening : InsertRun(t, stage)
    BY DEF StartRun, StartPreflightFailure, Opening
  <1> DEFINE new == lastRun + 1
  <1>2. /\ new \in RunIds /\ runStatus[new] = "absent" /\ fileStatus[new] = NoOutcome
        /\ \A u \in Threads : pc[u] \in Owning => run[u] \in RunIds \ {new}
    <2>1. new \in RunIds /\ runStatus[new] = "absent"
      BY <1>1, <1>t, ConstantsAssumption DEF InsertRun, RunIds, TypeOK, Inv, Exclusion
    <2>2. fileStatus[new] = NoOutcome
      BY <2>1 DEF QueueInv, NoOrphanFiles
    <2>3. \A u \in Threads : pc[u] \in Owning => run[u] \in RunIds \ {new}
      BY <1>t, ConstantsAssumption DEF Owners, RunIds, TypeOK
    <2> QED
      BY <2>1, <2>2, <2>3
  <1>3. /\ pc[t] = "reserved" /\ pc'[t] = stage /\ run'[t] = new
        /\ UNCHANGED <<up, event, fileStatus, tally, outcome>>
        /\ runStatus'[new] = "running"
        /\ \A r \in RunIds \ {new} : runStatus'[r] = runStatus[r] /\ runConn'[r] = runConn[r]
        /\ \A u \in Threads \ {t} : Locals(u)' = Locals(u)
    BY <1>1, <1>2, <1>t DEF InsertRun, Goto, sharedVars, Locals, TypeOK
  <1> HIDE DEF new
  <1>4. Knows(t)'
    BY <1>2, <1>3, <1>t DEF Knows, Fresh, Opening, Counting
  <1>5. \A u \in Threads \ {t} : Knows(u)'
    <2> SUFFICES ASSUME NEW u \in Threads \ {t} PROVE Knows(u)'
      OBVIOUS
    <2>1. Knows(u) /\ Locals(u)' = Locals(u)
      BY <1>3 DEF HistoryInv
    <2>2. CASE pc[u] \notin Owning
      BY <1>3, <2>1, <2>2 DEF Knows, Locals, Owning, Opening, Counting
    <2>3. CASE pc[u] \in Owning
      <3>1. run[u] \in RunIds \ {new}
        BY <1>2, <2>3
      <3>2. \A f \in Files : KnownOk(target[u], f)' => KnownOk(target[u], f)
        BY <1>2, <1>3, <2>1 DEF KnownOk, RunsOf, Locals, NoOutcome
      <3>3. NewToHistory(u) => NewToHistory(u)'
        BY <1>3, <2>1, <3>2 DEF NewToHistory, Locals, KnownOk, RunsOf
      <3> QED
        BY <1>3, <2>1, <3>1, <3>3 DEF Knows, Locals, Ledger, CancelRequested, WorksOnClaimed
    <2> QED
      BY <2>2, <2>3
  <1>6. \A r \in RunIds : VerdictOf(r)'
    BY <1>3 DEF HistoryInv, VerdictOf
  <1>7. DownloadedOnce'
    <2> SUFFICES ASSUME NEW c \in Conns \ FullScan, NEW r \in RunsOf(c)', NEW q \in RunsOf(c)',
                        NEW f \in Files, fileStatus[r][f] = "ok", fileStatus[q][f] = "ok"
                 PROVE  r = q
      BY <1>3 DEF DownloadedOnce
    <2>1. r # new /\ q # new
      BY <1>2 DEF NoOutcome
    <2>2. r \in RunsOf(c) /\ q \in RunsOf(c)
      BY <1>3, <2>1 DEF RunsOf
    <2> QED
      BY <2>2 DEF HistoryInv, DownloadedOnce
  <1>8. Final
    BY <1>2, <1>3 DEF Final, Terminal
  <1> QED
    BY <1>4, <1>5, <1>6, <1>7, <1>8 DEF HistoryInv

(* Whole runs disappear, none of which is being opened. *)
LEMMA RunsDisappear ==
    ASSUME Inv, QueueInv, HistoryInv, NEW gone, DeleteRuns(gone),
           UNCHANGED <<runConn, event, up, pc, localVars>>,
           \A t \in Threads : pc[t] \in Opening => run[t] \notin gone
    PROVE  HistoryInv' /\ Final
  <1>1. \A r \in RunIds :
          /\ runStatus'[r] = IF r \in gone THEN "absent" ELSE runStatus[r]
          /\ fileStatus'[r] = IF r \in gone THEN NoOutcome ELSE fileStatus[r]
    BY DEF DeleteRuns
  <1>2. \A t \in Threads : pc[t] \in Owning => run[t] \in RunIds
    BY ConstantsAssumption DEF Inv, Typed, Owners, TypeOK, RunIds
  <1>3. \A t \in Threads : Knows(t)'
    <2> SUFFICES ASSUME NEW t \in Threads PROVE Knows(t)'
      OBVIOUS
    <2>1. Knows(t)
      BY DEF HistoryInv
    <2>2. CASE pc[t] \notin Owning
      BY <2>1, <2>2 DEF Knows, localVars, Owning, Opening, Counting
    <2>3. CASE pc[t] \in Owning
      <3>1. run[t] \in RunIds
        BY <1>2, <2>3
      <3>2. CASE run[t] \in gone
        BY <1>1, <2>1, <3>1, <3>2 DEF Knows, localVars
      <3>3. CASE run[t] \notin gone
        <4>1. runStatus'[run[t]] = runStatus[run[t]] /\ fileStatus'[run[t]] = fileStatus[run[t]]
          BY <1>1, <3>1, <3>3
        <4>2. \A f \in Files : KnownOk(target[t], f)' => KnownOk(target[t], f)
          BY <1>1 DEF KnownOk, RunsOf, localVars, NoOutcome
        <4>3. NewToHistory(t) => NewToHistory(t)'
          BY <4>1, <4>2 DEF NewToHistory, localVars, KnownOk, RunsOf
        <4> QED
          BY <2>1, <4>1, <4>3 DEF Knows, localVars, Ledger, CancelRequested, WorksOnClaimed
      <3> QED
        BY <3>2, <3>3
    <2> QED
      BY <2>2, <2>3
  <1>4. \A r \in RunIds : VerdictOf(r)'
    BY <1>1 DEF HistoryInv, VerdictOf
  <1>5. DownloadedOnce'
    <2> SUFFICES ASSUME NEW c \in Conns \ FullScan, NEW r \in RunsOf(c)', NEW q \in RunsOf(c)',
                        NEW f \in Files, fileStatus'[r][f] = "ok", fileStatus'[q][f] = "ok"
                 PROVE  r = q
      BY DEF DownloadedOnce
    <2>1. r \in RunIds /\ q \in RunIds /\ r \notin gone /\ q \notin gone
      BY <1>1 DEF RunsOf
    <2>2. r \in RunsOf(c) /\ q \in RunsOf(c) /\ fileStatus[r][f] = "ok" /\ fileStatus[q][f] = "ok"
      BY <1>1, <2>1 DEF RunsOf
    <2> QED
      BY <2>2 DEF HistoryInv, DownloadedOnce
  <1>6. Final
    BY <1>1 DEF Final
  <1> QED
    BY <1>3, <1>4, <1>5, <1>6 DEF HistoryInv

(* The user, the retention job and the machine. *)
LEMMA OutsideStep ==
    ASSUME Inv, QueueInv, HistoryInv, Environment \/ Restart
    PROVE  HistoryInv' /\ Final
  <1>t. TypeOK
    BY DEF Inv, Typed
  <1>o. \A t \in Threads : pc[t] \in Owning =>
          run[t] \in RunIds /\ runConn[run[t]] = target[t]
    BY ConstantsAssumption DEF Inv, Typed, Owners, TypeOK, RunIds, Exclusion
  <1>1. ASSUME NEW r \in RunIds, Cancel(r)
        PROVE  HistoryInv' /\ Final
    <2>1. /\ UNCHANGED <<runConn, runStatus, fileStatus, up, pc, localVars>>
          /\ \A q \in RunIds : event[q] = "set" => event'[q] = "set"
      BY <1>1, <1>t DEF Cancel, rowVars, TypeOK
    <2>2. \A t \in Threads : Knows(t)'
      <3> SUFFICES ASSUME NEW t \in Threads PROVE Knows(t)'
        OBVIOUS
      <3>1. Knows(t)
        BY DEF HistoryInv
      <3>2. pc[t] \in Owning => (CancelRequested(t) => CancelRequested(t)')
        BY <1>o, <2>1 DEF CancelRequested, localVars
      <3>3. pc[t] \in Owning => (Ledger(t) => Ledger(t)')
        BY <2>1, <3>2 DEF Ledger, localVars
      <3>4. /\ NewToHistory(t) <=> NewToHistory(t)'
            /\ WorksOnClaimed(t) <=> WorksOnClaimed(t)'
        BY <2>1 DEF NewToHistory, WorksOnClaimed, KnownOk, RunsOf, localVars
      <3> QED
        BY <2>1, <3>1, <3>3, <3>4 DEF Knows, localVars, Owning, Counting
    <2>3. (\A q \in RunIds : VerdictOf(q)') /\ DownloadedOnce'
      BY <2>1 DEF HistoryInv, VerdictOf, DownloadedOnce, RunsOf
    <2> QED
      BY <2>1, <2>2, <2>3 DEF HistoryInv, Final
  <1>2. ASSUME NEW c \in Conns, SetEnabled(c)
        PROVE  HistoryInv' /\ Final
    <2>1. UNCHANGED <<runConn, runStatus, fileStatus, event, up, pc, localVars>>
      BY <1>2 DEF SetEnabled, sharedVars
    <2>2. \A t \in Threads : Knows(t)'
      BY <2>1 DEF HistoryInv, Knows, Ledger, NewToHistory, WorksOnClaimed, CancelRequested,
                  KnownOk, RunsOf, localVars
    <2>3. (\A q \in RunIds : VerdictOf(q)') /\ DownloadedOnce'
      BY <2>1 DEF HistoryInv, VerdictOf, DownloadedOnce, RunsOf
    <2> QED
      BY <2>1, <2>2, <2>3 DEF HistoryInv, Final
  <1>3. ASSUME NEW c \in Conns, DeleteConnection(c)
        PROVE  HistoryInv' /\ Final
    <2>1. /\ UNCHANGED <<runConn, event, up, pc, localVars>> /\ DeleteRuns(RunsOf(c))
          /\ lock[c] = NoThread
      BY <1>3 DEF DeleteConnection, sharedVars
    <2>2. \A t \in Threads : pc[t] \in Owning => target[t] # c
      BY <2>1, ConstantsAssumption DEF Inv, Exclusion, Owning
    <2>3. \A t \in Threads : pc[t] \in Opening => run[t] \notin RunsOf(c)
      BY <1>o, <2>2 DEF RunsOf, Opening, Owning
    <2> QED
      BY <2>1, <2>3, RunsDisappear
  <1>4. ASSUME NEW k \in RunIds, Purge(k)
        PROVE  HistoryInv' /\ Final
    <2>1. /\ UNCHANGED <<runConn, event, up, pc, localVars>> /\ DeleteRuns(1..k)
          /\ \A t \in Threads : pc[t] \in Opening => run[t] \notin 1..k
      BY <1>4, <1>o, ConstantsAssumption
      DEF Purge, sharedVars, Opening, Owning, RunIds
    <2> QED
      BY <2>1, RunsDisappear
  <1>5. CASE Crash
    <2>1. /\ UNCHANGED <<runConn, runStatus, fileStatus>>
          /\ \A t \in Threads : pc'[t] = "idle" /\ tally'[t] = {} /\ outcome'[t] = NoOutcome
      BY <1>5 DEF Crash, rowVars
    <2>2. \A t \in Threads : Knows(t)'
      BY <2>1 DEF Knows, Opening, Counting
    <2>3. (\A q \in RunIds : VerdictOf(q)') /\ DownloadedOnce'
      BY <2>1 DEF HistoryInv, VerdictOf, DownloadedOnce, RunsOf
    <2> QED
      BY <2>1, <2>2, <2>3 DEF HistoryInv, Final
  <1>6. CASE Restart
    <2>1. \A t \in Threads : pc[t] = "idle"
      BY <1>6 DEF Restart, HistoryInv, Knows
    <2>2. UNCHANGED <<runConn, event, pc, localVars>>
      BY <1>6 DEF Restart
    <2>3. \A r \in RunIds :
            /\ runStatus'[r] = IF runStatus[r] = "running" THEN "failed" ELSE runStatus[r]
            /\ \A f \in Files :
                 fileStatus'[r][f] =
                   IF runStatus[r] = "running" /\ fileStatus[r][f] \in Unfinished
                   THEN "failed" ELSE fileStatus[r][f]
      BY <1>6, <1>t DEF Restart, CloseUnfinished, TypeOK
    <2>4. \A t \in Threads : Knows(t)'
      BY <2>1, <2>2 DEF HistoryInv, Knows, Fresh, Opening, Counting, localVars
    <2>5. \A r \in RunIds : VerdictOf(r)'
      BY <2>3 DEF HistoryInv, VerdictOf
    <2>6. DownloadedOnce'
      <3>1. \A c \in Conns : RunsOf(c)' = RunsOf(c)
        BY <2>2, <2>3 DEF RunsOf
      <3>2. \A r \in RunIds, f \in Files : fileStatus'[r][f] = "ok" => fileStatus[r][f] = "ok"
        BY <2>3
      <3> QED
        BY <3>1, <3>2 DEF HistoryInv, DownloadedOnce, RunsOf
    <2>7. Final
      BY <2>3 DEF Final, Terminal, Outcomes, Unfinished
    <2> QED
      BY <2>4, <2>5, <2>6, <2>7 DEF HistoryInv
  <1> QED
    BY <1>1, <1>2, <1>3, <1>4, <1>5, <1>6 DEF Environment

(* Every action is one of the kinds above. *)
LEMMA HistoryStep ==
    ASSUME Inv, QueueInv, HistoryInv, Next PROVE HistoryInv' /\ Final
  BY QuietStep, StatusStep, RowsStep, InsertStep, OutsideStep DEF Next, ThreadStep

(* The inductive invariant, with the two it rests on. *)
LEMMA History == Spec => [](Inv /\ QueueInv /\ HistoryInv)
  <1>1. HistoryInv /\ UNCHANGED vars => HistoryInv'
    BY DEF vars, rowVars, sharedVars, localVars, HistoryInv, Knows, Ledger, NewToHistory,
           WorksOnClaimed, CancelRequested, KnownOk, RunsOf, VerdictOf, DownloadedOnce
  <1>2. Inv /\ QueueInv /\ HistoryInv /\ [Next]_vars => HistoryInv'
    BY <1>1, HistoryStep
  <1> QED
    BY <1>2, InitHistory, QueueInit, QueueStep, Invariance, PTL DEF Spec

(* The verdict of a run, computed from counters in memory, agrees with its
   rows, whatever was cancelled, raised or recovered in between. *)
THEOREM VerdictIsTrue == Spec => []VerdictMatchesRows
  <1>1. HistoryInv => VerdictMatchesRows
    BY DEF HistoryInv, VerdictOf, VerdictMatchesRows
  <1> QED
    BY <1>1, History, PTL

(* Without full reconciliation, no file is downloaded by two runs that the
   history still holds: what was known when a batch was planned is still what
   is known when it is recorded, since the lock keeps other runs away. *)
THEOREM NothingTwice == Spec => []DownloadedOnce
  <1>1. HistoryInv => DownloadedOnce
    BY DEF HistoryInv
  <1> QED
    BY <1>1, History, PTL

(* What has ended is final: no step rewrites the row of a file that has ended,
   nor the verdict of a run, but for its own error handler. *)
THEOREM AuditIsFinal == Spec => HistoryIsFinal
  <1>1. Inv /\ QueueInv /\ HistoryInv /\ [Next]_vars => [Final]_vars
    BY HistoryStep
  <1> QED
    BY <1>1, History, PTL DEF Spec, HistoryIsFinal, Final

=============================================================================
