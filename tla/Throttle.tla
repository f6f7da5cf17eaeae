------------------------------ MODULE Throttle ------------------------------
(***************************************************************************)
(* Courtesy between download workers: ThrottleManager.transfer_slot        *)
(* (app/throttle.py) as _download_one (app/downloader.py) uses it.  An     *)
(* attempt waits for the lock of its host, for the spacing since the last  *)
(* launch there and for a permit of the global semaphore, in that order,   *)
(* and the cancel event of its run interrupts each wait.                   *)
(*                                                                         *)
(* An engine is the DownloadEngine of one run; it keeps the manager that   *)
(* the coordinator had when the run began.  Saving the settings gives the  *)
(* coordinator a new manager.  Clock readings enter the code only as       *)
(* differences, so the model keeps the time elapsed, up to Spacing.        *)
(***************************************************************************)
EXTENDS Naturals, FiniteSets

CONSTANTS
    Workers,      \* download threads
    Engines,      \* download engines, one for each run
    EngineOf,     \* the engine of each worker
    Hosts,        \* casefolded hosts
    HostOf,       \* the host of each engine
    Parallelism,  \* global_parallelism
    Spacing,      \* minimum_spacing_s
    MaxManagers,  \* bound: managers ever created
    MaxAttempts,  \* bound: attempts of a worker
    NoWorker

Managers == 1..MaxManagers

ASSUME ConstantsAssumption ==
    /\ EngineOf \in [Workers -> Engines]
    /\ HostOf \in [Engines -> Hosts]
    /\ IsFiniteSet(Workers)
    /\ Parallelism \in Nat \ {0}
    /\ Spacing \in Nat
    /\ MaxManagers \in Nat \ {0}
    /\ MaxAttempts \in Nat
    /\ NoWorker \notin Workers

VARIABLES
    current,  \* coordinator.throttle
    manager,  \* engine.throttle, 0 before the run needs it
    cancel,   \* the cancel event of the run
    hostLock, \* _host_locks of each manager
    age,      \* time since _last_started of each manager and host
    permits,  \* what is left of the _global semaphore of each manager
    pc,       \* where a worker stands
    wait,     \* what is left of its wait for the spacing
    left      \* attempts it may still make

vars == <<current, manager, cancel, hostLock, age, permits, pc, wait, left>>

\* "host" and "slot" are about to look at the event, "hosttry" and "slottry"
\* are inside the acquire with its timeout.
Waiting == {"host", "hosttry", "spacing", "launch", "slot", "slottry"}
Stages  == {"idle", "attempt"} \cup Waiting

TypeOK ==
    /\ current \in Managers
    /\ manager \in [Engines -> 0..MaxManagers]
    /\ cancel \in [Engines -> BOOLEAN]
    /\ hostLock \in [Managers -> [Hosts -> Workers \cup {NoWorker}]]
    /\ age \in [Managers -> [Hosts -> 0..Spacing]]
    /\ permits \in [Managers -> 0..Parallelism]
    /\ pc \in [Workers -> Stages]
    /\ wait \in [Workers -> 0..Spacing]
    /\ left \in [Workers -> 0..MaxAttempts]

Init ==
    /\ current = 1
    /\ manager = [e \in Engines |-> 0]
    /\ cancel = [e \in Engines |-> FALSE]
    /\ hostLock = [m \in Managers |-> [h \in Hosts |-> NoWorker]]
    /\ age = [m \in Managers |-> [h \in Hosts |-> Spacing]]
    /\ permits = [m \in Managers |-> Parallelism]
    /\ pc = [w \in Workers |-> "idle"]
    /\ wait = [w \in Workers |-> 0]
    /\ left = [w \in Workers |-> MaxAttempts]

Mgr(w)       == manager[EngineOf[w]]
Host(w)      == HostOf[EngineOf[w]]
Cancelled(w) == cancel[EngineOf[w]]

\* The attempts that hold a permit of a manager.
AttemptsOf(m) == {w \in Workers : pc[w] = "attempt" /\ Mgr(w) = m}

Goto(w, stage) == pc' = [pc EXCEPT ![w] = stage]

-----------------------------------------------------------------------------
(* The coordinator. *)

StartEngine(e) ==
    /\ manager[e] = 0
    /\ manager' = [manager EXCEPT ![e] = current]
    /\ UNCHANGED <<current, cancel, hostLock, age, permits, pc, wait, left>>

CancelRun(e) ==
    /\ manager[e] # 0
    /\ ~cancel[e]
    /\ cancel' = [cancel EXCEPT ![e] = TRUE]
    /\ UNCHANGED <<current, manager, hostLock, age, permits, pc, wait, left>>

\* Saving any setting replaces the manager.
SaveSettings ==
    /\ current < MaxManagers
    /\ current' = current + 1
    /\ UNCHANGED <<manager, cancel, hostLock, age, permits, pc, wait, left>>

-----------------------------------------------------------------------------
(* One attempt of a worker. *)

\* The head of the loop of _download_one.
BeginAttempt(w) ==
    /\ pc[w] = "idle"
    /\ left[w] > 0
    /\ Mgr(w) # 0
    /\ ~Cancelled(w)
    /\ left' = [left EXCEPT ![w] = @ - 1]
    /\ Goto(w, "host")
    /\ UNCHANGED <<current, manager, cancel, hostLock, age, permits, wait>>

\* Bug: a waiter that gives up returns a permit it never had.
BugReturnMissingPermit(w) ==
    /\ \/ /\ pc[w] = "host"
          /\ Goto(w, IF Cancelled(w) THEN "idle" ELSE "hosttry")
          /\ UNCHANGED permits
       \/ /\ pc[w] = "slot"
          /\ Goto(w, IF Cancelled(w) THEN "idle" ELSE "slottry")
          /\ permits' = [permits EXCEPT ![Mgr(w)] =
                IF Cancelled(w) /\ @ < Parallelism THEN @ + 1 ELSE @]
    /\ UNCHANGED <<current, manager, cancel, hostLock, age, wait, left>>

\* Bug: the semaphore is awaited without looking at the event.
BugWaitUninterruptibly(w) ==
    /\ \/ pc[w] = "host" /\ Goto(w, IF Cancelled(w) THEN "idle" ELSE "hosttry")
       \/ pc[w] = "slot" /\ Goto(w, "slottry")
    /\ UNCHANGED <<current, manager, cancel, hostLock, age, permits, wait, left>>

\* _acquire_interruptibly looks at the event before each try and gives up
\* when it is set.
PollEvent(w) ==
    /\ \/ pc[w] = "host" /\ Goto(w, IF Cancelled(w) THEN "idle" ELSE "hosttry")
       \/ pc[w] = "slot" /\ Goto(w, IF Cancelled(w) THEN "idle" ELSE "slottry")
    /\ UNCHANGED <<current, manager, cancel, hostLock, age, permits, wait, left>>

\* The acquire with its timeout of a tenth of a second came back empty.
AcquireTimesOut(w) ==
    /\ \/ pc[w] = "hosttry" /\ hostLock[Mgr(w)][Host(w)] # NoWorker /\ Goto(w, "host")
       \/ pc[w] = "slottry" /\ permits[Mgr(w)] = 0 /\ Goto(w, "slot")
    /\ UNCHANGED <<current, manager, cancel, hostLock, age, permits, wait, left>>

\* Bug: the operands are swapped.
BugNegativeWait(w) ==
    /\ pc[w] = "hosttry"
    /\ hostLock[Mgr(w)][Host(w)] = NoWorker
    /\ hostLock' = [hostLock EXCEPT ![Mgr(w)][Host(w)] = w]
    /\ wait' = [wait EXCEPT ![w] = age[Mgr(w)][Host(w)] - Spacing]
    /\ Goto(w, IF age[Mgr(w)][Host(w)] < Spacing THEN "spacing" ELSE "launch")
    /\ UNCHANGED <<current, manager, cancel, age, permits, left>>

\* Bug: the spacing is computed outside the lock of the host.
BugSpacingWithoutLock(w) ==
    /\ pc[w] = "hosttry"
    /\ hostLock[Mgr(w)][Host(w)] = NoWorker
    /\ wait' = [wait EXCEPT ![w] = Spacing - age[Mgr(w)][Host(w)]]
    /\ Goto(w, IF age[Mgr(w)][Host(w)] < Spacing THEN "spacing" ELSE "launch")
    /\ UNCHANGED <<current, manager, cancel, hostLock, age, permits, left>>

\* Under the lock of the host, what is missing of the spacing is computed.
AcquireHost(w) ==
    /\ pc[w] = "hosttry"
    /\ hostLock[Mgr(w)][Host(w)] = NoWorker
    /\ hostLock' = [hostLock EXCEPT ![Mgr(w)][Host(w)] = w]
    /\ wait' = [wait EXCEPT ![w] = Spacing - age[Mgr(w)][Host(w)]]
    /\ Goto(w, IF age[Mgr(w)][Host(w)] < Spacing THEN "spacing" ELSE "launch")
    /\ UNCHANGED <<current, manager, cancel, age, permits, left>>

\* Bug: a cancelled wait returns without the finally clause.
BugKeepHostLock(w) ==
    /\ pc[w] = "spacing"
    /\ \/ Cancelled(w) /\ Goto(w, "idle")
       \/ ~Cancelled(w) /\ wait[w] = 0 /\ Goto(w, "launch")
    /\ wait' = [wait EXCEPT ![w] = 0]
    /\ UNCHANGED <<current, manager, cancel, hostLock, age, permits, left>>

\* The wait on the event: interrupted, or over.
WaitSpacing(w) ==
    /\ pc[w] = "spacing"
    /\ \/ /\ Cancelled(w)
          /\ hostLock' = [hostLock EXCEPT ![Mgr(w)][Host(w)] = NoWorker]
          /\ Goto(w, "idle")
       \/ /\ ~Cancelled(w)
          /\ wait[w] = 0
          /\ UNCHANGED hostLock
          /\ Goto(w, "launch")
    /\ wait' = [wait EXCEPT ![w] = 0]
    /\ UNCHANGED <<current, manager, cancel, age, permits, left>>

\* _last_started is set and the lock of the host released.
Launch(w) ==
    /\ pc[w] = "launch"
    /\ age' = [age EXCEPT ![Mgr(w)][Host(w)] = 0]
    /\ hostLock' = [hostLock EXCEPT ![Mgr(w)][Host(w)] = NoWorker]
    /\ Goto(w, "slot")
    /\ UNCHANGED <<current, manager, cancel, permits, wait, left>>

\* The permit is granted and the attempt opens its transport.
AcquireSlot(w) ==
    /\ pc[w] = "slottry"
    /\ permits[Mgr(w)] > 0
    /\ permits' = [permits EXCEPT ![Mgr(w)] = @ - 1]
    /\ Goto(w, "attempt")
    /\ UNCHANGED <<current, manager, cancel, hostLock, age, wait, left>>

EndAttempt(w) ==
    /\ pc[w] = "attempt"
    /\ permits' = [permits EXCEPT ![Mgr(w)] = @ + 1]
    /\ Goto(w, "idle")
    /\ UNCHANGED <<current, manager, cancel, hostLock, age, wait, left>>

\* One unit of the monotonic clock.
Tick ==
    /\ age' = [m \in Managers |-> [h \in Hosts |->
                 IF age[m][h] < Spacing THEN age[m][h] + 1 ELSE Spacing]]
    /\ wait' = [w \in Workers |-> IF wait[w] > 0 THEN wait[w] - 1 ELSE 0]
    /\ <<age, wait>>' # <<age, wait>>
    /\ UNCHANGED <<current, manager, cancel, hostLock, permits, pc, left>>

WaiterStep(w) ==
    \/ PollEvent(w) \/ AcquireTimesOut(w) \/ AcquireHost(w) \/ WaitSpacing(w)
    \/ Launch(w) \/ AcquireSlot(w)

Next ==
    \/ \E e \in Engines : StartEngine(e) \/ CancelRun(e)
    \/ SaveSettings
    \/ \E w \in Workers : BeginAttempt(w) \/ WaiterStep(w) \/ EndAttempt(w)
    \/ Tick

Spec == Init /\ [][Next]_vars

\* Waiting threads are scheduled and the clock runs.  Nothing is assumed of
\* the attempts themselves: a server may keep one for as long as it likes.
FairSpec ==
    /\ Spec
    /\ \A w \in Workers : WF_vars(WaiterStep(w))
    /\ WF_vars(Tick)

AttemptsTerminate == \A w \in Workers : WF_vars(EndAttempt(w))
-----------------------------------------------------------------------------
(* What the throttle promises. *)

\* Every permit of a semaphore is either free or with a running attempt: no
\* give-up, cancellation or timeout loses one or returns one too many, so a
\* manager never lets more than global_parallelism attempts run.
PermitsConserved ==
    \A m \in Managers : permits[m] + Cardinality(AttemptsOf(m)) = Parallelism

\* The lock of a host is held exactly by the worker that computes, waits for
\* and records its launch, whichever way it leaves.
HostLockFollowsLaunch ==
    \A w \in Workers, m \in Managers, h \in Hosts :
        hostLock[m][h] = w <=>
            pc[w] \in {"spacing", "launch"} /\ Mgr(w) = m /\ Host(w) = h

\* Two launches that one manager records for a host are at least the spacing
\* apart, however the waits of the workers overlap.
LaunchesSpaced ==
    [][\A w \in Workers : pc[w] = "launch" /\ pc'[w] = "slot" =>
          age[Mgr(w)][Host(w)] = Spacing]_vars

\* A cancelled worker stops waiting, even if no attempt ever ends.
CancelledWaitersLeave ==
    \A w \in Workers :
        pc[w] \in Waiting /\ Cancelled(w) ~> pc[w] \notin Waiting

\* If attempts end, every worker that asks for a slot gets it or was cancelled.
WaitersAreServed ==
    AttemptsTerminate =>
        \A w \in Workers : pc[w] = "host" ~> pc[w] \in {"attempt", "idle"}
=============================================================================
