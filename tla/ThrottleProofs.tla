--------------------------- MODULE ThrottleProofs ---------------------------
(***************************************************************************)
(* Theorems about Throttle for any workers, engines, hosts and limits.     *)
(* First the lock of a host follows the worker that launches there; under  *)
(* that lock the spacing that was computed stays right while it is waited  *)
(* for; independently, permits are conserved.                              *)
(***************************************************************************)
EXTENDS Throttle, FiniteSetTheorems, TLAPS

(* A worker that asked for a slot belongs to a run that has its manager. *)
Bound == \A w \in Workers : pc[w] # "idle" => Mgr(w) \in Managers

Typed == TypeOK /\ Bound

(* At the start nobody waits. *)
LEMMA InitTyped == Init => Typed
  BY ConstantsAssumption
  DEF Init, Typed, TypeOK, Bound, Managers, Stages, Waiting

(* The wait never exceeds the spacing and no permit is returned twice: the
   latter needs the conservation of permits, so it is a hypothesis here. *)
LEMMA TypedStep ==
    ASSUME Typed, [Next]_vars,
           \A w \in Workers : pc[w] = "attempt" => permits[Mgr(w)] < Parallelism
    PROVE  Typed'
  <1>t. TypeOK /\ Bound
    BY DEF Typed
  <1>c. /\ \A w \in Workers : EngineOf[w] \in Engines /\ Host(w) \in Hosts
        /\ Spacing \in Nat /\ Parallelism \in Nat /\ MaxManagers \in Nat /\ MaxAttempts \in Nat
    BY ConstantsAssumption DEF Host
  <1>1. ASSUME NEW e \in Engines, StartEngine(e)
       PROVE  Typed'
    <2>1. manager' \in [Engines -> 0..MaxManagers]
      BY <1>1, <1>t, <1>c DEF StartEngine, TypeOK, Managers
    <2>2. Bound'
      BY <1>1, <1>t, <1>c DEF StartEngine, Bound, Mgr, Goto, TypeOK, Managers
    <2> QED
      BY <1>1, <1>t, <2>1, <2>2 DEF StartEngine, Typed, TypeOK
  <1>2. ASSUME NEW e \in Engines, CancelRun(e)
       PROVE  Typed'
    <2>1. cancel' \in [Engines -> BOOLEAN]
      BY <1>2, <1>t, <1>c DEF CancelRun, TypeOK
    <2>2. Bound'
      BY <1>2, <1>t, <1>c DEF CancelRun, Bound, Mgr, Goto, TypeOK, Managers
    <2> QED
      BY <1>2, <1>t, <2>1, <2>2 DEF CancelRun, Typed, TypeOK
  <1>3. ASSUME SaveSettings
       PROVE  Typed'
    <2>1. current' \in Managers
      BY <1>3, <1>t, <1>c DEF SaveSettings, TypeOK, Managers
    <2>2. Bound'
      BY <1>3, <1>t, <1>c DEF SaveSettings, Bound, Mgr, Goto, TypeOK, Managers
    <2> QED
      BY <1>3, <1>t, <2>1, <2>2 DEF SaveSettings, Typed, TypeOK
  <1>4. ASSUME NEW w \in Workers, BeginAttempt(w)
       PROVE  Typed'
    <2>1. Mgr(w) \in Managers
      BY <1>4, <1>t, <1>c DEF BeginAttempt, Mgr, TypeOK, Managers
    <2>2. left' \in [Workers -> 0..MaxAttempts]
      BY <1>4, <1>t, <1>c, <2>1 DEF BeginAttempt, TypeOK
    <2>3. pc' \in [Workers -> Stages]
      BY <1>4, <1>t, <1>c, <2>1 DEF BeginAttempt, TypeOK, Goto, Stages, Waiting
    <2>4. Bound'
      BY <1>4, <1>t, <1>c, <2>1 DEF BeginAttempt, Bound, Mgr, Goto, TypeOK, Managers
    <2> QED
      BY <1>4, <1>t, <2>2, <2>3, <2>4 DEF BeginAttempt, Typed, TypeOK
  <1>5. ASSUME NEW w \in Workers, PollEvent(w)
       PROVE  Typed'
    <2>1. Mgr(w) \in Managers
      BY <1>5, <1>t, <1>c DEF Bound, Managers, PollEvent
    <2>2. pc' \in [Workers -> Stages]
      BY <1>5, <1>t, <1>c, <2>1 DEF PollEvent, TypeOK, Goto, Stages, Waiting
    <2>3. Bound'
      BY <1>5, <1>t, <1>c, <2>1 DEF PollEvent, Bound, Mgr, Goto, TypeOK, Managers
    <2> QED
      BY <1>5, <1>t, <2>2, <2>3 DEF PollEvent, Typed, TypeOK
  <1>6. ASSUME NEW w \in Workers, AcquireTimesOut(w)
       PROVE  Typed'
    <2>1. Mgr(w) \in Managers
      BY <1>6, <1>t, <1>c DEF Bound, Managers, AcquireTimesOut
    <2>2. pc' \in [Workers -> Stages]
      BY <1>6, <1>t, <1>c, <2>1 DEF AcquireTimesOut, TypeOK, Goto, Stages, Waiting
    <2>3. Bound'
      BY <1>6, <1>t, <1>c, <2>1 DEF AcquireTimesOut, Bound, Mgr, Goto, TypeOK, Managers
    <2> QED
      BY <1>6, <1>t, <2>2, <2>3 DEF AcquireTimesOut, Typed, TypeOK
  <1>7. ASSUME NEW w \in Workers, AcquireHost(w)
       PROVE  Typed'
    <2>1. Mgr(w) \in Managers
      BY <1>7, <1>t, <1>c DEF Bound, Managers, AcquireHost
    <2>2. hostLock' \in [Managers -> [Hosts -> Workers \cup {NoWorker}]]
      BY <1>7, <1>t, <1>c, <2>1 DEF AcquireHost, TypeOK
    <2>3. age[Mgr(w)][Host(w)] \in 0..Spacing
      BY <1>7, <1>t, <1>c, <2>1 DEF TypeOK
    <2>4. wait' \in [Workers -> 0..Spacing]
      BY <1>7, <1>t, <1>c, <2>1, <2>3 DEF AcquireHost, TypeOK
    <2>5. pc' \in [Workers -> Stages]
      BY <1>7, <1>t, <1>c, <2>1, <2>3 DEF AcquireHost, TypeOK, Goto, Stages, Waiting
    <2>6. Bound'
      BY <1>7, <1>t, <1>c, <2>1, <2>3 DEF AcquireHost, Bound, Mgr, Goto, TypeOK, Managers
    <2> QED
      BY <1>7, <1>t, <2>2, <2>4, <2>5, <2>6 DEF AcquireHost, Typed, TypeOK
  <1>8. ASSUME NEW w \in Workers, WaitSpacing(w)
       PROVE  Typed'
    <2>1. Mgr(w) \in Managers
      BY <1>8, <1>t, <1>c DEF Bound, Managers, WaitSpacing
    <2>2. hostLock' \in [Managers -> [Hosts -> Workers \cup {NoWorker}]]
      <3>1. \/ hostLock' = [hostLock EXCEPT ![Mgr(w)][Host(w)] = NoWorker]
            \/ UNCHANGED hostLock
        BY <1>8 DEF WaitSpacing
      <3>2. CASE hostLock' = [hostLock EXCEPT ![Mgr(w)][Host(w)] = NoWorker]
        BY <1>t, <1>c, <2>1, <3>2 DEF TypeOK
      <3> QED
        BY <1>t, <3>1, <3>2 DEF TypeOK
    <2>3. wait' \in [Workers -> 0..Spacing]
      BY <1>8, <1>t, <1>c, <2>1 DEF WaitSpacing, TypeOK
    <2>4. pc' \in [Workers -> Stages]
      BY <1>8, <1>t, <1>c, <2>1 DEF WaitSpacing, TypeOK, Goto, Stages, Waiting
    <2>5. Bound'
      BY <1>8, <1>t, <1>c, <2>1 DEF WaitSpacing, Bound, Mgr, Goto, TypeOK, Managers
    <2> QED
      BY <1>8, <1>t, <2>2, <2>3, <2>4, <2>5 DEF WaitSpacing, Typed, TypeOK
  <1>9. ASSUME NEW w \in Workers, Launch(w)
       PROVE  Typed'
    <2>1. Mgr(w) \in Managers
      BY <1>9, <1>t, <1>c DEF Bound, Managers, Launch
    <2>2. age' \in [Managers -> [Hosts -> 0..Spacing]]
      BY <1>9, <1>t, <1>c, <2>1 DEF Launch, TypeOK
    <2>3. hostLock' \in [Managers -> [Hosts -> Workers \cup {NoWorker}]]
      BY <1>9, <1>t, <1>c, <2>1 DEF Launch, TypeOK
    <2>4. pc' \in [Workers -> Stages]
      BY <1>9, <1>t, <1>c, <2>1 DEF Launch, TypeOK, Goto, Stages, Waiting
    <2>5. Bound'
      BY <1>9, <1>t, <1>c, <2>1 DEF Launch, Bound, Mgr, Goto, TypeOK, Managers
    <2> QED
      BY <1>9, <1>t, <2>2, <2>3, <2>4, <2>5 DEF Launch, Typed, TypeOK
  <1>10. ASSUME NEW w \in Workers, AcquireSlot(w)
       PROVE  Typed'
    <2>1. Mgr(w) \in Managers
      BY <1>10, <1>t, <1>c DEF Bound, Managers, AcquireSlot
    <2>2. permits' \in [Managers -> 0..Parallelism]
      BY <1>10, <1>t, <1>c, <2>1 DEF AcquireSlot, TypeOK
    <2>4. pc' \in [Workers -> Stages]
      BY <1>10, <1>t, <1>c, <2>1 DEF AcquireSlot, TypeOK, Goto, Stages, Waiting
    <2>5. Bound'
      BY <1>10, <1>t, <1>c, <2>1 DEF AcquireSlot, Bound, Mgr, Goto, TypeOK, Managers
    <2> QED
      BY <1>10, <1>t, <2>2, <2>4, <2>5 DEF AcquireSlot, Typed, TypeOK
  <1>11. ASSUME NEW w \in Workers, EndAttempt(w)
       PROVE  Typed'
    <2>1. Mgr(w) \in Managers
      BY <1>11, <1>t, <1>c DEF Bound, Managers, EndAttempt
    <2>2. permits' \in [Managers -> 0..Parallelism]
      BY <1>11, <1>t, <1>c, <2>1 DEF EndAttempt, TypeOK
    <2>3. pc' \in [Workers -> Stages]
      BY <1>11, <1>t, <1>c, <2>1 DEF EndAttempt, TypeOK, Goto, Stages, Waiting
    <2>4. Bound'
      BY <1>11, <1>t, <1>c, <2>1 DEF EndAttempt, Bound, Mgr, Goto, TypeOK, Managers
    <2> QED
      BY <1>11, <1>t, <2>2, <2>3, <2>4 DEF EndAttempt, Typed, TypeOK
  <1>12. ASSUME Tick
       PROVE  Typed'
    <2>1. age' \in [Managers -> [Hosts -> 0..Spacing]]
      BY <1>12, <1>t, <1>c DEF Tick, TypeOK
    <2>3. wait' \in [Workers -> 0..Spacing]
      BY <1>12, <1>t, <1>c DEF Tick, TypeOK
    <2>4. Bound'
      BY <1>12, <1>t, <1>c DEF Tick, Bound, Mgr, Goto, TypeOK, Managers
    <2> QED
      BY <1>12, <1>t, <2>1, <2>3, <2>4 DEF Tick, Typed, TypeOK
  <1>13. ASSUME UNCHANGED vars
       PROVE  Typed'
    <2>1. Bound'
      BY <1>13, <1>t, <1>c DEF vars, Bound, Mgr, Goto, TypeOK, Managers
    <2> QED
      BY <1>13, <1>t, <2>1 DEF vars, Typed, TypeOK
  <1> QED
    BY <1>1, <1>2, <1>3, <1>4, <1>5, <1>6, <1>7,
       <1>8, <1>9, <1>10, <1>11, <1>12, <1>13
    DEF Next, WaiterStep

-----------------------------------------------------------------------------
(* The lock of a host. *)

(* No lock is held at the start. *)
LEMMA HostLockInit == Init => HostLockFollowsLaunch
  BY ConstantsAssumption DEF Init, HostLockFollowsLaunch

(* Launching: between the acquire and the release of the lock of the host. *)
Launching(w) == pc[w] \in {"spacing", "launch"}

(* A step that touches no lock and lets nobody begin or end a launch. *)
LEMMA LocksKept ==
    ASSUME HostLockFollowsLaunch, UNCHANGED hostLock,
           \A w \in Workers : Launching(w)' <=> Launching(w),
           \A w \in Workers : Launching(w) => Mgr(w)' = Mgr(w)
    PROVE  HostLockFollowsLaunch'
  <1>1. \A w \in Workers : Host(w)' = Host(w)
    BY DEF Host
  <1> QED
    BY <1>1 DEF HostLockFollowsLaunch, Launching

(* A step that hands the lock of one host to one worker, or takes it away. *)
LEMMA OneLockMoves ==
    ASSUME HostLockFollowsLaunch, Typed, NEW w \in Workers, UNCHANGED manager,
           NEW holder \in {w, NoWorker}, Mgr(w) \in Managers,
           hostLock[Mgr(w)][Host(w)] \in {w, NoWorker},
           hostLock' = [hostLock EXCEPT ![Mgr(w)][Host(w)] = holder],
           Launching(w)' <=> holder = w,
           \A u \in Workers \ {w} : Launching(u)' <=> Launching(u)
    PROVE  HostLockFollowsLaunch'
  <1>1. Host(w) \in Hosts
    BY ConstantsAssumption DEF Host
  <1>2. \A u \in Workers : Mgr(u)' = Mgr(u) /\ Host(u)' = Host(u)
    BY DEF Mgr, Host
  <1>3. \A m \in Managers, h \in Hosts :
          hostLock'[m][h] = IF m = Mgr(w) /\ h = Host(w) THEN holder ELSE hostLock[m][h]
    BY <1>1 DEF Typed, TypeOK
  <1>4. NoWorker \notin Workers
    BY ConstantsAssumption
  <1> QED
    BY <1>1, <1>2, <1>3, <1>4 DEF HostLockFollowsLaunch, Launching

(* Acquiring needs a free lock, and every way out of the launch frees it. *)
LEMMA HostLockStep ==
    Typed /\ HostLockFollowsLaunch /\ [Next]_vars => HostLockFollowsLaunch'
  <1> SUFFICES ASSUME Typed, HostLockFollowsLaunch, [Next]_vars
               PROVE  HostLockFollowsLaunch'
    OBVIOUS
  <1>m. \A w \in Workers : pc[w] # "idle" => Mgr(w) \in Managers
    BY DEF Typed, Bound
  <1>p. pc \in [Workers -> Stages]
    BY DEF Typed, TypeOK
  <1>1. ASSUME NEW e \in Engines, StartEngine(e)
       PROVE  HostLockFollowsLaunch'
    <2>1. UNCHANGED <<hostLock, pc>>
      BY <1>1 DEF StartEngine
    <2>2. \A u \in Workers : EngineOf[u] = e => Mgr(u) \notin Managers
      BY <1>1, ConstantsAssumption DEF StartEngine, Mgr, Managers
    <2>3. \A u \in Workers : Launching(u) => Mgr(u)' = Mgr(u)
      BY <1>1, <1>m, <2>2, ConstantsAssumption DEF StartEngine, Mgr, Launching, Typed, TypeOK
    <2> QED
      BY <2>1, <2>3, LocksKept DEF Launching
  <1>2. ASSUME NEW e \in Engines, CancelRun(e)
       PROVE  HostLockFollowsLaunch'
    <2>1. UNCHANGED hostLock /\ \A u \in Workers : Launching(u)' <=> Launching(u)
      BY <1>2, <1>p DEF CancelRun, Launching
    <2>2. \A u \in Workers : Mgr(u)' = Mgr(u)
      BY <1>2 DEF CancelRun, Mgr
    <2> QED
      BY <2>1, <2>2, LocksKept
  <1>3. ASSUME SaveSettings
       PROVE  HostLockFollowsLaunch'
    <2>1. UNCHANGED <<hostLock, manager, pc>>
      BY <1>3 DEF SaveSettings
    <2> QED
      BY <2>1, LocksKept DEF Launching, Mgr
  <1>4. ASSUME NEW w \in Workers, BeginAttempt(w)
       PROVE  HostLockFollowsLaunch'
    <2>1. UNCHANGED hostLock /\ \A u \in Workers : Launching(u)' <=> Launching(u)
      BY <1>4, <1>p DEF BeginAttempt, Launching, Goto
    <2>2. \A u \in Workers : Mgr(u)' = Mgr(u)
      BY <1>4 DEF BeginAttempt, Mgr
    <2> QED
      BY <2>1, <2>2, LocksKept
  <1>5. ASSUME NEW w \in Workers, PollEvent(w)
       PROVE  HostLockFollowsLaunch'
    <2>1. UNCHANGED hostLock /\ \A u \in Workers : Launching(u)' <=> Launching(u)
      BY <1>5, <1>p DEF PollEvent, Launching, Goto
    <2>2. \A u \in Workers : Mgr(u)' = Mgr(u)
      BY <1>5 DEF PollEvent, Mgr
    <2> QED
      BY <2>1, <2>2, LocksKept
  <1>6. ASSUME NEW w \in Workers, AcquireTimesOut(w)
       PROVE  HostLockFollowsLaunch'
    <2>1. UNCHANGED hostLock /\ \A u \in Workers : Launching(u)' <=> Launching(u)
      BY <1>6, <1>p DEF AcquireTimesOut, Launching, Goto
    <2>2. \A u \in Workers : Mgr(u)' = Mgr(u)
      BY <1>6 DEF AcquireTimesOut, Mgr
    <2> QED
      BY <2>1, <2>2, LocksKept
  <1>7. ASSUME NEW w \in Workers, AcquireHost(w)
       PROVE  HostLockFollowsLaunch'
    <2>1. Mgr(w) \in Managers /\ UNCHANGED manager
      BY <1>7, <1>m DEF AcquireHost
    <2>2. hostLock[Mgr(w)][Host(w)] = NoWorker
      BY <1>7, <2>1, ConstantsAssumption DEF AcquireHost, HostLockFollowsLaunch, Host
    <2>3. hostLock' = [hostLock EXCEPT ![Mgr(w)][Host(w)] = w]
      BY <1>7 DEF AcquireHost
    <2>4. (Launching(w)' <=> w = w)
          /\ \A u \in Workers \ {w} : Launching(u)' <=> Launching(u)
      BY <1>7, <1>p, ConstantsAssumption DEF AcquireHost, Launching, Goto
    <2> QED
      BY <2>1, <2>2, <2>3, <2>4, OneLockMoves
  <1>8. ASSUME NEW w \in Workers, WaitSpacing(w)
       PROVE  HostLockFollowsLaunch'
    <2>a. CASE Cancelled(w)
      <3>1. Mgr(w) \in Managers /\ UNCHANGED manager
        BY <1>8, <2>a, <1>m DEF WaitSpacing
      <3>2. hostLock[Mgr(w)][Host(w)] = w
        BY <1>8, <2>a, <3>1, ConstantsAssumption DEF WaitSpacing, HostLockFollowsLaunch, Host
      <3>3. hostLock' = [hostLock EXCEPT ![Mgr(w)][Host(w)] = NoWorker]
        BY <1>8, <2>a DEF WaitSpacing
      <3>4. (Launching(w)' <=> NoWorker = w)
            /\ \A u \in Workers \ {w} : Launching(u)' <=> Launching(u)
        BY <1>8, <2>a, <1>p, ConstantsAssumption DEF WaitSpacing, Launching, Goto
      <3> QED
        BY <3>1, <3>2, <3>3, <3>4, OneLockMoves
    <2>b. CASE ~Cancelled(w)
      <3>1. UNCHANGED hostLock /\ \A u \in Workers : Launching(u)' <=> Launching(u)
        BY <1>8, <2>b, <1>p DEF WaitSpacing, Launching, Goto
      <3>2. \A u \in Workers : Mgr(u)' = Mgr(u)
        BY <1>8 DEF WaitSpacing, Mgr
      <3> QED
        BY <3>1, <3>2, LocksKept
    <2> QED
      BY <2>a, <2>b
  <1>9. ASSUME NEW w \in Workers, Launch(w)
       PROVE  HostLockFollowsLaunch'
    <2>1. Mgr(w) \in Managers /\ UNCHANGED manager
      BY <1>9, <1>m DEF Launch
    <2>2. hostLock[Mgr(w)][Host(w)] = w
      BY <1>9, <2>1, ConstantsAssumption DEF Launch, HostLockFollowsLaunch, Host
    <2>3. hostLock' = [hostLock EXCEPT ![Mgr(w)][Host(w)] = NoWorker]
      BY <1>9 DEF Launch
    <2>4. (Launching(w)' <=> NoWorker = w)
          /\ \A u \in Workers \ {w} : Launching(u)' <=> Launching(u)
      BY <1>9, <1>p, ConstantsAssumption DEF Launch, Launching, Goto
    <2> QED
      BY <2>1, <2>2, <2>3, <2>4, OneLockMoves
  <1>10. ASSUME NEW w \in Workers, AcquireSlot(w)
       PROVE  HostLockFollowsLaunch'
    <2>1. UNCHANGED hostLock /\ \A u \in Workers : Launching(u)' <=> Launching(u)
      BY <1>10, <1>p DEF AcquireSlot, Launching, Goto
    <2>2. \A u \in Workers : Mgr(u)' = Mgr(u)
      BY <1>10 DEF AcquireSlot, Mgr
    <2> QED
      BY <2>1, <2>2, LocksKept
  <1>11. ASSUME NEW w \in Workers, EndAttempt(w)
       PROVE  HostLockFollowsLaunch'
    <2>1. UNCHANGED hostLock /\ \A u \in Workers : Launching(u)' <=> Launching(u)
      BY <1>11, <1>p DEF EndAttempt, Launching, Goto
    <2>2. \A u \in Workers : Mgr(u)' = Mgr(u)
      BY <1>11 DEF EndAttempt, Mgr
    <2> QED
      BY <2>1, <2>2, LocksKept
  <1>12. ASSUME Tick
       PROVE  HostLockFollowsLaunch'
    <2>1. UNCHANGED hostLock /\ \A u \in Workers : Launching(u)' <=> Launching(u)
      BY <1>12, <1>p DEF Tick, Launching
    <2>2. \A u \in Workers : Mgr(u)' = Mgr(u)
      BY <1>12 DEF Tick, Mgr
    <2> QED
      BY <2>1, <2>2, LocksKept
  <1>13. ASSUME UNCHANGED vars
       PROVE  HostLockFollowsLaunch'
    <2>1. UNCHANGED hostLock /\ \A u \in Workers : Launching(u)' <=> Launching(u)
      BY <1>13, <1>p DEF vars, Launching
    <2>2. \A u \in Workers : Mgr(u)' = Mgr(u)
      BY <1>13 DEF vars, Mgr
    <2> QED
      BY <2>1, <2>2, LocksKept
  <1> QED
    BY <1>1, <1>2, <1>3, <1>4, <1>5, <1>6, <1>7,
       <1>8, <1>9, <1>10, <1>11, <1>12, <1>13
    DEF Next, WaiterStep

-----------------------------------------------------------------------------
(* The spacing. *)

(* What the code reads as the time since the last launch at the host of w. *)
Elapsed(w) == age[Mgr(w)][Host(w)]

(* What has elapsed since the last launch and what is left of the wait add up
   to the spacing, and nothing is left when the launch is recorded. *)
SpacingWaited ==
    \A w \in Workers :
        /\ pc[w] = "spacing" => Elapsed(w) + wait[w] >= Spacing
        /\ pc[w] = "launch" => Elapsed(w) = Spacing

(* A launching worker has a manager, so its times are numbers. *)
LEMMA Times ==
    ASSUME Typed, NEW w \in Workers, pc[w] # "idle"
    PROVE  Elapsed(w) \in 0..Spacing /\ wait[w] \in 0..Spacing /\ Spacing \in Nat
  <1>1. Mgr(w) \in Managers /\ Host(w) \in Hosts
    BY ConstantsAssumption DEF Typed, Bound, Host
  <1> QED
    BY <1>1, ConstantsAssumption DEF Typed, TypeOK, Elapsed

(* Only the holder of the lock of a host resets the time since its last
   launch, and the clock moves the time and the wait together. *)
LEMMA SpacingStep ==
    Typed /\ HostLockFollowsLaunch /\ SpacingWaited /\ [Next]_vars => SpacingWaited'
  <1> SUFFICES ASSUME Typed, HostLockFollowsLaunch, SpacingWaited, [Next]_vars
               PROVE  SpacingWaited'
    OBVIOUS
  <1>p. pc \in [Workers -> Stages] /\ wait \in [Workers -> 0..Spacing]
    BY DEF Typed, TypeOK
  <1>h. \A w \in Workers : Host(w) \in Hosts /\ Host(w)' = Host(w)
    BY ConstantsAssumption DEF Host
  <1>m. \A w \in Workers : pc[w] # "idle" => Mgr(w) \in Managers
    BY DEF Typed, Bound
  <1>1. ASSUME NEW e \in Engines, StartEngine(e)
       PROVE  SpacingWaited'
    <2>1. UNCHANGED <<age, pc, wait>>
      BY <1>1 DEF StartEngine
    <2>2. \A u \in Workers : EngineOf[u] = e => Mgr(u) \notin Managers
      BY <1>1, ConstantsAssumption DEF StartEngine, Mgr, Managers
    <2>3. \A u \in Workers : Launching(u) => Mgr(u)' = Mgr(u)
      BY <1>1, <1>m, <2>2, ConstantsAssumption DEF StartEngine, Mgr, Launching, Typed, TypeOK
    <2>4. \A u \in Workers : Launching(u) => Elapsed(u)' = Elapsed(u)
      BY <1>h, <2>1, <2>3 DEF Elapsed
    <2> QED
      BY <2>1, <2>4 DEF SpacingWaited, Launching
  <1>2. ASSUME NEW e \in Engines, CancelRun(e)
       PROVE  SpacingWaited'
    <2>1. \A u \in Workers : Elapsed(u)' = Elapsed(u)
      BY <1>2, <1>h DEF CancelRun, Elapsed, Mgr
    <2>2. \A u \in Workers : wait'[u] = wait[u] /\ (Launching(u)' => pc'[u] = pc[u])
      BY <1>2, <1>p DEF CancelRun, Launching
    <2> QED
      BY <2>1, <2>2 DEF SpacingWaited, Launching
  <1>3. ASSUME SaveSettings
       PROVE  SpacingWaited'
    <2>1. \A u \in Workers : Elapsed(u)' = Elapsed(u)
      BY <1>3, <1>h DEF SaveSettings, Elapsed, Mgr
    <2>2. \A u \in Workers : wait'[u] = wait[u] /\ (Launching(u)' => pc'[u] = pc[u])
      BY <1>3, <1>p DEF SaveSettings, Launching
    <2> QED
      BY <2>1, <2>2 DEF SpacingWaited, Launching
  <1>4. ASSUME NEW w \in Workers, BeginAttempt(w)
       PROVE  SpacingWaited'
    <2>1. \A u \in Workers : Elapsed(u)' = Elapsed(u)
      BY <1>4, <1>h DEF BeginAttempt, Elapsed, Mgr
    <2>2. \A u \in Workers : wait'[u] = wait[u] /\ (Launching(u)' => pc'[u] = pc[u])
      BY <1>4, <1>p DEF BeginAttempt, Launching, Goto
    <2> QED
      BY <2>1, <2>2 DEF SpacingWaited, Launching
  <1>5. ASSUME NEW w \in Workers, PollEvent(w)
       PROVE  SpacingWaited'
    <2>1. \A u \in Workers : Elapsed(u)' = Elapsed(u)
      BY <1>5, <1>h DEF PollEvent, Elapsed, Mgr
    <2>2. \A u \in Workers : wait'[u] = wait[u] /\ (Launching(u)' => pc'[u] = pc[u])
      BY <1>5, <1>p DEF PollEvent, Launching, Goto
    <2> QED
      BY <2>1, <2>2 DEF SpacingWaited, Launching
  <1>6. ASSUME NEW w \in Workers, AcquireTimesOut(w)
       PROVE  SpacingWaited'
    <2>1. \A u \in Workers : Elapsed(u)' = Elapsed(u)
      BY <1>6, <1>h DEF AcquireTimesOut, Elapsed, Mgr
    <2>2. \A u \in Workers : wait'[u] = wait[u] /\ (Launching(u)' => pc'[u] = pc[u])
      BY <1>6, <1>p DEF AcquireTimesOut, Launching, Goto
    <2> QED
      BY <2>1, <2>2 DEF SpacingWaited, Launching
  <1>7. ASSUME NEW w \in Workers, AcquireHost(w)
       PROVE  SpacingWaited'
    <2>1. Elapsed(w) \in 0..Spacing /\ Spacing \in Nat
      BY <1>7, Times DEF AcquireHost
    <2>2. \A u \in Workers : Elapsed(u)' = Elapsed(u)
      BY <1>7, <1>h DEF AcquireHost, Elapsed, Mgr
    <2>3. /\ wait'[w] = Spacing - Elapsed(w)
          /\ pc'[w] = IF Elapsed(w) < Spacing THEN "spacing" ELSE "launch"
          /\ \A u \in Workers \ {w} : pc'[u] = pc[u] /\ wait'[u] = wait[u]
      BY <1>7, <1>p DEF AcquireHost, Elapsed, Goto
    <2> QED
      BY <2>1, <2>2, <2>3 DEF SpacingWaited
  <1>8. ASSUME NEW w \in Workers, WaitSpacing(w)
       PROVE  SpacingWaited'
    <2>1. Elapsed(w) \in 0..Spacing /\ Spacing \in Nat
      BY <1>8, Times DEF WaitSpacing
    <2>2. \A u \in Workers : Elapsed(u)' = Elapsed(u)
      BY <1>8, <1>h DEF WaitSpacing, Elapsed, Mgr
    <2>3. /\ pc[w] = "spacing" /\ pc'[w] \in {"idle", "launch"}
          /\ pc'[w] = "launch" => wait[w] = 0
          /\ \A u \in Workers \ {w} : pc'[u] = pc[u] /\ wait'[u] = wait[u]
      BY <1>8, <1>p DEF WaitSpacing, Goto
    <2> QED
      BY <2>1, <2>2, <2>3 DEF SpacingWaited
  <1>9. ASSUME NEW w \in Workers, Launch(w)
       PROVE  SpacingWaited'
    <2>1. Mgr(w) \in Managers
      BY <1>9, <1>m DEF Launch
    <2>2. \A u \in Workers \ {w} :
            Launching(u) => Mgr(u) # Mgr(w) \/ Host(u) # Host(w)
      BY <1>9, <1>h, <2>1 DEF Launch, HostLockFollowsLaunch, Launching
    <2>3. \A m \in Managers, h \in Hosts :
            m # Mgr(w) \/ h # Host(w) => age'[m][h] = age[m][h]
      BY <1>9, <1>h, <2>1 DEF Launch, Typed, TypeOK
    <2>4. \A u \in Workers \ {w} : Launching(u) => Elapsed(u)' = Elapsed(u)
      <3>1. \A u \in Workers : Mgr(u)' = Mgr(u)
        BY <1>9 DEF Launch, Mgr
      <3>2. \A u \in Workers : Launching(u) => Mgr(u) \in Managers
        BY <1>m DEF Launching
      <3> QED
        BY <1>h, <2>2, <2>3, <3>1, <3>2 DEF Elapsed
    <2>5. /\ pc'[w] = "slot" /\ UNCHANGED wait
          /\ \A u \in Workers \ {w} : pc'[u] = pc[u]
      BY <1>9, <1>p DEF Launch, Goto
    <2> QED
      BY <2>4, <2>5 DEF SpacingWaited, Launching
  <1>10. ASSUME NEW w \in Workers, AcquireSlot(w)
       PROVE  SpacingWaited'
    <2>1. \A u \in Workers : Elapsed(u)' = Elapsed(u)
      BY <1>10, <1>h DEF AcquireSlot, Elapsed, Mgr
    <2>2. \A u \in Workers : wait'[u] = wait[u] /\ (Launching(u)' => pc'[u] = pc[u])
      BY <1>10, <1>p DEF AcquireSlot, Launching, Goto
    <2> QED
      BY <2>1, <2>2 DEF SpacingWaited, Launching
  <1>11. ASSUME NEW w \in Workers, EndAttempt(w)
       PROVE  SpacingWaited'
    <2>1. \A u \in Workers : Elapsed(u)' = Elapsed(u)
      BY <1>11, <1>h DEF EndAttempt, Elapsed, Mgr
    <2>2. \A u \in Workers : wait'[u] = wait[u] /\ (Launching(u)' => pc'[u] = pc[u])
      BY <1>11, <1>p DEF EndAttempt, Launching, Goto
    <2> QED
      BY <2>1, <2>2 DEF SpacingWaited, Launching
  <1>12. ASSUME Tick
       PROVE  SpacingWaited'
    <2>1. UNCHANGED <<manager, pc>>
      BY <1>12 DEF Tick
    <2> SUFFICES ASSUME NEW w \in Workers, Launching(w)
                 PROVE  /\ pc[w] = "spacing" => Elapsed(w)' + wait'[w] >= Spacing
                        /\ pc[w] = "launch" => Elapsed(w)' = Spacing
      BY <2>1 DEF SpacingWaited, Launching
    <2>2. Mgr(w) \in Managers /\ Mgr(w)' = Mgr(w)
      BY <1>m, <2>1 DEF Launching, Mgr
    <2>3. Elapsed(w)' = IF Elapsed(w) < Spacing THEN Elapsed(w) + 1 ELSE Spacing
      BY <1>12, <1>h, <2>2 DEF Tick, Elapsed
    <2>4. wait'[w] = IF wait[w] > 0 THEN wait[w] - 1 ELSE 0
      BY <1>12 DEF Tick
    <2>5. Elapsed(w) \in 0..Spacing /\ wait[w] \in 0..Spacing /\ Spacing \in Nat
      BY Times DEF Launching
    <2> QED
      BY <2>3, <2>4, <2>5 DEF SpacingWaited
  <1>13. ASSUME UNCHANGED vars
       PROVE  SpacingWaited'
    <2>1. \A u \in Workers : Elapsed(u)' = Elapsed(u)
      BY <1>13, <1>h DEF vars, Elapsed, Mgr
    <2>2. \A u \in Workers : wait'[u] = wait[u] /\ (Launching(u)' => pc'[u] = pc[u])
      BY <1>13, <1>p DEF vars, Launching
    <2> QED
      BY <2>1, <2>2 DEF SpacingWaited, Launching
  <1> QED
    BY <1>1, <1>2, <1>3, <1>4, <1>5, <1>6, <1>7,
       <1>8, <1>9, <1>10, <1>11, <1>12, <1>13
    DEF Next, WaiterStep

-----------------------------------------------------------------------------
(* The permits. *)

(* No attempt runs at the start. *)
LEMMA PermitsInit == Init => PermitsConserved
  <1> SUFFICES ASSUME Init, NEW m \in Managers
               PROVE  permits[m] + Cardinality(AttemptsOf(m)) = Parallelism
    BY DEF PermitsConserved
  <1>1. AttemptsOf(m) = {} /\ permits[m] = Parallelism
    BY DEF Init, AttemptsOf
  <1> QED
    BY <1>1, FS_EmptySet, ConstantsAssumption

(* The attempts of a manager are finitely many. *)
LEMMA AttemptsFinite ==
    ASSUME NEW m \in Managers
    PROVE  IsFiniteSet(AttemptsOf(m)) /\ Cardinality(AttemptsOf(m)) \in Nat
  BY FS_Subset, FS_CardinalityType, ConstantsAssumption DEF AttemptsOf

(* A step that starts and ends no attempt keeps the sets of attempts. *)
LEMMA AttemptsKept ==
    ASSUME PermitsConserved, UNCHANGED permits,
           \A m \in Managers : AttemptsOf(m)' = AttemptsOf(m)
    PROVE  PermitsConserved'
  BY DEF PermitsConserved

(* A permit is taken with the attempt that needs it and returned with it. *)
LEMMA PermitsStep == Typed /\ PermitsConserved /\ [Next]_vars => PermitsConserved'
  <1> SUFFICES ASSUME Typed, PermitsConserved, [Next]_vars
               PROVE  PermitsConserved'
    OBVIOUS
  <1>p. pc \in [Workers -> Stages] /\ permits \in [Managers -> 0..Parallelism]
    BY DEF Typed, TypeOK
  <1>m. \A w \in Workers : pc[w] # "idle" => Mgr(w) \in Managers
    BY DEF Typed, Bound
  <1>1. ASSUME NEW e \in Engines, StartEngine(e)
       PROVE  PermitsConserved'
    <2>1. UNCHANGED <<permits, pc>>
      BY <1>1 DEF StartEngine
    <2>2. \A u \in Workers : EngineOf[u] = e => Mgr(u) \notin Managers
      BY <1>1, ConstantsAssumption DEF StartEngine, Mgr, Managers
    <2>3. \A u \in Workers : pc[u] = "attempt" => Mgr(u)' = Mgr(u)
      BY <1>1, <1>m, <2>2, ConstantsAssumption DEF StartEngine, Mgr, Typed, TypeOK
    <2> QED
      BY <2>1, <2>3, AttemptsKept DEF AttemptsOf
  <1>2. ASSUME NEW e \in Engines, CancelRun(e)
       PROVE  PermitsConserved'
    <2>1. UNCHANGED <<permits, manager>>
      BY <1>2 DEF CancelRun
    <2>2. \A u \in Workers : pc'[u] = "attempt" <=> pc[u] = "attempt"
      BY <1>2, <1>p DEF CancelRun
    <2> QED
      BY <2>1, <2>2, AttemptsKept DEF AttemptsOf, Mgr
  <1>3. ASSUME SaveSettings
       PROVE  PermitsConserved'
    <2>1. UNCHANGED <<permits, manager>>
      BY <1>3 DEF SaveSettings
    <2>2. \A u \in Workers : pc'[u] = "attempt" <=> pc[u] = "attempt"
      BY <1>3, <1>p DEF SaveSettings
    <2> QED
      BY <2>1, <2>2, AttemptsKept DEF AttemptsOf, Mgr
  <1>4. ASSUME NEW w \in Workers, BeginAttempt(w)
       PROVE  PermitsConserved'
    <2>1. UNCHANGED <<permits, manager>>
      BY <1>4 DEF BeginAttempt
    <2>2. \A u \in Workers : pc'[u] = "attempt" <=> pc[u] = "attempt"
      BY <1>4, <1>p DEF BeginAttempt, Goto
    <2> QED
      BY <2>1, <2>2, AttemptsKept DEF AttemptsOf, Mgr
  <1>5. ASSUME NEW w \in Workers, PollEvent(w)
       PROVE  PermitsConserved'
    <2>1. UNCHANGED <<permits, manager>>
      BY <1>5 DEF PollEvent
    <2>2. \A u \in Workers : pc'[u] = "attempt" <=> pc[u] = "attempt"
      BY <1>5, <1>p DEF PollEvent, Goto
    <2> QED
      BY <2>1, <2>2, AttemptsKept DEF AttemptsOf, Mgr
  <1>6. ASSUME NEW w \in Workers, AcquireTimesOut(w)
       PROVE  PermitsConserved'
    <2>1. UNCHANGED <<permits, manager>>
      BY <1>6 DEF AcquireTimesOut
    <2>2. \A u \in Workers : pc'[u] = "attempt" <=> pc[u] = "attempt"
      BY <1>6, <1>p DEF AcquireTimesOut, Goto
    <2> QED
      BY <2>1, <2>2, AttemptsKept DEF AttemptsOf, Mgr
  <1>7. ASSUME NEW w \in Workers, AcquireHost(w)
       PROVE  PermitsConserved'
    <2>1. UNCHANGED <<permits, manager>>
      BY <1>7 DEF AcquireHost
    <2>2. \A u \in Workers : pc'[u] = "attempt" <=> pc[u] = "attempt"
      BY <1>7, <1>p DEF AcquireHost, Goto
    <2> QED
      BY <2>1, <2>2, AttemptsKept DEF AttemptsOf, Mgr
  <1>8. ASSUME NEW w \in Workers, WaitSpacing(w)
       PROVE  PermitsConserved'
    <2>1. UNCHANGED <<permits, manager>>
      BY <1>8 DEF WaitSpacing
    <2>2. \A u \in Workers : pc'[u] = "attempt" <=> pc[u] = "attempt"
      BY <1>8, <1>p DEF WaitSpacing, Goto
    <2> QED
      BY <2>1, <2>2, AttemptsKept DEF AttemptsOf, Mgr
  <1>9. ASSUME NEW w \in Workers, Launch(w)
       PROVE  PermitsConserved'
    <2>1. UNCHANGED <<permits, manager>>
      BY <1>9 DEF Launch
    <2>2. \A u \in Workers : pc'[u] = "attempt" <=> pc[u] = "attempt"
      BY <1>9, <1>p DEF Launch, Goto
    <2> QED
      BY <2>1, <2>2, AttemptsKept DEF AttemptsOf, Mgr
  <1>10. ASSUME NEW w \in Workers, AcquireSlot(w)
       PROVE  PermitsConserved'
    <2>1. Mgr(w) \in Managers /\ w \notin AttemptsOf(Mgr(w)) /\ UNCHANGED manager
      BY <1>10, <1>m DEF AcquireSlot, AttemptsOf
    <2>2. \A u \in Workers : pc'[u] = IF u = w THEN "attempt" ELSE pc[u]
      BY <1>10, <1>p DEF AcquireSlot, Goto
    <2>3. /\ AttemptsOf(Mgr(w))' = AttemptsOf(Mgr(w)) \cup {w}
          /\ \A m \in Managers \ {Mgr(w)} : AttemptsOf(m)' = AttemptsOf(m)
      BY <2>1, <2>2 DEF AttemptsOf, Mgr
    <2>4. \A m \in Managers : permits'[m] =
            IF m = Mgr(w) THEN permits[m] - 1 ELSE permits[m]
      BY <1>10, <1>p DEF AcquireSlot
    <2>5. Cardinality(AttemptsOf(Mgr(w))') = Cardinality(AttemptsOf(Mgr(w))) + 1
      BY <2>1, <2>3, AttemptsFinite, FS_AddElement
    <2>6. \A m \in Managers : permits[m] \in Nat /\ Cardinality(AttemptsOf(m)) \in Nat
      BY <1>p, AttemptsFinite, ConstantsAssumption
    <2>7. permits'[Mgr(w)] + Cardinality(AttemptsOf(Mgr(w))') = Parallelism
      BY <2>1, <2>4, <2>5, <2>6 DEF PermitsConserved
    <2>8. Mgr(w)' = Mgr(w)
      BY <2>1 DEF Mgr
    <2>9. \A m \in Managers \ {Mgr(w)} : permits'[m] + Cardinality(AttemptsOf(m)') = Parallelism
      BY <2>3, <2>4 DEF PermitsConserved
    <2> QED
      BY <2>7, <2>8, <2>9 DEF PermitsConserved
  <1>11. ASSUME NEW w \in Workers, EndAttempt(w)
       PROVE  PermitsConserved'
    <2>1. Mgr(w) \in Managers /\ w \in AttemptsOf(Mgr(w)) /\ UNCHANGED manager
      BY <1>11, <1>m DEF EndAttempt, AttemptsOf
    <2>2. \A u \in Workers : pc'[u] = IF u = w THEN "idle" ELSE pc[u]
      BY <1>11, <1>p DEF EndAttempt, Goto
    <2>3. /\ AttemptsOf(Mgr(w))' = AttemptsOf(Mgr(w)) \ {w}
          /\ \A m \in Managers \ {Mgr(w)} : AttemptsOf(m)' = AttemptsOf(m)
      BY <2>1, <2>2 DEF AttemptsOf, Mgr
    <2>4. \A m \in Managers : permits'[m] =
            IF m = Mgr(w) THEN permits[m] + 1 ELSE permits[m]
      BY <1>11, <1>p DEF EndAttempt
    <2>5. Cardinality(AttemptsOf(Mgr(w))') = Cardinality(AttemptsOf(Mgr(w))) - 1
      BY <2>1, <2>3, AttemptsFinite, FS_RemoveElement
    <2>6. \A m \in Managers : permits[m] \in Nat /\ Cardinality(AttemptsOf(m)) \in Nat
      BY <1>p, AttemptsFinite, ConstantsAssumption
    <2>7. permits'[Mgr(w)] + Cardinality(AttemptsOf(Mgr(w))') = Parallelism
      BY <2>1, <2>4, <2>5, <2>6 DEF PermitsConserved
    <2>8. Mgr(w)' = Mgr(w)
      BY <2>1 DEF Mgr
    <2>9. \A m \in Managers \ {Mgr(w)} : permits'[m] + Cardinality(AttemptsOf(m)') = Parallelism
      BY <2>3, <2>4 DEF PermitsConserved
    <2> QED
      BY <2>7, <2>8, <2>9 DEF PermitsConserved
  <1>12. ASSUME Tick
       PROVE  PermitsConserved'
    <2>1. UNCHANGED <<permits, manager>>
      BY <1>12 DEF Tick
    <2>2. \A u \in Workers : pc'[u] = "attempt" <=> pc[u] = "attempt"
      BY <1>12, <1>p DEF Tick
    <2> QED
      BY <2>1, <2>2, AttemptsKept DEF AttemptsOf, Mgr
  <1>13. ASSUME UNCHANGED vars
       PROVE  PermitsConserved'
    <2>1. UNCHANGED <<permits, manager>>
      BY <1>13 DEF vars
    <2>2. \A u \in Workers : pc'[u] = "attempt" <=> pc[u] = "attempt"
      BY <1>13, <1>p DEF vars
    <2> QED
      BY <2>1, <2>2, AttemptsKept DEF AttemptsOf, Mgr
  <1> QED
    BY <1>1, <1>2, <1>3, <1>4, <1>5, <1>6, <1>7,
       <1>8, <1>9, <1>10, <1>11, <1>12, <1>13
    DEF Next, WaiterStep

(* While an attempt runs, its semaphore is not full. *)
LEMMA PermitInUse ==
    ASSUME Typed, PermitsConserved, NEW w \in Workers, pc[w] = "attempt"
    PROVE  permits[Mgr(w)] < Parallelism
  <1>1. Mgr(w) \in Managers /\ w \in AttemptsOf(Mgr(w))
    BY DEF Typed, Bound, AttemptsOf
  <1>2. Cardinality(AttemptsOf(Mgr(w))) \in Nat \ {0}
    BY <1>1, AttemptsFinite, FS_EmptySet
  <1>3. permits[Mgr(w)] \in Nat
    BY <1>1 DEF Typed, TypeOK
  <1> QED
    BY <1>1, <1>2, <1>3, ConstantsAssumption DEF PermitsConserved

-----------------------------------------------------------------------------
(* The theorems. *)

ThrottleInv ==
    Typed /\ HostLockFollowsLaunch /\ SpacingWaited /\ PermitsConserved

(* The invariant of the four lemmas on steps. *)
LEMMA ThrottleInvariant == Spec => []ThrottleInv
  <1>1. Init => ThrottleInv
    <2>1. Init => SpacingWaited
      BY DEF Init, SpacingWaited
    <2> QED
      BY <2>1, InitTyped, HostLockInit, PermitsInit DEF ThrottleInv
  <1>2. ThrottleInv /\ [Next]_vars => ThrottleInv'
    BY TypedStep, HostLockStep, SpacingStep, PermitsStep, PermitInUse DEF ThrottleInv
  <1> QED
    BY <1>1, <1>2, PTL DEF Spec

(* Every state is well typed: no wait exceeds the spacing and no semaphore has
   more permits than it was given. *)
THEOREM TypeCorrect == Spec => []TypeOK
  <1>1. ThrottleInv => TypeOK
    BY DEF ThrottleInv, Typed
  <1> QED
    BY <1>1, ThrottleInvariant, PTL

(* Permits are neither lost nor returned twice, so no manager ever runs more
   attempts than global_parallelism. *)
THEOREM NoPermitLost == Spec => []PermitsConserved
  <1>1. ThrottleInv => PermitsConserved
    BY DEF ThrottleInv
  <1> QED
    BY <1>1, ThrottleInvariant, PTL

(* The lock of a host never outlives the launch it protects. *)
THEOREM HostLockFreed == Spec => []HostLockFollowsLaunch
  <1>1. ThrottleInv => HostLockFollowsLaunch
    BY DEF ThrottleInv
  <1> QED
    BY <1>1, ThrottleInvariant, PTL

(* Any two launches of a manager at a host are the spacing apart. *)
THEOREM SpacingRespected == Spec => LaunchesSpaced
  <1>1. ThrottleInv =>
          \A w \in Workers : pc[w] = "launch" => age[Mgr(w)][Host(w)] = Spacing
    BY DEF ThrottleInv, SpacingWaited, Elapsed
  <1>2. ThrottleInv /\ [Next]_vars =>
          [\A w \in Workers : pc[w] = "launch" /\ pc'[w] = "slot" =>
              age[Mgr(w)][Host(w)] = Spacing]_vars
    BY <1>1
  <1> QED
    BY <1>2, ThrottleInvariant, PTL DEF Spec, LaunchesSpaced
=============================================================================
