-------------------------- MODULE SchedulerProofs ---------------------------
(***************************************************************************)
(* The safety properties of Scheduler hold for every number of slots and   *)
(* CPUs, every quantum and all nice values: IInv is inductive.             *)
(***************************************************************************)
EXTENDS SchedulerForkProofs, SchedulerExitProofs, SchedulerSwitchProofs

USE NPROCAssumption, CPUAssumption, QuantumAssumption, NiceAssumption
    DEF None, Slots, initproc

\* A step of a running process inside its own pc and killed fields
LEMMA LocalInv ==
    ASSUME IInv, NEW p \in Slots, state[p] = "RUNNING", pc[p] \in {"user", "syscall", "kernel"},
           NEW l \in {"user", "syscall", "exit"}, pc' = [pc EXCEPT ![p] = l],
           killed' \in [Slots -> BOOLEAN], \A t \in Slots : t # p => killed'[t] = killed[t],
           UNCHANGED <<state, pid, parent, chan, times, np, proc, ptlock, ticks, ticking, nextpid, torn, panicked, rqVars>>
    PROVE  IInv' /\ LifecycleStep /\ [RQNext]_rqVars
  <1>1. /\ state' = state /\ pid' = pid /\ parent' = parent /\ chan' = chan /\
           ticks_left' = ticks_left /\ nice_value' = nice_value /\
           virtual_deadline' = virtual_deadline /\ np' = np /\ proc' = proc /\
           ptlock' = ptlock /\ ticks' = ticks /\ ticking' = ticking /\ nextpid' = nextpid /\ torn' = torn /\
           panicked' = panicked /\ queue' = queue /\ before' = before
    BY DEF times, rqVars
  <1>2. /\ pc'[p] \in {"user", "syscall", "exit"}
        /\ \A t \in {None} \cup Slots : t # p => pc'[t] = pc[t]
    BY DEF IInv, TypeOK
  <1>3. \A t : OnCPU(t)' <=> OnCPU(t)
    BY <1>1 DEF OnCPU
  <1>4. \A t : Forking(t)' <=> Forking(t)
    BY <1>1, <1>2 DEF Forking
  <1>5. TypeOK'
    BY <1>1 DEF IInv, TypeOK, ControlPoints, Queued
  <1>6. QueueOrdered' /\ [RQNext]_rqVars
    BY <1>1 DEF IInv, QueueOrdered, TotalOrder, Queued, rqVars
  <1> USE <1>1, <1>2, <1>3, <1>4
  <1>7. PidInv' /\ UniquePids' /\ QuantumLeft' /\ LifecycleStep
    BY DEF IInv, PidInv, UniquePids, QuantumLeft, LifecycleStep
  <1>8. LockInv' /\ RunsOnce'
    BY DEF IInv, LockInv, RunsOnce
  <1>9. ForkInv'
    BY DEF IInv, ForkInv, Queued
  <1>10. QueueExact'
    BY DEF IInv, QueueExact, Queued
  <1>11. InitInv' /\ FamilyInv' /\ ParentAlive'
    BY DEF IInv, InitInv, FamilyInv, ParentAlive
  <1>12. NoMissedExit'
    BY DEF IInv, NoMissedExit, Children, ZombieChildren
  <1> QED BY <1>5, <1>6, <1>7, <1>8, <1>9, <1>10, <1>11, <1>12 DEF IInv

\* A system call begins
LEMMA SysEnterInv ==
    ASSUME IInv, NEW c \in CPUs, NEW p \in Slots, SysEnter(c, p)
    PROVE  IInv' /\ LifecycleStep /\ [RQNext]_rqVars
  <1>1. killed' \in [Slots -> BOOLEAN]
    BY DEF IInv, TypeOK, SysEnter, table
  <1> QED BY <1>1, LocalInv DEF SysEnter, Runs, Goto, table, times, rqVars

\* A system call ends
LEMMA SysReturnInv ==
    ASSUME IInv, NEW c \in CPUs, NEW p \in Slots, SysReturn(c, p)
    PROVE  IInv' /\ LifecycleStep /\ [RQNext]_rqVars
  <1>1. killed' \in [Slots -> BOOLEAN]
    BY DEF IInv, TypeOK, SysReturn, table
  <1> QED BY <1>1, LocalInv DEF SysReturn, Runs, Return, Goto, table, times, rqVars

\* sys_exit
LEMMA ExitCallInv ==
    ASSUME IInv, NEW c \in CPUs, NEW p \in Slots, ExitCall(c, p)
    PROVE  IInv' /\ LifecycleStep /\ [RQNext]_rqVars
  <1>1. killed' \in [Slots -> BOOLEAN]
    BY DEF IInv, TypeOK, ExitCall, table
  <1> QED BY <1>1, LocalInv DEF ExitCall, Calls, Runs, Goto, table, times, rqVars

\* trap() kills a process that faults
LEMMA UserFaultInv ==
    ASSUME IInv, NEW c \in CPUs, NEW p \in Slots, UserFault(c, p)
    PROVE  IInv' /\ LifecycleStep /\ [RQNext]_rqVars
  <1>1. /\ killed' \in [Slots -> BOOLEAN]
        /\ \A t \in Slots : t # p => killed'[t] = killed[t]
    BY DEF IInv, TypeOK, UserFault
  <1> QED BY <1>1, LocalInv DEF UserFault, Runs, Goto, table, times, rqVars

\* A step that changes torn and panicked only
LEMMA FrameInv ==
    ASSUME IInv, torn' \in BOOLEAN, panicked' \in BOOLEAN,
           UNCHANGED <<table, times, control, proc, ptlock, ticks, ticking, nextpid, rqVars>>
    PROVE  IInv' /\ LifecycleStep /\ [RQNext]_rqVars
  <1>1. /\ state' = state /\ pid' = pid /\ parent' = parent /\ chan' = chan /\
           killed' = killed /\ ticks_left' = ticks_left /\ nice_value' = nice_value /\
           virtual_deadline' = virtual_deadline /\ pc' = pc /\ np' = np /\
           proc' = proc /\ ptlock' = ptlock /\ ticks' = ticks /\ ticking' = ticking /\ nextpid' = nextpid /\
           queue' = queue /\ before' = before
    BY DEF table, times, control, rqVars
  <1>2. \A t : OnCPU(t)' <=> OnCPU(t)
    BY <1>1 DEF OnCPU
  <1>3. \A t : Forking(t)' <=> Forking(t)
    BY <1>1 DEF Forking
  <1>4. TypeOK'
    BY <1>1 DEF IInv, TypeOK, Queued
  <1>5. QueueOrdered' /\ [RQNext]_rqVars
    BY <1>1 DEF IInv, QueueOrdered, TotalOrder, Queued, rqVars
  <1> USE <1>1, <1>2, <1>3
  <1>6. PidInv' /\ UniquePids' /\ QuantumLeft' /\ LifecycleStep
    BY DEF IInv, PidInv, UniquePids, QuantumLeft, LifecycleStep
  <1>7. LockInv' /\ RunsOnce'
    BY DEF IInv, LockInv, RunsOnce
  <1>8. ForkInv'
    BY DEF IInv, ForkInv, Queued
  <1>9. QueueExact'
    BY DEF IInv, QueueExact, Queued
  <1>10. InitInv' /\ FamilyInv' /\ ParentAlive'
    BY DEF IInv, InitInv, FamilyInv, ParentAlive
  <1>11. NoMissedExit'
    BY DEF IInv, NoMissedExit, Children, ZombieChildren
  <1> QED BY <1>4, <1>5, <1>6, <1>7, <1>8, <1>9, <1>10, <1>11 DEF IInv

\* A step that changes nothing
LEMMA StutterInv ==
    ASSUME IInv, UNCHANGED vars
    PROVE  IInv' /\ LifecycleStep /\ [RQNext]_rqVars
  <1>1. torn' \in BOOLEAN /\ panicked' \in BOOLEAN
    BY DEF IInv, TypeOK, vars
  <1> QED BY <1>1, FrameInv DEF vars

\* exit() of init panics
LEMMA ExitPanicInv ==
    ASSUME IInv, NEW c \in CPUs, NEW p \in Slots, ExitPanic(c, p)
    PROVE  IInv' /\ LifecycleStep /\ [RQNext]_rqVars
  <1>1. torn' \in BOOLEAN /\ panicked' \in BOOLEAN
    BY DEF IInv, TypeOK, ExitPanic
  <1> QED BY <1>1, FrameInv DEF ExitPanic

\* The skip list is used while an unlocked insert_node is in progress
LEMMA OverlapInv ==
    ASSUME IInv, NEW c \in CPUs, NEW p \in {None} \cup Slots, Overlap(c, p)
    PROVE  IInv' /\ LifecycleStep /\ [RQNext]_rqVars
  <1>1. torn' \in BOOLEAN /\ panicked' \in BOOLEAN
    BY DEF IInv, TypeOK, Overlap
  <1> QED BY <1>1, FrameInv DEF Overlap

-----------------------------------------------------------------------------
\* The invariant holds when main() starts: every slot UNUSED, the list empty
LEMMA InitIInv ==
    ASSUME Init PROVE IInv
  <1>1. Queued = {}
    BY DEF Init, RQInit, Queued
  <1>2. TypeOK
    <2>1. queue \in [Queued -> Int] /\ Queued \subseteq Nat
      BY <1>1 DEF Init, RQInit, Queued
    <2>2. pc \in [{None} \cup Slots -> ControlPoints]
      BY DEF Init, ControlPoints
    <2>3. /\ state \in [Slots -> ProcStates] /\ pid \in [Slots -> Nat]
          /\ parent \in [Slots -> {None} \cup Slots]
          /\ chan \in [Slots -> {None} \cup Slots \cup Chans]
          /\ killed \in [Slots -> BOOLEAN]
      BY DEF Init, ProcStates
    <2>4. /\ ticks_left \in [Slots -> 0..Quantum] /\ nice_value \in [Slots -> Int]
          /\ virtual_deadline \in [Slots -> Int]
      <3>1. 0 \in 0..Quantum /\ 0 \in Int
        OBVIOUS
      <3> QED BY <3>1 DEF Init
    <2>5. /\ np \in [{None} \cup Slots -> {None} \cup Slots]
          /\ proc \in [CPUs -> {None} \cup Slots] /\ ptlock \in {None} \cup CPUs
          /\ ticks \in Nat /\ ticking \in {None, BootCPU} /\ nextpid \in Nat \ {0}
      BY DEF Init
    <2>6. torn \in BOOLEAN /\ panicked \in BOOLEAN
      <3>1. torn = FALSE /\ panicked = FALSE
        BY DEF Init
      <3> HIDE NPROCAssumption, CPUAssumption, QuantumAssumption, NiceAssumption
      <3> QED BY <3>1, Zenon
    <2> QED BY <2>1, <2>2, <2>3, <2>4, <2>5, <2>6 DEF TypeOK
  <1>3. PidInv /\ UniquePids /\ LockInv /\ QuantumLeft
    BY DEF Init, PidInv, UniquePids, LockInv, QuantumLeft
  <1>4. RunsOnce /\ ForkInv /\ InitInv
    BY DEF Init, RunsOnce, ForkInv, InitInv
  <1>5. QueueExact
    BY <1>1 DEF Init, QueueExact
  <1>6. QueueOrdered
    BY <1>1 DEF Init, RQInit, QueueOrdered, TotalOrder
  <1>7. FamilyInv /\ ParentAlive /\ NoMissedExit
    BY DEF Init, FamilyInv, ParentAlive, NoMissedExit, Chans
  <1> QED BY <1>2, <1>3, <1>4, <1>5, <1>6, <1>7 DEF IInv

\* Every step keeps the inductive invariant, obeys the life cycle of the slots,
\* and is a step of the abstract queue
LEMMA NextIInv ==
    ASSUME IInv, [Next]_vars
    PROVE  IInv' /\ LifecycleStep /\ [RQNext]_rqVars
  <1>1. CASE UNCHANGED vars
    BY <1>1, StutterInv
  <1>2. CASE Wakeup \/ TimerTick \/ Halt
    BY <1>2, WakeupInv, TimerTickInv, StutterInv DEF Halt
  <1>3. ASSUME NEW c \in CPUs, CPUStep(c)
        PROVE  IInv' /\ LifecycleStep /\ [RQNext]_rqVars
    <2>1. ASSUME NEW p \in {None} \cup Slots,
                 \/ \E s \in Slots : AllocProc(c, p, s)
                 \/ ForkRunnable(c, p)
                 \/ \E nice \in NiceValues : ForkDeadline(c, p, nice)
                 \/ ForkInsert(c, p)
                 \/ Overlap(c, p)
          PROVE  IInv' /\ LifecycleStep /\ [RQNext]_rqVars
      BY <2>1, AllocProcInv, ForkRunnableInv, ForkDeadlineInv, ForkInsertInv, OverlapInv
    <2>2. ASSUME NEW x \in Queued, NEW s \in Slots, SchedPick(c, x, s)
          PROVE  IInv' /\ LifecycleStep /\ [RQNext]_rqVars
      BY <2>2, SchedPickInv
    <2>3. ASSUME NEW p \in Slots,
                 \/ ForkFail(c, p) \/ SchedReturn(c, p) \/ Resume(c, p)
                 \/ Yield(c, p) \/ SysEnter(c, p) \/ UserFault(c, p) \/ SysReturn(c, p)
          PROVE  IInv' /\ LifecycleStep /\ [RQNext]_rqVars
      BY <2>3, ForkFailInv, SchedReturnInv, ResumeInv, YieldInv, SysEnterInv, UserFaultInv,
         SysReturnInv
    <2>4. ASSUME NEW p \in Slots,
                 \/ TimerTrap(c, p) \/ ExitCall(c, p) \/ ExitPanic(c, p) \/ Exit(c, p)
                 \/ WaitNone(c, p) \/ WaitSleep(c, p)
                 \/ \E ch \in Chans : Sleep(c, p, ch)
                 \/ \E s \in Slots : WaitReap(c, p, s)
                 \/ \E s \in Slots, k \in 0..MaxPid : Kill(c, p, k, s)
          PROVE  IInv' /\ LifecycleStep /\ [RQNext]_rqVars
      BY <2>4, TimerTrapInv, ExitCallInv, ExitPanicInv, ExitInv, WaitNoneInv, WaitSleepInv,
         SleepInv, WaitReapInv, KillInv
    <2> QED BY <1>3, <2>1, <2>2, <2>3, <2>4 DEF CPUStep
  <1> QED BY <1>1, <1>2, <1>3 DEF Next

\* The inductive invariant holds in every reachable state
THEOREM Invariance == Spec => []IInv
  <1>1. Init => IInv
    BY InitIInv
  <1>2. IInv /\ [Next]_vars => IInv'
    BY NextIInv
  <1> QED BY <1>1, <1>2, PTL DEF Spec

\* Every variable keeps its type: no tick count below zero, no stray pid
THEOREM TypeCorrect == Spec => []TypeOK
  <1>1. IInv => TypeOK
    BY DEF IInv
  <1> QED BY <1>1, Invariance, PTL

\* The skip list holds exactly the RUNNABLE processes, with their deadlines
THEOREM QueueIsExact == Spec => []QueueExact
  <1>1. IInv => QueueExact
    BY DEF IInv
  <1> QED BY <1>1, Invariance, PTL

\* A pid names one slot: scheduler() and kill() never find two
THEOREM PidsAreUnique == Spec => []UniquePids
  <1>1. IInv => UniquePids
    BY DEF IInv
  <1> QED BY <1>1, Invariance, PTL

\* No process is on two CPUs
THEOREM MutualExclusion == Spec => []RunsOnce
  <1>1. IInv => RunsOnce
    BY DEF IInv
  <1> QED BY <1>1, Invariance, PTL

\* A running process has ticks left
THEOREM QuantumNeverNegative == Spec => []QuantumLeft
  <1>1. IInv => QuantumLeft
    BY DEF IInv
  <1> QED BY <1>1, Invariance, PTL

\* The skip list stays in deadline order, without duplicates
THEOREM ListStaysOrdered == Spec => []QueueOrdered
  <1>1. IInv => QueueOrdered
    BY DEF IInv
  <1> QED BY <1>1, Invariance, PTL

\* exit() orphans no one: every process but init has a parent that can wait
THEOREM NoOrphans == Spec => []ParentAlive
  <1>1. IInv => ParentAlive
    BY DEF IInv
  <1> QED BY <1>1, Invariance, PTL

\* wait() sleeps through no exit of a child and no kill
THEOREM WaitMissesNothing == Spec => []NoMissedExit
  <1>1. IInv => NoMissedExit
    BY DEF IInv
  <1> QED BY <1>1, Invariance, PTL

\* Slots change state only along the life cycle of a process
THEOREM LifecycleHolds == Spec => Lifecycle
  <1>1. IInv /\ [Next]_vars => [LifecycleStep]_vars
    BY NextIInv
  <1> QED BY <1>1, Invariance, PTL DEF Spec, Lifecycle

\* Seen through its skip list the scheduler is the abstract deadline queue: only
\* new processes join, first come first served among equal deadlines, and only
\* the minimum leaves
THEOREM SchedulerRefinesRunQueue == Spec => RQSpec
  <1>1. Init => RQInit
    BY DEF Init
  <1>2. IInv /\ [Next]_vars => [RQNext]_rqVars
    BY NextIInv
  <1> QED BY <1>1, <1>2, Invariance, PTL DEF Spec, RQSpec
=============================================================================
