----------------------- MODULE SchedulerSwitchProofs ------------------------
(***************************************************************************)
(* The steps of the scheduler, of the processes that enter it and of the   *)
(* clock keep the inductive invariant, follow the life cycle of a slot and *)
(* are steps of the queue.                                                 *)
(***************************************************************************)
EXTENDS SchedulerLemmas

USE NPROCAssumption, CPUAssumption, QuantumAssumption, NiceAssumption
    DEF None, Slots, initproc

\* scheduler() dequeues the minimum and runs it: the process is RUNNABLE and on
\* no other CPU because the list is exact
LEMMA SchedPickInv ==
    ASSUME IInv, NEW c \in CPUs, NEW x \in Queued, NEW s \in Slots, SchedPick(c, x, s)
    PROVE  IInv' /\ LifecycleStep /\ [RQNext]_rqVars
  <1>1. /\ pid' = pid /\ parent' = parent /\ chan' = chan /\ killed' = killed /\
           nice_value' = nice_value /\ virtual_deadline' = virtual_deadline /\
           pc' = pc /\ np' = np /\ ticks' = ticks /\ ticking' = ticking /\
           nextpid' = nextpid /\ torn' = torn /\ panicked' = panicked
    BY DEF SchedPick, control
  <1>2. /\ ptlock = None /\ ptlock' = c /\ proc[c] = None
        /\ pid[s] = x /\ IsMinimum(x) /\ Dequeue(x)
        /\ \A t \in Slots : t # s => state'[t] = state[t]
        /\ state'[s] = "RUNNING"
        /\ \A t \in Slots : t # s => ticks_left'[t] = ticks_left[t]
        /\ ticks_left'[s] = Quantum
        /\ \A d \in CPUs : d # c => proc'[d] = proc[d]
        /\ proc'[c] = s
    BY DEF SchedPick, First, NextProcess, IInv, TypeOK
  <1>3. state[s] = "RUNNABLE" /\ ~OnCPU(s) /\ ~Forking(s) /\ x # None
    BY <1>2 DEF IInv, QueueExact, UniquePids, PidInv
  <1>4. Queued' = Queued \ {x} /\ \A y \in Queued' : queue'[y] = queue[y]
    BY <1>2, DequeueRemoves
  <1>5. QueueOrdered'
    BY <1>2, DequeueOrdered DEF IInv
  <1>6. \A d \in CPUs : proc[d] # s
    BY <1>3 DEF OnCPU
  <1>7. \A t \in Slots : t # s => pid[t] # x
    BY <1>2, <1>3 DEF IInv, UniquePids
  <1>8. \A t \in Slots : OnCPU(t)' <=> OnCPU(t) \/ t = s
    BY <1>2 DEF OnCPU
  <1>9. \A t : Forking(t)' <=> Forking(t)
    BY <1>1 DEF Forking
  <1>10. \A t \in {None} \cup Slots : pc[t] \in {"forked", "splice"} => np[t] # s
    BY <1>3 DEF Forking
  <1>11. TypeOK'
    <2>1. /\ state' = [state EXCEPT ![s] = "RUNNING"]
          /\ ticks_left' = [ticks_left EXCEPT ![s] = Quantum]
      BY DEF SchedPick
    <2> HIDE DEF Slots
    <2>2. state' \in [Slots -> ProcStates]
      BY <2>1 DEF IInv, TypeOK, ProcStates
    <2>3. ticks_left' \in [Slots -> 0..Quantum]
      BY <2>1 DEF IInv, TypeOK
    <2> USE DEF Slots
    <2>4. proc' \in [CPUs -> {None} \cup Slots] /\ ptlock' \in {None} \cup CPUs
      BY DEF IInv, TypeOK, SchedPick
    <2>5. queue' \in [Queued' -> Int] /\ Queued' \subseteq Nat
      BY <1>2 DEF IInv, TypeOK, Dequeue, Queued
    <2> QED BY <1>1, <2>2, <2>3, <2>4, <2>5 DEF IInv, TypeOK
  <1>12. QueueOrdered' /\ [RQNext]_rqVars
    BY <1>2, <1>5 DEF RQNext, Leave
  <1> USE <1>1, <1>2, <1>3, <1>4, <1>5, <1>6, <1>7, <1>8, <1>9, <1>10
  <1>13. PidInv' /\ UniquePids' /\ QuantumLeft' /\ LifecycleStep
    BY DEF IInv, PidInv, UniquePids, QuantumLeft, LifecycleStep
  <1>14. LockInv' /\ RunsOnce'
    BY Ranges DEF IInv, LockInv, RunsOnce
  <1>15. ForkInv'
    BY Ranges DEF IInv, ForkInv, Queued
  <1>16. QueueExact'
    BY DEF IInv, QueueExact, Queued
  <1>17. InitInv' /\ FamilyInv' /\ ParentAlive'
    BY Ranges DEF IInv, InitInv, FamilyInv, ParentAlive
  <1>18. NoMissedExit'
    BY DEF IInv, NoMissedExit, Children, ZombieChildren
  <1> QED BY <1>11, <1>12, <1>13, <1>14, <1>15, <1>16, <1>17, <1>18 DEF IInv

\* scheduler() puts a process that is still RUNNABLE back, in deadline order
LEMMA SchedReturnInv ==
    ASSUME IInv, NEW c \in CPUs, NEW p \in Slots, SchedReturn(c, p)
    PROVE  IInv' /\ LifecycleStep /\ [RQNext]_rqVars
  <1> DEFINE W == Requeued(p)
  <1>1. /\ state' = state /\ pid' = pid /\ parent' = parent /\ chan' = chan /\
           killed' = killed /\ ticks_left' = ticks_left /\ nice_value' = nice_value /\
           pc' = pc /\ np' = np /\ ticks' = ticks /\ ticking' = ticking /\
           nextpid' = nextpid /\ torn' = torn /\ panicked' = panicked
    BY DEF SchedReturn, table, control
  <1>2. /\ ptlock = c /\ ptlock' = None /\ proc[c] = p /\ state[p] # "RUNNING"
        /\ \A t : t \in W <=> t = p /\ state[p] = "RUNNABLE"
        /\ InsertNodes(W, {}, virtual_deadline')
        /\ \A d \in CPUs : d # c => proc'[d] = proc[d]
        /\ proc'[c] = None
    BY DEF SchedReturn, Requeued, IInv, TypeOK
  <1>3. /\ virtual_deadline' \in [Slots -> Int]
        /\ \A t \in Slots : t # p => virtual_deadline'[t] = virtual_deadline[t]
    <2>1. compute_virtual_deadline(nice_value[p]) \in Int
      <3>1. nice_value[p] \in Int /\ ticks \in Int
        BY DEF IInv, TypeOK
      <3> QED BY <3>1 DEF compute_virtual_deadline
    <2> QED BY <2>1 DEF IInv, TypeOK, SchedReturn
  <1>4. OnCPU(p)
    BY <1>2 DEF OnCPU
  <1>5. state[p] # "UNUSED" /\ ~Forking(p)
    BY <1>2, <1>4 DEF IInv, LockInv, Forking, ForkInv
  <1>6. pid[p] # None /\ pid[p] \notin Queued
    BY <1>4, <1>5, NotQueued
  <1>7. /\ W \in SUBSET Slots /\ TotalOrder({}, W)
        /\ \A t \in W : pid[t] # None /\ pid[t] \notin Queued /\ virtual_deadline'[t] \in Int
    BY <1>2, <1>3, <1>6 DEF TotalOrder
  <1>8. TypeOK /\ UniquePids /\ QueueOrdered
    BY IInv DEF IInv
  <1> HIDE DEF W
  <1>9. /\ \A x : x \in Queued' <=> x \in Queued \/ \E t \in W : x = pid[t]
        /\ \A t \in W : queue'[pid[t]] = virtual_deadline'[t]
        /\ \A x \in Queued : (\A t \in W : pid[t] # x) => queue'[x] = queue[x]
    BY <1>2, <1>7, <1>8, InsertAdds, Zenon
  <1>10. QueueOrdered' /\ [RQNext]_rqVars
    BY <1>2, <1>7, <1>8, InsertOrdered, Zenon
  <1>11. /\ \A x \in Queued : queue'[x] = queue[x]
         /\ state[p] = "RUNNABLE" => queue'[pid[p]] = virtual_deadline'[p]
         /\ \A x : x \in Queued' <=> x \in Queued \/ (x = pid[p] /\ state[p] = "RUNNABLE")
    <2>1. \A x \in Queued : queue'[x] = queue[x]
      BY <1>7, <1>9
    <2>2. state[p] = "RUNNABLE" => queue'[pid[p]] = virtual_deadline'[p]
      BY <1>2, <1>9
    <2>3. \A x : x \in Queued' <=> x \in Queued \/ (x = pid[p] /\ state[p] = "RUNNABLE")
      <3>1. \A t : t \in W <=> t = p /\ state[p] = "RUNNABLE"
        BY <1>2
      <3>2. \A x : x \in Queued' <=> x \in Queued \/ \E t \in W : x = pid[t]
        BY <1>9
      <3> QED BY <3>1, <3>2
    <2> QED BY <2>1, <2>2, <2>3
  <1>12. \A t \in Slots : OnCPU(t)' <=> OnCPU(t) /\ t # p
    BY <1>2 DEF OnCPU, IInv, RunsOnce
  <1>13. \A t : Forking(t)' <=> Forking(t)
    BY <1>1 DEF Forking
  <1>14. /\ \A t \in Slots : pid[t] = pid[p] => t = p
        /\ \A t \in {None} \cup Slots : pc[t] \in {"forked", "splice"} => np[t] # p
    BY <1>5, <1>6 DEF IInv, UniquePids, Forking
  <1>15. TypeOK'
    <2>1. queue' = [x \in Queued' |-> queue'[x]]
      BY <1>2, <1>8 DEF InsertNodes, Enqueue, Joined, rqVars, TypeOK, Queued
    <2>2. \A x \in Queued' : x \in Nat /\ queue'[x] \in Int
      <3>1. /\ \A y \in Queued : y \in Nat /\ queue[y] \in Int
            /\ pid[p] \in Nat /\ virtual_deadline'[p] \in Int
        BY <1>3, <1>8 DEF TypeOK
      <3> QED BY <1>11, <3>1
    <2>3. queue' \in [Queued' -> Int] /\ Queued' \subseteq Nat
      BY <2>1, <2>2
    <2>4. proc' \in [CPUs -> {None} \cup Slots] /\ ptlock' \in {None} \cup CPUs
      BY DEF IInv, TypeOK, SchedReturn
    <2> QED BY <1>1, <1>3, <2>3, <2>4 DEF IInv, TypeOK
  <1>16. QueueOrdered' /\ [RQNext]_rqVars
    BY <1>10
  <1>17. ForkInv'
    <2>1. ASSUME NEW t \in {None} \cup Slots, pc[t] \in {"forked", "splice"}
          PROVE  ~OnCPU(np[t])' /\ pid[np[t]] \notin Queued'
      <3>1. /\ np[t] \in Slots /\ np[t] # p
            /\ ~OnCPU(np[t]) /\ pid[np[t]] \notin Queued
        BY <1>14, <2>1, Ranges DEF IInv, ForkInv
      <3> QED BY <1>1, <1>11, <1>12, <1>14, <3>1
    <2> QED BY <1>1, <2>1 DEF IInv, ForkInv
  <1>18. QueueExact'
    BY <1>1, <1>3, <1>4, <1>5, <1>6, <1>11, <1>12, <1>13 DEF IInv, QueueExact
  <1> USE <1>1, <1>2, <1>4, <1>12
  <1>19. PidInv' /\ UniquePids' /\ QuantumLeft' /\ LifecycleStep
    BY DEF IInv, PidInv, UniquePids, QuantumLeft, LifecycleStep
  <1>20. LockInv'
    BY Ranges DEF IInv, LockInv, RunsOnce
  <1>21. RunsOnce'
    BY Ranges DEF IInv, RunsOnce, LockInv
  <1>22. InitInv' /\ FamilyInv' /\ ParentAlive'
    BY Ranges DEF IInv, InitInv, FamilyInv, ParentAlive
  <1>23. NoMissedExit'
    BY DEF IInv, NoMissedExit, Children, ZombieChildren
  <1> QED BY <1>15, <1>16, <1>17, <1>18, <1>19, <1>20, <1>21, <1>22, <1>23 DEF IInv

\* A process comes back from sched() and releases ptable.lock
LEMMA ResumeInv ==
    ASSUME IInv, NEW c \in CPUs, NEW p \in Slots, Resume(c, p)
    PROVE  IInv' /\ LifecycleStep /\ [RQNext]_rqVars
  <1>1. /\ state' = state /\ pid' = pid /\ parent' = parent /\ killed' = killed /\
           ticks_left' = ticks_left /\ nice_value' = nice_value /\
           virtual_deadline' = virtual_deadline /\ np' = np /\ proc' = proc /\
           nextpid' = nextpid /\ queue' = queue /\ before' = before
    BY DEF Resume, times, rqVars
  <1>2. /\ state[p] = "RUNNING" /\ proc[c] = p /\ ptlock = c /\ ptlock' = None
        /\ \A t \in {None} \cup Slots : t # p => pc'[t] = pc[t]
        /\ pc'[p] = pc[p] \/ (pc[p] \in {"forkret", "user"} /\ pc'[p] \in {"kernel", "user", "exit"})
        /\ pc[p] # "wait" /\ pc'[p] # "wait"
        /\ \A t \in Slots : t # p => chan'[t] = chan[t]
        /\ chan'[p] = None
    BY DEF Resume, Goto, IInv, TypeOK
  <1>3. \A t : OnCPU(t)' <=> OnCPU(t)
    BY <1>1 DEF OnCPU
  <1>4. \A t : Forking(t)' <=> Forking(t)
    BY <1>1, <1>2 DEF Forking
  <1>5. TypeOK'
    BY DEF IInv, TypeOK, Resume, Goto, times, ProcStates, ControlPoints, Chans,
      TicksChan, IOChan, rqVars, Queued
  <1>6. QueueOrdered' /\ [RQNext]_rqVars
    BY <1>1 DEF IInv, QueueOrdered, TotalOrder, Queued, rqVars
  <1> USE <1>1, <1>2, <1>3, <1>4
  <1>7. PidInv' /\ UniquePids' /\ QuantumLeft' /\ LifecycleStep
    BY DEF IInv, PidInv, UniquePids, QuantumLeft, LifecycleStep
  <1>8. LockInv' /\ RunsOnce'
    BY DEF IInv, LockInv, RunsOnce, OnCPU
  <1>9. ForkInv'
    BY DEF IInv, ForkInv, Queued
  <1>10. QueueExact'
    BY DEF IInv, QueueExact, Queued
  <1>11. InitInv' /\ FamilyInv' /\ ParentAlive'
    BY DEF IInv, InitInv, FamilyInv, ParentAlive
  <1>12. NoMissedExit'
    BY DEF IInv, NoMissedExit, Children, ZombieChildren, FamilyInv
  <1> QED BY <1>5, <1>6, <1>7, <1>8, <1>9, <1>10, <1>11, <1>12 DEF IInv

\* yield() enters the scheduler RUNNABLE and without a node
LEMMA YieldInv ==
    ASSUME IInv, NEW c \in CPUs, NEW p \in Slots, Yield(c, p)
    PROVE  IInv' /\ LifecycleStep /\ [RQNext]_rqVars
  <1>1. /\ pid' = pid /\ parent' = parent /\ chan' = chan /\ killed' = killed /\
           ticks_left' = ticks_left /\ nice_value' = nice_value /\
           virtual_deadline' = virtual_deadline /\ np' = np /\ proc' = proc /\
           nextpid' = nextpid /\ queue' = queue /\ before' = before
    BY DEF Yield, YieldHolding, times, rqVars
  <1>2. /\ state[p] = "RUNNING" /\ proc[c] = p /\ ptlock # c
        /\ ptlock = None /\ ptlock' = c
        /\ \A t \in {None} \cup Slots : t # p => pc'[t] = pc[t]
        /\ pc[p] = "syscall" /\ pc'[p] = "kernel"
        /\ \A t \in Slots : t # p => state'[t] = state[t]
        /\ state'[p] = "RUNNABLE"
    BY DEF Yield, YieldHolding, Calls, Runs, Goto, IInv, TypeOK
  <1>3. \A t : OnCPU(t)' <=> OnCPU(t)
    BY <1>1 DEF OnCPU
  <1>4. \A t : Forking(t)' <=> Forking(t)
    BY <1>1, <1>2 DEF Forking
  <1>5. np[p] = None
    BY <1>2 DEF IInv, ForkInv
  <1>6. OnCPU(p)
    BY <1>2 DEF OnCPU
  <1>7. TypeOK'
    BY DEF IInv, TypeOK, Yield, YieldHolding, Calls, Runs, Goto, times, ProcStates, ControlPoints,
      Chans, TicksChan, IOChan, rqVars, Queued
  <1>8. QueueOrdered' /\ [RQNext]_rqVars
    BY <1>1 DEF IInv, QueueOrdered, TotalOrder, Queued, rqVars
  <1> USE <1>1, <1>2, <1>3, <1>4, <1>5, <1>6
  <1>9. PidInv' /\ UniquePids' /\ QuantumLeft' /\ LifecycleStep
    BY DEF IInv, PidInv, UniquePids, QuantumLeft, LifecycleStep
  <1>10. LockInv' /\ RunsOnce'
    BY Ranges DEF IInv, LockInv, RunsOnce
  <1>11. ForkInv'
    BY Ranges DEF IInv, ForkInv, Queued
  <1>12. QueueExact'
    BY DEF IInv, QueueExact, Queued
  <1>13. InitInv' /\ FamilyInv' /\ ParentAlive'
    BY Ranges DEF IInv, InitInv, FamilyInv, ParentAlive
  <1>14. NoMissedExit'
    BY DEF IInv, NoMissedExit, Children, ZombieChildren
  <1> QED BY <1>7, <1>8, <1>9, <1>10, <1>11, <1>12, <1>13, <1>14 DEF IInv

\* sleep() enters the scheduler SLEEPING
LEMMA SleepInv ==
    ASSUME IInv, NEW c \in CPUs, NEW p \in Slots, NEW ch \in Chans, Sleep(c, p, ch)
    PROVE  IInv' /\ LifecycleStep /\ [RQNext]_rqVars
  <1>1. /\ pid' = pid /\ parent' = parent /\ killed' = killed /\
           ticks_left' = ticks_left /\ nice_value' = nice_value /\
           virtual_deadline' = virtual_deadline /\ np' = np /\ proc' = proc /\
           nextpid' = nextpid /\ queue' = queue /\ before' = before
    BY DEF Sleep, times, rqVars
  <1>2. /\ state[p] = "RUNNING" /\ proc[c] = p /\ ptlock # c
        /\ ptlock = None /\ ptlock' = c
        /\ \A t \in {None} \cup Slots : t # p => pc'[t] = pc[t]
        /\ pc[p] \in {"syscall", "kernel", "exit"} /\ pc'[p] \in {"kernel", "exit"}
        /\ \A t \in Slots : t # p => state'[t] = state[t]
        /\ state'[p] = "SLEEPING"
        /\ \A t \in Slots : t # p => chan'[t] = chan[t]
        /\ chan'[p] = ch
        /\ ch \notin Slots
    BY DEF Sleep, Calls, Runs, Goto, IInv, TypeOK, Chans, TicksChan, IOChan
  <1>3. \A t : OnCPU(t)' <=> OnCPU(t)
    BY <1>1 DEF OnCPU
  <1>4. \A t : Forking(t)' <=> Forking(t)
    BY <1>1, <1>2 DEF Forking
  <1>5. np[p] = None
    BY <1>2 DEF IInv, ForkInv
  <1>6. TypeOK'
    BY DEF IInv, TypeOK, Sleep, Calls, Runs, Goto, times, ProcStates, ControlPoints,
      Chans, TicksChan, IOChan, rqVars, Queued
  <1>7. QueueOrdered' /\ [RQNext]_rqVars
    BY <1>1 DEF IInv, QueueOrdered, TotalOrder, Queued, rqVars
  <1> USE <1>1, <1>2, <1>3, <1>4, <1>5
  <1>8. PidInv' /\ UniquePids' /\ QuantumLeft' /\ LifecycleStep
    BY DEF IInv, PidInv, UniquePids, QuantumLeft, LifecycleStep
  <1>9. LockInv' /\ RunsOnce'
    BY Ranges DEF IInv, LockInv, RunsOnce
  <1>10. ForkInv'
    BY Ranges DEF IInv, ForkInv, Queued
  <1>11. QueueExact'
    BY DEF IInv, QueueExact, Queued
  <1>12. InitInv' /\ FamilyInv' /\ ParentAlive'
    BY Ranges DEF IInv, InitInv, FamilyInv, ParentAlive
  <1>13. NoMissedExit'
    BY DEF IInv, NoMissedExit, Children, ZombieChildren
  <1> QED BY <1>6, <1>7, <1>8, <1>9, <1>10, <1>11, <1>12, <1>13 DEF IInv

\* wakeup() gives every sleeper on the channel a node
LEMMA WakeupInv ==
    ASSUME IInv, Wakeup
    PROVE  IInv' /\ LifecycleStep /\ [RQNext]_rqVars
  <1> DEFINE W == Sleepers(IOChan)
  <1>1. /\ pid' = pid /\ parent' = parent /\ chan' = chan /\ killed' = killed /\
           ticks_left' = ticks_left /\ nice_value' = nice_value /\
           virtual_deadline' = virtual_deadline /\ pc' = pc /\ np' = np /\
           proc' = proc /\ ptlock' = ptlock /\ ticks' = ticks /\ ticking' = ticking /\ nextpid' = nextpid /\
           torn' = torn /\ panicked' = panicked
    BY DEF Wakeup, times, control
  <1>2. /\ ptlock = None /\ W \in SUBSET Slots
        /\ \A s \in W : state[s] = "SLEEPING"
        /\ InsertNodes(W, TableOrder(W), virtual_deadline)
        /\ \A t \in Slots : state'[t] = IF t \in W THEN "RUNNABLE" ELSE state[t]
    BY DEF Wakeup, Sleepers
  <1>3. WakesUp(W) /\ QueueOrdered' /\ [RQNext]_rqVars
    BY <1>2, TableOrderTotal, Woken, IInv, Zenon
  <1> HIDE DEF W
  <1>4. \A t : OnCPU(t)' <=> OnCPU(t)
    BY <1>1 DEF OnCPU
  <1>5. \A t : Forking(t)' <=> Forking(t)
    BY <1>1 DEF Forking
  <1>6. TypeOK'
    BY <1>1, <1>3 DEF IInv, TypeOK, WakesUp, ProcStates, ControlPoints, Wakeup
  <1>7. QueueOrdered' /\ [RQNext]_rqVars
    BY <1>3
  <1> USE <1>1, <1>2, <1>3, <1>4, <1>5
  <1>8. PidInv' /\ UniquePids' /\ QuantumLeft' /\ LifecycleStep
    BY DEF IInv, PidInv, UniquePids, QuantumLeft, LifecycleStep
  <1>9. LockInv' /\ RunsOnce'
    BY Ranges DEF IInv, LockInv, RunsOnce, WakesUp
  <1>10. ForkInv'
    BY Ranges DEF IInv, ForkInv, Queued, WakesUp
  <1>11. QueueExact'
    BY DEF IInv, QueueExact, Queued, WakesUp
  <1>12. InitInv' /\ FamilyInv' /\ ParentAlive'
    BY Ranges DEF IInv, InitInv, FamilyInv, ParentAlive
  <1>13. NoMissedExit'
    BY DEF IInv, NoMissedExit, Children, ZombieChildren
  <1> QED BY <1>6, <1>7, <1>8, <1>9, <1>10, <1>11, <1>12, <1>13 DEF IInv

\* The rest of the timer interrupt takes a tick from the process, which yields
\* exactly at zero
LEMMA TimerTrapInv ==
    ASSUME IInv, NEW c \in CPUs, NEW p \in Slots, TimerTrap(c, p)
    PROVE  IInv' /\ LifecycleStep /\ [RQNext]_rqVars
  <1>1. /\ pid' = pid /\ parent' = parent /\ chan' = chan /\ killed' = killed /\
           nice_value' = nice_value /\ virtual_deadline' = virtual_deadline /\
           np' = np /\ proc' = proc /\ ticks' = ticks /\ nextpid' = nextpid /\
           torn' = torn /\ panicked' = panicked /\ queue' = queue /\ before' = before
    BY DEF TimerTrap, rqVars
  <1>2. /\ state[p] = "RUNNING" /\ proc[c] = p /\ ptlock # c
        /\ \A t \in {None} \cup Slots : t # p => pc'[t] = pc[t]
        /\ pc'[p] = pc[p] \/ (pc[p] = "user" /\ pc'[p] = "exit")
        /\ \A t \in Slots : t # p => state'[t] = state[t] /\ ticks_left'[t] = ticks_left[t]
        /\ \/ ptlock' = ptlock /\ state'[p] = "RUNNING"
           \/ ptlock = None /\ ptlock' = c /\ state'[p] = "RUNNABLE"
    BY DEF TimerTrap, IInv, TypeOK
  <1>3. \A t : OnCPU(t)' <=> OnCPU(t)
    BY <1>1 DEF OnCPU
  <1>4. \A t : Forking(t)' <=> Forking(t)
    BY <1>1, <1>2 DEF Forking
  <1>5. OnCPU(p)
    BY <1>2 DEF OnCPU
  <1>6. ticks_left[p] \in 1..Quantum
    BY <1>2 DEF IInv, TypeOK, QuantumLeft
  <1>7. \/ ticks_left'[p] = ticks_left[p]
        \/ /\ ticks_left'[p] = ticks_left[p] - 1
           /\ state'[p] = "RUNNING" => ticks_left[p] - 1 # 0
    BY DEF IInv, TypeOK, TimerTrap, QuantumUsed
  <1>8. ticks_left'[p] \in 0..Quantum /\ (state'[p] = "RUNNING" => ticks_left'[p] > 0)
    BY <1>6, <1>7
  <1>9. TypeOK'
    <2>1. state' \in [Slots -> ProcStates] /\ pc' \in [{None} \cup Slots -> ControlPoints]
      BY DEF IInv, TypeOK, TimerTrap, ProcStates, ControlPoints
    <2>2. ticking' \in {None, BootCPU} /\ ptlock' \in {None} \cup CPUs
      BY <1>2 DEF IInv, TypeOK, TimerTrap
    <2>3. ticks_left' \in [Slots -> 0..Quantum]
      BY <1>8 DEF IInv, TypeOK, TimerTrap
    <2> QED BY <1>1, <2>1, <2>2, <2>3 DEF IInv, TypeOK, Queued
  <1>10. QueueOrdered' /\ [RQNext]_rqVars
    BY <1>1 DEF IInv, QueueOrdered, TotalOrder, Queued, rqVars
  <1> USE <1>1, <1>2, <1>3, <1>4, <1>5, <1>6, <1>8
  <1>11. PidInv' /\ UniquePids' /\ QuantumLeft' /\ LifecycleStep
    BY DEF IInv, PidInv, UniquePids, QuantumLeft, LifecycleStep
  <1>12. LockInv' /\ RunsOnce'
    BY Ranges DEF IInv, LockInv, RunsOnce
  <1>13. ForkInv'
    BY Ranges DEF IInv, ForkInv, Queued
  <1>14. QueueExact'
    BY DEF IInv, QueueExact, Queued
  <1>15. InitInv' /\ FamilyInv' /\ ParentAlive'
    BY Ranges DEF IInv, InitInv, FamilyInv, ParentAlive
  <1>16. NoMissedExit'
    BY DEF IInv, NoMissedExit, Children, ZombieChildren
  <1> QED BY <1>9, <1>10, <1>11, <1>12, <1>13, <1>14, <1>15, <1>16 DEF IInv

\* The timer interrupt of the boot CPU wakes the sleepers on &ticks
LEMMA TimerTickInv ==
    ASSUME IInv, TimerTick
    PROVE  IInv' /\ LifecycleStep /\ [RQNext]_rqVars
  <1> DEFINE W == Sleepers(TicksChan)
  <1>1. /\ pid' = pid /\ parent' = parent /\ chan' = chan /\ killed' = killed /\
           ticks_left' = ticks_left /\ nice_value' = nice_value /\
           virtual_deadline' = virtual_deadline /\ pc' = pc /\ np' = np /\
           proc' = proc /\ ptlock' = ptlock /\ nextpid' = nextpid /\ torn' = torn /\
           panicked' = panicked
    BY DEF TimerTick, times, control
  <1>2. /\ ptlock = None /\ W \in SUBSET Slots
        /\ \A s \in W : state[s] = "SLEEPING"
        /\ InsertNodes(W, TableOrder(W), virtual_deadline)
        /\ \A t \in Slots : state'[t] = IF t \in W THEN "RUNNABLE" ELSE state[t]
        /\ ticks' = ticks + 1
    BY DEF TimerTick, Sleepers
  <1>3. WakesUp(W) /\ QueueOrdered' /\ [RQNext]_rqVars
    BY <1>2, TableOrderTotal, Woken, IInv, Zenon
  <1> HIDE DEF W
  <1>4. \A t : OnCPU(t)' <=> OnCPU(t)
    BY <1>1 DEF OnCPU
  <1>5. \A t : Forking(t)' <=> Forking(t)
    BY <1>1 DEF Forking
  <1>6. TypeOK'
    <2>1. state' \in [Slots -> ProcStates]
      BY DEF IInv, TypeOK, TimerTick, ProcStates
    <2>2. ticks' \in Nat /\ ticking' \in {None, BootCPU}
      BY <1>2 DEF IInv, TypeOK, TimerTick
    <2> QED BY <1>1, <1>3, <2>1, <2>2 DEF IInv, TypeOK, WakesUp
  <1>7. QueueOrdered' /\ [RQNext]_rqVars
    BY <1>3
  <1> USE <1>1, <1>2, <1>3, <1>4, <1>5
  <1>8. PidInv' /\ UniquePids' /\ QuantumLeft' /\ LifecycleStep
    BY DEF IInv, PidInv, UniquePids, QuantumLeft, LifecycleStep
  <1>9. LockInv' /\ RunsOnce'
    BY Ranges DEF IInv, LockInv, RunsOnce, WakesUp
  <1>10. ForkInv'
    BY Ranges DEF IInv, ForkInv, Queued, WakesUp
  <1>11. QueueExact'
    BY DEF IInv, QueueExact, Queued, WakesUp
  <1>12. InitInv' /\ FamilyInv' /\ ParentAlive'
    BY Ranges DEF IInv, InitInv, FamilyInv, ParentAlive
  <1>13. NoMissedExit'
    BY DEF IInv, NoMissedExit, Children, ZombieChildren
  <1> QED BY <1>6, <1>7, <1>8, <1>9, <1>10, <1>11, <1>12, <1>13 DEF IInv
=============================================================================
