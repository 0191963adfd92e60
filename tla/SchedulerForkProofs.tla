------------------------ MODULE SchedulerForkProofs -------------------------
(***************************************************************************)
(* The steps of nicefork and of userinit keep the inductive invariant,     *)
(* follow the life cycle of a slot and are steps of the queue.             *)
(***************************************************************************)
EXTENDS SchedulerLemmas

USE NPROCAssumption, CPUAssumption, QuantumAssumption, NiceAssumption
    DEF None, Slots, initproc

\* allocproc gives the first UNUSED slot a pid no other slot has
LEMMA AllocProcInv ==
    ASSUME IInv, NEW c \in CPUs, NEW p \in {None} \cup Slots, NEW s \in Slots, AllocProc(c, p, s)
    PROVE  IInv' /\ LifecycleStep /\ [RQNext]_rqVars
  <1>1. /\ parent' = parent /\ chan' = chan /\ killed' = killed /\
           ticks_left' = ticks_left /\ nice_value' = nice_value /\
           virtual_deadline' = virtual_deadline /\ proc' = proc /\ ptlock' = ptlock /\
           ticks' = ticks /\ ticking' = ticking /\ torn' = torn /\ panicked' = panicked /\ queue' = queue /\
           before' = before
    BY DEF AllocProc, times, rqVars
  <1>2. /\ state[s] = "UNUSED" /\ pc[p] = "syscall"
        /\ p = None \/ state[p] = "RUNNING"
        /\ \A t \in Slots : state[t] = "UNUSED" => s <= t
        /\ \A t \in Slots : t # s => state'[t] = state[t]
        /\ state'[s] = "EMBRYO"
        /\ \A t \in Slots : t # s => pid'[t] = pid[t]
        /\ pid'[s] = nextpid
        /\ nextpid' = nextpid + 1
        /\ \A t \in {None} \cup Slots : t # p => np'[t] = np[t]
        /\ np'[p] = s
    BY DEF AllocProc, TakePid, Calls, Executes, Runs, First, IInv, TypeOK
  <1>3. p # s /\ np[p] = None /\ np[s] = None /\ pc[s] \notin {"forked", "splice"}
    BY <1>2 DEF IInv, ForkInv
  <1>4. /\ \A t \in {None} \cup Slots : t # p /\ t # s => pc'[t] = pc[t]
        /\ pc'[p] = "embryo" /\ pc'[s] = "forkret"
    BY <1>3 DEF AllocProc, IInv, TypeOK
  <1>5. s = initproc <=> p = None
    BY <1>2 DEF IInv, InitInv
  <1>6. ~OnCPU(s)
    BY <1>2 DEF IInv, LockInv, OnCPU
  <1>7. \A t \in {None} \cup Slots : np[t] # s
    BY <1>2, Ranges DEF IInv, ForkInv
  <1>8. nextpid \in Nat \ {0} /\ (\A t \in Slots : pid[t] \in Nat)
    BY IInv DEF IInv, TypeOK
  <1>9. \A t : OnCPU(t)' <=> OnCPU(t)
    BY <1>1 DEF OnCPU
  <1>10. \A t : Forking(t)' <=> Forking(t)
    BY <1>2, <1>3, <1>4, <1>7 DEF Forking
  <1>11. TypeOK'
    <2>1. pc' \in [{None} \cup Slots -> ControlPoints]
      BY DEF IInv, TypeOK, AllocProc, ControlPoints
    <2>2. state' \in [Slots -> ProcStates] /\ np' \in [{None} \cup Slots -> {None} \cup Slots]
      BY DEF IInv, TypeOK, AllocProc, ProcStates
    <2>3. nextpid' \in Nat \ {0}
      BY <1>2, <1>8
    <2>4. pid' \in [Slots -> Nat]
      BY <1>8 DEF IInv, TypeOK, AllocProc, TakePid
    <2> QED BY <1>1, <2>1, <2>2, <2>3, <2>4 DEF IInv, TypeOK, Queued
  <1>12. QueueOrdered' /\ [RQNext]_rqVars
    BY <1>1 DEF IInv, QueueOrdered, TotalOrder, Queued, rqVars
  <1> USE <1>1, <1>2, <1>3, <1>4, <1>5, <1>6, <1>7, <1>8, <1>9, <1>10
  <1>13. PidInv' /\ UniquePids' /\ QuantumLeft' /\ LifecycleStep
    BY DEF IInv, PidInv, UniquePids, QuantumLeft, LifecycleStep
  <1>14. LockInv' /\ RunsOnce'
    BY Ranges DEF IInv, LockInv, RunsOnce
  <1>15. ForkInv'
    BY Ranges DEF IInv, ForkInv, Queued
  <1>16. QueueExact'
    BY DEF IInv, QueueExact, Queued
  <1>17. InitInv' /\ FamilyInv' /\ ParentAlive'
    BY Ranges DEF IInv, InitInv, FamilyInv, ForkInv, ParentAlive
  <1>18. NoMissedExit'
    BY DEF IInv, NoMissedExit, Children, ZombieChildren
  <1> QED BY <1>11, <1>12, <1>13, <1>14, <1>15, <1>16, <1>17, <1>18 DEF IInv

\* nicefork gives the slot back when a page is missing
LEMMA ForkFailInv ==
    ASSUME IInv, NEW c \in CPUs, NEW p \in Slots, ForkFail(c, p)
    PROVE  IInv' /\ LifecycleStep /\ [RQNext]_rqVars
  <1>1. /\ pid' = pid /\ parent' = parent /\ chan' = chan /\ killed' = killed /\
           ticks_left' = ticks_left /\ nice_value' = nice_value /\
           virtual_deadline' = virtual_deadline /\ proc' = proc /\ ptlock' = ptlock /\
           nextpid' = nextpid /\ queue' = queue /\ before' = before
    BY DEF ForkFail, times, rqVars
  <1>2. /\ state[p] = "RUNNING" /\ proc[c] = p /\ ptlock # c
        /\ pc[p] = "embryo" /\ np[p] \in Slots /\ state[np[p]] = "EMBRYO"
        /\ \A t \in Slots : t # np[p] => state'[t] = state[t]
        /\ state'[np[p]] = "UNUSED"
        /\ \A t \in {None} \cup Slots : t # p => pc'[t] = pc[t]
        /\ pc'[p] \in {"user", "exit"}
        /\ \A t \in {None} \cup Slots : t # p => np'[t] = np[t]
        /\ np'[p] = None
    BY DEF ForkFail, Runs, Return, Goto, IInv, TypeOK, ForkInv
  <1>3. np[p] # p /\ np[p] # initproc
    BY <1>2 DEF IInv, InitInv
  <1>4. ~OnCPU(np[p])
    BY <1>2 DEF IInv, LockInv, OnCPU
  <1>5. \A t : OnCPU(t)' <=> OnCPU(t)
    BY <1>1 DEF OnCPU
  <1>6. \A t : Forking(t)' <=> Forking(t)
    BY <1>2 DEF Forking
  <1>7. TypeOK'
    BY DEF IInv, TypeOK, ForkFail, Runs, Return, Goto, times, ProcStates,
      ControlPoints, Chans, TicksChan, IOChan, rqVars, Queued
  <1>8. QueueOrdered' /\ [RQNext]_rqVars
    BY <1>1 DEF IInv, QueueOrdered, TotalOrder, Queued, rqVars
  <1> USE <1>1, <1>2, <1>3, <1>4, <1>5, <1>6
  <1>9. PidInv' /\ UniquePids' /\ QuantumLeft' /\ LifecycleStep
    BY DEF IInv, PidInv, UniquePids, QuantumLeft, LifecycleStep
  <1>10. LockInv' /\ RunsOnce'
    BY Ranges DEF IInv, LockInv, RunsOnce
  <1>11. ForkInv'
    BY Ranges DEF IInv, ForkInv, Queued
  <1>12. QueueExact'
    BY DEF IInv, QueueExact, Queued
  <1>13. InitInv' /\ FamilyInv' /\ ParentAlive'
    BY Ranges DEF IInv, InitInv, FamilyInv, ParentAlive
  <1>14. NoMissedExit'
    BY DEF IInv, NoMissedExit, Children, ZombieChildren
  <1> QED BY <1>7, <1>8, <1>9, <1>10, <1>11, <1>12, <1>13, <1>14 DEF IInv

\* The child becomes RUNNABLE, still without a node
LEMMA ForkRunnableInv ==
    ASSUME IInv, NEW c \in CPUs, NEW p \in {None} \cup Slots, ForkRunnable(c, p)
    PROVE  IInv' /\ LifecycleStep /\ [RQNext]_rqVars
  <1>1. /\ pid' = pid /\ chan' = chan /\ killed' = killed /\
           ticks_left' = ticks_left /\ nice_value' = nice_value /\
           virtual_deadline' = virtual_deadline /\ np' = np /\ proc' = proc /\
           ptlock' = ptlock /\ nextpid' = nextpid /\ queue' = queue /\ before' = before
    BY DEF ForkRunnable, times, rqVars
  <1>2. /\ ptlock = None /\ (p = None \/ state[p] = "RUNNING")
        /\ pc[p] = "embryo" /\ np[p] \in Slots /\ state[np[p]] = "EMBRYO"
        /\ \A t \in Slots : t # np[p] => state'[t] = state[t]
        /\ state'[np[p]] = "RUNNABLE"
        /\ \A t \in Slots : t # np[p] => parent'[t] = parent[t]
        /\ parent'[np[p]] = p
        /\ \A t \in {None} \cup Slots : t # p => pc'[t] = pc[t]
        /\ pc'[p] = "forked"
    BY DEF ForkRunnable, Executes, Runs, Goto, IInv, TypeOK, ForkInv
  <1>3. np[p] # p /\ (np[p] = initproc <=> p = None)
    BY <1>2 DEF IInv, InitInv
  <1>4. ~OnCPU(np[p])
    BY <1>2 DEF IInv, LockInv, OnCPU
  <1>5. \A t : OnCPU(t)' <=> OnCPU(t)
    BY <1>1 DEF OnCPU
  <1>6. pid[np[p]] # None /\ pid[np[p]] \notin Queued
    BY <1>2 DEF IInv, QueueExact, UniquePids, PidInv
  <1>7. \A t : Forking(t)' <=> Forking(t) \/ t = np[p]
    BY <1>1, <1>2 DEF Forking
  <1>8. TypeOK'
    BY DEF IInv, TypeOK, ForkRunnable, Executes, Runs, Goto, times, ProcStates,
      ControlPoints, Chans, TicksChan, IOChan, rqVars, Queued
  <1>9. QueueOrdered' /\ [RQNext]_rqVars
    BY <1>1 DEF IInv, QueueOrdered, TotalOrder, Queued, rqVars
  <1> USE <1>1, <1>2, <1>3, <1>4, <1>5, <1>6, <1>7
  <1>10. PidInv' /\ UniquePids' /\ QuantumLeft' /\ LifecycleStep
    BY DEF IInv, PidInv, UniquePids, QuantumLeft, LifecycleStep
  <1>11. LockInv' /\ RunsOnce'
    BY Ranges DEF IInv, LockInv, RunsOnce
  <1>12. ForkInv'
    BY Ranges DEF IInv, ForkInv, Queued
  <1>13. QueueExact'
    BY DEF IInv, QueueExact, Queued
  <1>14. InitInv' /\ FamilyInv' /\ ParentAlive'
    BY Ranges DEF IInv, InitInv, FamilyInv, ParentAlive
  <1>15. NoMissedExit'
    BY DEF IInv, NoMissedExit, Children, ZombieChildren, FamilyInv
  <1> QED BY <1>8, <1>9, <1>10, <1>11, <1>12, <1>13, <1>14, <1>15 DEF IInv

\* The child gets its deadline, outside the lock
LEMMA ForkDeadlineInv ==
    ASSUME IInv, NEW c \in CPUs, NEW p \in {None} \cup Slots, NEW nice \in NiceValues, ForkDeadline(c, p, nice)
    PROVE  IInv' /\ LifecycleStep /\ [RQNext]_rqVars
  <1>1. /\ state' = state /\ pid' = pid /\ parent' = parent /\ chan' = chan /\
           killed' = killed /\ ticks_left' = ticks_left /\ np' = np /\ proc' = proc /\
           ptlock' = ptlock /\ nextpid' = nextpid /\ queue' = queue /\ before' = before
    BY DEF ForkDeadline, table, rqVars
  <1>2. /\ p = None \/ state[p] = "RUNNING"
        /\ pc[p] = "forked" /\ np[p] \in Slots
        /\ \A t \in Slots : t # np[p] => virtual_deadline'[t] = virtual_deadline[t]
        /\ \A t \in {None} \cup Slots : t # p => pc'[t] = pc[t]
        /\ pc'[p] = "splice"
    BY DEF ForkDeadline, Executes, Runs, Goto, IInv, TypeOK, ForkInv
  <1>3. Forking(np[p])
    BY <1>2 DEF Forking
  <1>4. \A t : OnCPU(t)' <=> OnCPU(t)
    BY <1>1 DEF OnCPU
  <1>5. \A t : Forking(t)' <=> Forking(t)
    BY <1>1, <1>2 DEF Forking
  <1>6. compute_virtual_deadline(nice) \in Int
    BY IInv DEF IInv, TypeOK, compute_virtual_deadline
  <1>7. TypeOK'
    BY <1>2, <1>6 DEF IInv, TypeOK, ForkDeadline, Goto, table, times, ProcStates,
      ControlPoints, Chans, TicksChan, IOChan, rqVars, Queued
  <1>8. QueueOrdered' /\ [RQNext]_rqVars
    BY <1>1 DEF IInv, QueueOrdered, TotalOrder, Queued, rqVars
  <1> USE <1>1, <1>2, <1>3, <1>4, <1>5, <1>6
  <1>9. PidInv' /\ UniquePids' /\ QuantumLeft' /\ LifecycleStep
    BY DEF IInv, PidInv, UniquePids, QuantumLeft, LifecycleStep
  <1>10. LockInv' /\ RunsOnce'
    BY Ranges DEF IInv, LockInv, RunsOnce
  <1>11. ForkInv'
    BY Ranges DEF IInv, ForkInv, Queued
  <1>12. QueueExact'
    BY DEF IInv, QueueExact, Queued
  <1>13. InitInv' /\ FamilyInv' /\ ParentAlive'
    BY Ranges DEF IInv, InitInv, FamilyInv, ParentAlive
  <1>14. NoMissedExit'
    BY DEF IInv, NoMissedExit, Children, ZombieChildren
  <1> QED BY <1>7, <1>8, <1>9, <1>10, <1>11, <1>12, <1>13, <1>14 DEF IInv

\* insert_node in nicefork ends undisturbed: the child has a node
LEMMA ForkInsertInv ==
    ASSUME IInv, NEW c \in CPUs, NEW p \in {None} \cup Slots, ForkInsert(c, p)
    PROVE  IInv' /\ LifecycleStep /\ [RQNext]_rqVars
  <1>0. PICK s \in Slots : s = np[p]
    BY Ranges DEF IInv, ForkInv, ForkInsert
  <1> DEFINE new == [x \in {pid[s]} |-> virtual_deadline[s]]
  <1>1. /\ state' = state /\ pid' = pid /\ parent' = parent /\ chan' = chan /\
           killed' = killed /\ ticks_left' = ticks_left /\ nice_value' = nice_value /\
           virtual_deadline' = virtual_deadline /\ proc' = proc /\ ptlock' = ptlock /\
           ticks' = ticks /\ ticking' = ticking /\ nextpid' = nextpid /\ torn' = torn /\ panicked' = panicked
    BY DEF ForkInsert, table, times
  <1>2. /\ p = None \/ state[p] = "RUNNING"
        /\ pc[p] = "splice" /\ s = np[p] /\ s \in Slots /\ state[s] = "RUNNABLE"
        /\ \A t \in {None} \cup Slots : t # p => pc'[t] = pc[t]
        /\ pc'[p] \in {"user", "exit"} /\ (p = None => pc'[p] = "user")
        /\ \A t \in {None} \cup Slots : t # p => np'[t] = np[t]
        /\ np'[p] = None
        /\ Enqueue(new, {})
        /\ ~OnCPU(s) /\ pid[s] \notin Queued
    BY <1>0 DEF ForkInsert, Executes, Runs, Return, Goto, IInv, TypeOK, ForkInv
  <1>3. /\ DOMAIN new = {pid[s]} /\ new[pid[s]] = virtual_deadline[s]
        /\ new = [x \in DOMAIN new |-> new[x]]
    BY IInv
  <1> HIDE DEF new
  <1>4. /\ Queued' = Queued \cup {pid[s]} /\ queue'[pid[s]] = virtual_deadline[s]
        /\ \A x \in Queued : queue'[x] = queue[x]
    BY <1>2, <1>3, EnqueueAdds
  <1>5. /\ queue \in [Queued -> Int] /\ Queued \subseteq Nat
        /\ pid[s] \in Nat /\ virtual_deadline[s] \in Int
    BY <1>2 DEF IInv, TypeOK
  <1>6. TotalOrder({}, DOMAIN new)
    BY <1>3 DEF TotalOrder
  <1>7. QueueOrdered' /\ Arrive
    BY <1>2, <1>3, <1>5, <1>6, EnqueueOrdered, EnqueueArrives DEF IInv
  <1>8. \A t : OnCPU(t)' <=> OnCPU(t)
    BY <1>1 DEF OnCPU
  <1>9. ~Forking(s)'
    <2> SUFFICES ASSUME NEW t \in {None} \cup Slots, np'[t] = s, pc'[t] \in {"forked", "splice"}
                 PROVE  FALSE
      BY DEF Forking
    <2>1. t # p /\ np[t] = np[p] /\ np[t] # None
      BY <1>2
    <2> QED BY <2>1 DEF IInv, ForkInv
  <1>10. \A t \in Slots : t # s => (Forking(t)' <=> Forking(t))
    BY <1>2 DEF Forking
  <1>11. pid[s] # None
    BY <1>2 DEF IInv, PidInv
  <1>12. \A t \in Slots : pid[t] \in Queued' => pid[t] \in Queued \/ t = s
    BY <1>2, <1>4, <1>11 DEF IInv, UniquePids
  <1>13. TypeOK'
    <2>1. queue' = [x \in Queued' |-> queue'[x]]
      BY DEF ForkInsert, Enqueue, Joined, Queued
    <2>2. queue' \in [Queued' -> Int] /\ Queued' \subseteq Nat
      BY <1>4, <1>5, <2>1
    <2>3. /\ pc' \in [{None} \cup Slots -> ControlPoints]
          /\ np' \in [{None} \cup Slots -> {None} \cup Slots]
      BY DEF IInv, TypeOK, ForkInsert, Return, Goto, ControlPoints
    <2> QED BY <1>1, <2>2, <2>3 DEF IInv, TypeOK
  <1>14. QueueOrdered' /\ [RQNext]_rqVars
    BY <1>7 DEF RQNext
  <1> USE <1>1, <1>2, <1>3, <1>4, <1>5, <1>6, <1>7, <1>8, <1>9, <1>10, <1>11, <1>12
  <1>15. PidInv' /\ UniquePids' /\ QuantumLeft' /\ LifecycleStep
    BY DEF IInv, PidInv, UniquePids, QuantumLeft, LifecycleStep
  <1>16. LockInv' /\ RunsOnce'
    BY Ranges DEF IInv, LockInv, RunsOnce
  <1>17. ForkInv'
    BY Ranges DEF IInv, ForkInv, Queued
  <1>18. QueueExact'
    BY DEF IInv, QueueExact, Queued
  <1>19. InitInv' /\ FamilyInv' /\ ParentAlive'
    BY Ranges DEF IInv, InitInv, FamilyInv, ParentAlive
  <1>20. NoMissedExit'
    BY DEF IInv, NoMissedExit, Children, ZombieChildren
  <1> QED BY <1>13, <1>14, <1>15, <1>16, <1>17, <1>18, <1>19, <1>20 DEF IInv
=============================================================================
