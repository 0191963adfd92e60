------------------------ MODULE SchedulerExitProofs -------------------------
(***************************************************************************)
(* The steps of exit, wait and kill keep the inductive invariant, follow   *)
(* the life cycle of a slot and are steps of the queue.                    *)
(***************************************************************************)
EXTENDS SchedulerLemmas

USE NPROCAssumption, CPUAssumption, QuantumAssumption, NiceAssumption
    DEF None, Slots, initproc

\* exit() leaves a zombie, hands its children to init, and wakes whoever may be
\* waiting in wait(): the only step that can disturb ParentAlive or NoMissedExit
\* for processes other than its own
LEMMA ExitInv ==
    ASSUME IInv, NEW c \in CPUs, NEW p \in Slots, Exit(c, p)
    PROVE  IInv' /\ LifecycleStep /\ [RQNext]_rqVars
  <1> DEFINE V == WokenParent(p)
             W == WokenInit(p)
  <1>1. /\ pid' = pid /\ chan' = chan /\ killed' = killed /\
           ticks_left' = ticks_left /\ nice_value' = nice_value /\
           virtual_deadline' = virtual_deadline /\ pc' = pc /\ np' = np /\
           proc' = proc /\ ticks' = ticks /\ ticking' = ticking /\ nextpid' = nextpid /\ torn' = torn /\
           panicked' = panicked
    BY DEF Exit, times, control
  <1>2. /\ state[p] = "RUNNING" /\ proc[c] = p /\ ptlock # c
        /\ p # initproc /\ pc[p] = "exit" /\ ptlock = None /\ ptlock' = c
        /\ V \in SUBSET Slots /\ W \in SUBSET Slots /\ V \cap W = {}
        /\ \A t \in V \cup W : state[t] = "SLEEPING"
        /\ InsertNodes(V \cup W, TableOrder(V) \cup TableOrder(W) \cup (V \X W), virtual_deadline)
        /\ \A t \in Slots : state'[t] = IF t = p THEN "ZOMBIE" ELSE IF t \in V \cup W THEN "RUNNABLE" ELSE state[t]
        /\ \A t \in Slots : parent'[t] = IF parent[t] = p THEN initproc ELSE parent[t]
    BY DEF Exit, WokenParent, WokenInit, Sleepers, Runs, Adopted, Children
  <1>3. /\ \A t \in Slots : state[t] = "SLEEPING" /\ pc[t] = "wait" /\ t = parent[p] => t \in V \cup W
        /\ \A t \in Slots : state[t] = "SLEEPING" /\ pc[t] = "wait" /\ t = initproc /\ ZombieChildren(p) # {}
              => t \in V \cup W
    BY  DEF IInv, FamilyInv, WokenParent, WokenInit, Sleepers
  <1>4. WakesUp(V \cup W) /\ QueueOrdered' /\ [RQNext]_rqVars
    BY <1>2, ConcatOrder, Woken, IInv, Zenon
  <1> HIDE DEF V, W
  <1>5. \A t : OnCPU(t)' <=> OnCPU(t)
    BY <1>1 DEF OnCPU
  <1>6. \A t : Forking(t)' <=> Forking(t)
    BY <1>1 DEF Forking
  <1>7. OnCPU(p) /\ np[p] = None
    BY <1>2 DEF OnCPU, IInv, ForkInv
  <1>8. state[initproc] \in {"SLEEPING", "RUNNABLE", "RUNNING"}
    BY <1>2 DEF IInv, InitInv
  <1>9. TypeOK'
    <2>1. state' \in [Slots -> ProcStates]
      BY DEF IInv, TypeOK, Exit, ProcStates
    <2>2. parent' \in [Slots -> {None} \cup Slots]
      BY DEF IInv, TypeOK, Exit, Adopted
    <2> QED BY <1>1, <1>2, <1>4, <2>1, <2>2 DEF IInv, TypeOK, WakesUp
  <1>10. QueueOrdered' /\ [RQNext]_rqVars
    BY <1>4
  <1>11. NoMissedExit'
    <2> SUFFICES ASSUME NEW q \in Slots, state'[q] = "SLEEPING", pc'[q] = "wait"
                 PROVE  Children(q)' # {} /\ ZombieChildren(q)' = {} /\ ~killed'[q]
      BY DEF NoMissedExit
    <2>1. state[q] = "SLEEPING" /\ pc[q] = "wait" /\ q # p /\ q \notin V \cup W
      BY <1>1, <1>2
    <2>2. Children(q) # {} /\ ZombieChildren(q) = {} /\ ~killed[q]
      BY <2>1 DEF IInv, NoMissedExit
    <2>3. Children(q)' # {}
      BY <1>2, <2>1, <2>2 DEF Children
    <2>4. ASSUME NEW t \in Slots, parent'[t] = q PROVE state'[t] # "ZOMBIE"
      <3>1. CASE t = p
        BY <1>2, <1>3, <2>1, <2>4, <3>1 DEF IInv, FamilyInv
      <3>2. CASE t # p /\ parent[t] = q
        BY <1>2, <2>2, <3>2 DEF ZombieChildren, Children
      <3>3. CASE t # p /\ parent[t] = p
        BY <1>2, <1>3, <2>1, <2>4, <3>3 DEF ZombieChildren, Children
      <3> QED BY <1>2, <2>4, <3>1, <3>2, <3>3
    <2> QED BY <1>1, <2>2, <2>3, <2>4 DEF ZombieChildren, Children
  <1> USE <1>1, <1>2, <1>3, <1>4, <1>5, <1>6, <1>7, <1>8
  <1>12. PidInv' /\ UniquePids' /\ QuantumLeft' /\ LifecycleStep
    BY DEF IInv, PidInv, UniquePids, QuantumLeft, LifecycleStep
  <1>13. LockInv' /\ RunsOnce'
    BY Ranges DEF IInv, LockInv, RunsOnce, WakesUp
  <1>14. ForkInv'
    BY Ranges DEF IInv, ForkInv, Queued, WakesUp
  <1>15. QueueExact'
    BY DEF IInv, QueueExact, Queued, WakesUp
  <1>16. InitInv' /\ FamilyInv' /\ ParentAlive'
    BY Ranges DEF IInv, InitInv, FamilyInv, ParentAlive
  <1> QED BY <1>9, <1>10, <1>11, <1>12, <1>13, <1>14, <1>15, <1>16 DEF IInv

\* wait() frees the slot of a zombie child and forgets its pid
LEMMA WaitReapInv ==
    ASSUME IInv, NEW c \in CPUs, NEW p \in Slots, NEW s \in Slots, WaitReap(c, p, s)
    PROVE  IInv' /\ LifecycleStep /\ [RQNext]_rqVars
  <1>1. /\ np' = np /\ proc' = proc /\ nextpid' = nextpid /\
           ticks_left' = ticks_left /\ nice_value' = nice_value /\
           virtual_deadline' = virtual_deadline /\ queue' = queue /\ before' = before
    BY DEF WaitReap, times, rqVars
  <1>2. /\ state[p] = "RUNNING" /\ proc[c] = p /\ ptlock \in {None, c}
        /\ ptlock' = None
        /\ state[s] = "ZOMBIE" /\ parent[s] = p
        /\ \A t \in Slots : t # s => state'[t] = state[t]
        /\ state'[s] = "UNUSED"
        /\ \A t \in Slots : t # s => pid'[t] = pid[t]
        /\ pid'[s] = None
        /\ \A t \in Slots : t # s => parent'[t] = parent[t]
        /\ parent'[s] = None
        /\ \A t \in Slots : t # s => killed'[t] = killed[t]
        /\ killed'[s] = FALSE
        /\ \A t \in Slots : t # p => chan'[t] = chan[t]
        /\ chan'[p] = None
        /\ \A t \in {None} \cup Slots : t # p => pc'[t] = pc[t]
        /\ pc[p] \in {"syscall", "wait"} /\ pc'[p] \in {"user", "exit"}
    BY DEF WaitReap, Scans, Calls, Runs, First, ZombieChildren, Children, Return, Goto,
       IInv, TypeOK, RunsOnce
  <1>3. s # p /\ s # initproc /\ np[s] = None
    BY <1>2 DEF IInv, InitInv, ForkInv
  <1>4. ~OnCPU(s) /\ ~Forking(s)
    BY <1>2 DEF IInv, LockInv, OnCPU, Forking, ForkInv
  <1>5. nextpid \in Nat \ {0}
    BY IInv DEF IInv, TypeOK
  <1>6. \A t : OnCPU(t)' <=> OnCPU(t)
    BY <1>1 DEF OnCPU
  <1>7. \A t : Forking(t)' <=> Forking(t)
    BY <1>1, <1>2 DEF Forking
  <1>8. TypeOK'
    BY DEF IInv, TypeOK, WaitReap, Scans, Calls, Runs, Return, Goto, times, ProcStates,
      ControlPoints, Chans, TicksChan, IOChan, rqVars, Queued
  <1>9. QueueOrdered' /\ [RQNext]_rqVars
    BY <1>1 DEF IInv, QueueOrdered, TotalOrder, Queued, rqVars
  <1> USE <1>1, <1>2, <1>3, <1>4, <1>5, <1>6, <1>7
  <1>10. PidInv' /\ UniquePids' /\ QuantumLeft' /\ LifecycleStep
    BY DEF IInv, PidInv, UniquePids, QuantumLeft, LifecycleStep
  <1>11. LockInv' /\ RunsOnce'
    BY Ranges DEF IInv, LockInv, RunsOnce
  <1>12. ForkInv'
    BY Ranges DEF IInv, ForkInv, Queued
  <1>13. QueueExact'
    BY DEF IInv, QueueExact, Queued
  <1>14. InitInv' /\ FamilyInv' /\ ParentAlive'
    BY Ranges DEF IInv, InitInv, FamilyInv, ParentAlive
  <1>15. NoMissedExit'
    BY DEF IInv, NoMissedExit, Children, ZombieChildren
  <1> QED BY <1>8, <1>9, <1>10, <1>11, <1>12, <1>13, <1>14, <1>15 DEF IInv

\* wait() returns -1 without children, or when killed
LEMMA WaitNoneInv ==
    ASSUME IInv, NEW c \in CPUs, NEW p \in Slots, WaitNone(c, p)
    PROVE  IInv' /\ LifecycleStep /\ [RQNext]_rqVars
  <1>1. /\ state' = state /\ pid' = pid /\ parent' = parent /\ killed' = killed /\
           ticks_left' = ticks_left /\ nice_value' = nice_value /\
           virtual_deadline' = virtual_deadline /\ np' = np /\ proc' = proc /\
           nextpid' = nextpid /\ queue' = queue /\ before' = before
    BY DEF WaitNone, times, rqVars
  <1>2. /\ state[p] = "RUNNING" /\ proc[c] = p /\ ptlock \in {None, c}
        /\ ptlock' = None
        /\ \A t \in {None} \cup Slots : t # p => pc'[t] = pc[t]
        /\ pc[p] \in {"syscall", "wait"} /\ pc'[p] \in {"user", "exit"}
        /\ \A t \in Slots : t # p => chan'[t] = chan[t]
        /\ chan'[p] = None
    BY DEF WaitNone, Scans, Calls, Runs, Return, Goto, IInv, TypeOK, RunsOnce
  <1>3. \A t : OnCPU(t)' <=> OnCPU(t)
    BY <1>1 DEF OnCPU
  <1>4. \A t : Forking(t)' <=> Forking(t)
    BY <1>1, <1>2 DEF Forking
  <1>5. TypeOK'
    BY DEF IInv, TypeOK, WaitNone, Goto, Return, times, ProcStates, ControlPoints,
      Chans, TicksChan, IOChan, rqVars, Queued
  <1>6. QueueOrdered' /\ [RQNext]_rqVars
    BY <1>1 DEF IInv, QueueOrdered, TotalOrder, Queued, rqVars
  <1> USE <1>1, <1>2, <1>3, <1>4
  <1>7. PidInv' /\ UniquePids' /\ QuantumLeft' /\ LifecycleStep
    BY DEF IInv, PidInv, UniquePids, QuantumLeft, LifecycleStep
  <1>8. LockInv' /\ RunsOnce'
    BY DEF IInv, LockInv, RunsOnce, OnCPU
  <1>9. ForkInv'
    BY DEF IInv, ForkInv, Queued
  <1>10. QueueExact'
    BY DEF IInv, QueueExact, Queued
  <1>11. InitInv' /\ FamilyInv' /\ ParentAlive'
    BY DEF IInv, InitInv, FamilyInv, ParentAlive
  <1>12. NoMissedExit'
    BY DEF IInv, NoMissedExit, Children, ZombieChildren
  <1> QED BY <1>5, <1>6, <1>7, <1>8, <1>9, <1>10, <1>11, <1>12 DEF IInv

\* wait() goes to sleep having seen, under the lock, that no child is a zombie
LEMMA WaitSleepInv ==
    ASSUME IInv, NEW c \in CPUs, NEW p \in Slots, WaitSleep(c, p)
    PROVE  IInv' /\ LifecycleStep /\ [RQNext]_rqVars
  <1>1. /\ pid' = pid /\ parent' = parent /\ killed' = killed /\
           ticks_left' = ticks_left /\ nice_value' = nice_value /\
           virtual_deadline' = virtual_deadline /\ np' = np /\ proc' = proc /\
           nextpid' = nextpid /\ queue' = queue /\ before' = before
    BY DEF WaitSleep, times, rqVars
  <1>2. /\ state[p] = "RUNNING" /\ proc[c] = p /\ ptlock \in {None, c}
        /\ ptlock' = c
        /\ \A t \in {None} \cup Slots : t # p => pc'[t] = pc[t]
        /\ pc[p] \in {"syscall", "wait"} /\ pc'[p] = "wait"
        /\ \A t \in Slots : t # p => state'[t] = state[t]
        /\ state'[p] = "SLEEPING"
        /\ \A t \in Slots : t # p => chan'[t] = chan[t]
        /\ chan'[p] = p
        /\ ZombieChildren(p) = {} /\ Children(p) # {} /\ ~killed[p]
    BY DEF WaitSleep, Scans, Calls, Runs, Goto, IInv, TypeOK
  <1>3. \A t : OnCPU(t)' <=> OnCPU(t)
    BY <1>1 DEF OnCPU
  <1>4. \A t : Forking(t)' <=> Forking(t)
    BY <1>1, <1>2 DEF Forking
  <1>5. np[p] = None
    BY <1>2 DEF IInv, ForkInv
  <1>6. TypeOK'
    BY DEF IInv, TypeOK, WaitSleep, Scans, Calls, Runs, Goto, times, ProcStates,
      ControlPoints, Chans, TicksChan, IOChan, rqVars, Queued
  <1>7. QueueOrdered' /\ [RQNext]_rqVars
    BY <1>1 DEF IInv, QueueOrdered, TotalOrder, Queued, rqVars
  <1> USE <1>1, <1>2, <1>3, <1>4, <1>5
  <1>8. PidInv' /\ UniquePids' /\ QuantumLeft' /\ LifecycleStep
    BY DEF IInv, PidInv, UniquePids, QuantumLeft, LifecycleStep
  <1>9. LockInv' /\ RunsOnce'
    BY Ranges DEF IInv, LockInv, RunsOnce
  <1>10. ForkInv'
    BY Ranges DEF IInv, ForkInv, Queued
  <1>11. QueueExact'
    BY DEF IInv, QueueExact, Queued
  <1>12. InitInv' /\ FamilyInv' /\ ParentAlive'
    BY Ranges DEF IInv, InitInv, FamilyInv, ParentAlive
  <1>13. NoMissedExit'
    BY DEF IInv, NoMissedExit, Children, ZombieChildren
  <1> QED BY <1>6, <1>7, <1>8, <1>9, <1>10, <1>11, <1>12, <1>13 DEF IInv

\* kill() marks its victim and, only if it sleeps, gives it a node
LEMMA KillInv ==
    ASSUME IInv, NEW c \in CPUs, NEW p \in Slots, NEW k \in 0..MaxPid, NEW s \in Slots, Kill(c, p, k, s)
    PROVE  IInv' /\ LifecycleStep /\ [RQNext]_rqVars
  <1> DEFINE W == WokenByKill(s)
  <1>1. /\ pid' = pid /\ parent' = parent /\ chan' = chan /\
           ticks_left' = ticks_left /\ nice_value' = nice_value /\
           virtual_deadline' = virtual_deadline /\ np' = np /\ proc' = proc /\
           ptlock' = ptlock /\ ticks' = ticks /\ ticking' = ticking /\ nextpid' = nextpid /\ torn' = torn /\
           panicked' = panicked
    BY DEF Kill, times
  <1>2. /\ state[p] = "RUNNING" /\ proc[c] = p /\ ptlock # c
        /\ ptlock = None /\ W \in SUBSET {s}
        /\ \A t \in W : state[t] = "SLEEPING"
        /\ state[s] = "SLEEPING" => s \in W
        /\ InsertNodes(W, {}, virtual_deadline)
        /\ \A t \in Slots : state'[t] = IF t \in W THEN "RUNNABLE" ELSE state[t]
        /\ \A t \in {None} \cup Slots : t # p => pc'[t] = pc[t]
        /\ pc[p] = "syscall" /\ pc'[p] \in {"user", "exit"}
        /\ \A t \in Slots : t # s => killed'[t] = killed[t]
    BY DEF Kill, WokenByKill, Calls, Runs, Goto, IInv, TypeOK
  <1>3. TotalOrder({}, W) /\ W \in SUBSET Slots
    BY <1>2 DEF TotalOrder
  <1>4. WakesUp(W) /\ QueueOrdered' /\ [RQNext]_rqVars
    BY <1>2, <1>3, Woken, IInv, Zenon
  <1> HIDE DEF W
  <1>5. \A t : OnCPU(t)' <=> OnCPU(t)
    BY <1>1 DEF OnCPU
  <1>6. \A t : Forking(t)' <=> Forking(t)
    BY <1>1, <1>2 DEF Forking
  <1>7. TypeOK'
    BY <1>1, <1>4 DEF IInv, TypeOK, WakesUp, ProcStates, ControlPoints, Kill, Goto
  <1>8. QueueOrdered' /\ [RQNext]_rqVars
    BY <1>4
  <1>9. LockInv'
    BY <1>1, <1>2, Ranges DEF IInv, LockInv
  <1> USE <1>1, <1>2, <1>3, <1>4, <1>5, <1>6
  <1>10. PidInv' /\ UniquePids' /\ QuantumLeft' /\ LifecycleStep
    BY DEF IInv, PidInv, UniquePids, QuantumLeft, LifecycleStep
  <1>11. RunsOnce'
    BY Ranges DEF IInv, RunsOnce, LockInv, WakesUp
  <1>12. ForkInv'
    BY Ranges DEF IInv, ForkInv, Queued, WakesUp
  <1>13. QueueExact'
    BY DEF IInv, QueueExact, Queued, WakesUp
  <1>14. InitInv' /\ FamilyInv' /\ ParentAlive'
    BY Ranges DEF IInv, InitInv, FamilyInv, ParentAlive
  <1>15. NoMissedExit'
    BY DEF IInv, NoMissedExit, Children, ZombieChildren
  <1> QED BY <1>7, <1>8, <1>9, <1>10, <1>11, <1>12, <1>13, <1>14, <1>15 DEF IInv
=============================================================================
