------------------------------- MODULE SpinLock -------------------------------
(***************************************************************************)
(* Spin-locks and interrupts (spinlock.c) under context switches           *)
(* (sched() and scheduler() in proc.c) and interrupt handlers (trap.c).    *)
(*                                                                         *)
(* A CPU runs a kernel thread: its scheduler, named as the CPU, or a       *)
(* process, which may go on later on another CPU.  A thread is in its own  *)
(* code or, on top of that, in an interrupt handler; both take ptable.lock *)
(* or a device's lock, or ptable.lock inside the device's, as sleep() and  *)
(* wakeup() make them do.                                                  *)
(***************************************************************************)
EXTENDS Integers, Sequences, SequencesExt, FiniteSets

CONSTANTS CPUs, Threads, Free  \* Threads: processes; Free: no CPU

ASSUME SpinAssumption == CPUs \cap Threads = {} /\ Free \notin CPUs

Locks == {"ptable", "device"}

VARIABLES
  locked, lockcpu,    \* of each lock
  ints, ncli, intena, \* of each CPU: the interrupt flag, and what pushcli() keeps
  run,                \* the thread each CPU runs
  frames,             \* of each thread: its code, and the handler it is in
  spinPanic           \* acquire(), release(), popcli() or sched() has panicked

spinVars == <<locked, lockcpu, ints, ncli, intena, run, frames, spinPanic>>

\* at: how far acquire() or release() of lock is; held: locks it has; flags: what
\* readeflags() returned; saved: sched()'s copy of intena, "fork" before forkret();
\* of a scheduler, "done" when it has run the process it picked.
Frame(at, held, saved) == [at |-> at, lock |-> "ptable", held |-> held, flags |-> FALSE, saved |-> saved]
\* Every CPU enters scheduler(); the processes have just been forked.
SpinInit ==
  /\ locked = [l \in Locks |-> FALSE] /\ lockcpu = [l \in Locks |-> Free]
  /\ ints = [c \in CPUs |-> FALSE] /\ intena = [c \in CPUs |-> FALSE] /\ ncli = [c \in CPUs |-> 0]
  /\ run = [c \in CPUs |-> c]
  /\ frames = [t \in CPUs \cup Threads |->
                 IF t \in CPUs THEN <<Frame("out", {}, "none")>> ELSE <<Frame("away", {"ptable"}, "fork")>>]
  /\ spinPanic = FALSE

Top(c) == Last(frames[run[c]])
Depth(c) == Len(frames[run[c]])
Goto(c, f) == frames' = [frames EXCEPT ![run[c]][Depth(c)] = f]
Here(c, place) == ~spinPanic /\ Top(c).at = place

\* sti() at the head of scheduler()'s loop.
Sti(c) ==
  /\ Here(c, "out") /\ run[c] = c /\ Depth(c) = 1 /\ ~ints[c]
  /\ ints' = [ints EXCEPT ![c] = TRUE]
  /\ UNCHANGED <<locked, lockcpu, ncli, intena, run, frames, spinPanic>>

\* acquire(l) up to readeflags() in pushcli().
AcquireBegin(c, l) ==
  LET f == Top(c) IN
  /\ Here(c, "out") \/ Here(c, "in")
  /\ f.held = {} \/ (f.held = {"device"} /\ l = "ptable")
  /\ run[c] = c /\ Depth(c) = 1 => ints[c] /\ l = "ptable"
  /\ Goto(c, [f EXCEPT !.at = "flags", !.lock = l, !.flags = ints[c], !.saved = "none"])
  /\ UNCHANGED <<locked, lockcpu, ints, ncli, intena, run, spinPanic>>

\* The rest of pushcli(), and the test of holding().
PushCli(c) ==
  LET f == Top(c) IN
  /\ Here(c, "flags")
  /\ ints' = [ints EXCEPT ![c] = FALSE]
  /\ intena' = [intena EXCEPT ![c] = IF ncli[c] = 0 THEN f.flags ELSE @]
  /\ ncli' = [ncli EXCEPT ![c] = @ + 1]
  /\ spinPanic' = (locked[f.lock] /\ lockcpu[f.lock] = c)
  /\ Goto(c, [f EXCEPT !.at = "spin", !.flags = FALSE])
  /\ UNCHANGED <<locked, lockcpu, run>>

\* A test and a set that are not one instruction: the test is not repeated.
XchgAny(c) ==
  LET l == Top(c).lock IN
  /\ Here(c, "spin")
  /\ locked' = [locked EXCEPT ![l] = TRUE]
  /\ Goto(c, [Top(c) EXCEPT !.at = "own"])
  /\ UNCHANGED <<lockcpu, ints, ncli, intena, run, spinPanic>>

\* The xchg that finds the lock free; before that the CPU spins.
Xchg(c) ==
  LET l == Top(c).lock IN
  /\ Here(c, "spin") /\ ~locked[l]
  /\ locked' = [locked EXCEPT ![l] = TRUE]
  /\ Goto(c, [Top(c) EXCEPT !.at = "own"])
  /\ UNCHANGED <<lockcpu, ints, ncli, intena, run, spinPanic>>

\* The end of acquire(): lk->cpu.
Acquired(c) ==
  LET f == Top(c) IN
  /\ Here(c, "own")
  /\ lockcpu' = [lockcpu EXCEPT ![f.lock] = c]
  /\ Goto(c, [f EXCEPT !.at = "in", !.held = @ \cup {f.lock}])
  /\ UNCHANGED <<locked, ints, ncli, intena, run, spinPanic>>

\* release(l) up to lk->cpu = 0.
ReleaseBegin(c, l) ==
  /\ Here(c, "in") /\ l \in Top(c).held
  /\ spinPanic' = ~(locked[l] /\ lockcpu[l] = c)
  /\ lockcpu' = [lockcpu EXCEPT ![l] = Free]
  /\ Goto(c, [Top(c) EXCEPT !.at = "unown", !.lock = l])
  /\ UNCHANGED <<locked, ints, ncli, intena, run>>

\* lk->locked = 0
Unlock(c) ==
  /\ Here(c, "unown")
  /\ locked' = [locked EXCEPT ![Top(c).lock] = FALSE]
  /\ Goto(c, [Top(c) EXCEPT !.at = "pop"])
  /\ UNCHANGED <<lockcpu, ints, ncli, intena, run, spinPanic>>

\* release() that clears lk->cpu only after it has given the lock away.
PopCliClears(c) ==
  LET f == Top(c) IN
  /\ Here(c, "pop")
  /\ lockcpu' = [lockcpu EXCEPT ![f.lock] = Free]
  /\ spinPanic' = (ints[c] \/ ncli[c] = 0)
  /\ ncli' = [ncli EXCEPT ![c] = IF @ = 0 THEN 0 ELSE @ - 1]
  /\ ints' = [ints EXCEPT ![c] = @ \/ (ncli[c] = 1 /\ intena[c])]
  /\ Goto(c, [f EXCEPT !.at = IF f.held = {f.lock} THEN "out" ELSE "in", !.held = @ \ {f.lock},
                       !.lock = "ptable"])
  /\ UNCHANGED <<locked, intena, run>>

\* popcli(), the end of release().
PopCli(c) ==
  LET f == Top(c) IN
  /\ Here(c, "pop")
  /\ spinPanic' = (ints[c] \/ ncli[c] = 0)
  /\ ncli' = [ncli EXCEPT ![c] = IF @ = 0 THEN 0 ELSE @ - 1]
  /\ ints' = [ints EXCEPT ![c] = @ \/ (ncli[c] = 1 /\ intena[c])]
  /\ Goto(c, [f EXCEPT !.at = IF f.held = {f.lock} THEN "out" ELSE "in", !.held = @ \ {f.lock},
                       !.lock = "ptable"])
  /\ UNCHANGED <<locked, lockcpu, intena, run>>

(***************************************************************************)
(* Context switches and interrupts.                                        *)
(***************************************************************************)

\* sched(), up to swtch() to the scheduler of this CPU.
Sched(c) ==
  LET t == run[c] IN
  /\ Here(c, "in") /\ t \in Threads /\ Top(c).held = {"ptable"}
  /\ spinPanic' = (lockcpu["ptable"] # c \/ ncli[c] # 1 \/ ints[c])
  /\ frames' = [frames EXCEPT ![t][Depth(c)].at = "away",
                              ![t][Depth(c)].saved = IF intena[c] THEN "on" ELSE "off",
                              ![c][1].at = "in", ![c][1].saved = "done"]
  /\ run' = [run EXCEPT ![c] = c]
  /\ UNCHANGED <<locked, lockcpu, ints, ncli, intena>>

\* sched() that leaves intena to the CPU.
SwtchKeepsIntena(c, t) ==
  /\ Here(c, "in") /\ run[c] = c /\ Depth(c) = 1 /\ Top(c).saved # "done"
  /\ Last(frames[t]).at = "away"
  /\ run' = [run EXCEPT ![c] = t]
  /\ frames' = [frames EXCEPT ![c][1].at = "away", ![t][Len(frames[t])].at = "in"]
  /\ UNCHANGED <<locked, lockcpu, ints, ncli, intena, spinPanic>>

\* scheduler() switches to t, which goes on after swtch() in sched(), or in
\* forkret().  It picks one process each time it takes ptable.lock.
Swtch(c, t) ==
  LET f == Last(frames[t]) IN
  /\ Here(c, "in") /\ run[c] = c /\ Depth(c) = 1 /\ Top(c).saved # "done" /\ f.at = "away"
  /\ run' = [run EXCEPT ![c] = t]
  /\ intena' = [intena EXCEPT ![c] = IF f.saved = "fork" THEN @ ELSE f.saved = "on"]
  /\ frames' = [frames EXCEPT ![c][1].at = "away",
                              ![t][Len(frames[t])] = [f EXCEPT !.at = "in", !.saved = "none"]]
  /\ UNCHANGED <<locked, lockcpu, ints, ncli, spinPanic>>

\* An interrupt, through an interrupt gate: the flag goes off.
Interrupt(c) ==
  /\ ~spinPanic /\ ints[c] /\ Depth(c) = 1
  /\ frames' = [frames EXCEPT ![run[c]] = Append(@, Frame("out", {}, "none"))]
  /\ ints' = [ints EXCEPT ![c] = FALSE]
  /\ UNCHANGED <<locked, lockcpu, ncli, intena, run, spinPanic>>

\* The handler returns; the flag is that of the interrupted code.
IRet(c) ==
  /\ Here(c, "out") /\ Depth(c) = 2
  /\ frames' = [frames EXCEPT ![run[c]] = Front(@)]
  /\ ints' = [ints EXCEPT ![c] = TRUE]
  /\ UNCHANGED <<locked, lockcpu, ncli, intena, run, spinPanic>>

SpinNext == \E c \in CPUs :
  \/ Sti(c) \/ PushCli(c) \/ Xchg(c) \/ Acquired(c) \/ Unlock(c) \/ PopCli(c)
  \/ Sched(c) \/ Interrupt(c) \/ IRet(c)
  \/ \E l \in Locks : AcquireBegin(c, l) \/ ReleaseBegin(c, l)
  \/ \E t \in Threads : Swtch(c, t)

(***************************************************************************)
(* Properties.                                                             *)
(***************************************************************************)

\* The frames of the threads that are running which are inside lock l.
Holders(l) == {<<c, k>> \in CPUs \X (1..2) :
                 /\ k <= Depth(c)
                 /\ LET f == frames[run[c]][k]
                    IN \/ l \in f.held /\ ~(f.at = "pop" /\ f.lock = l)
                       \/ f.at = "own" /\ f.lock = l}

\* One holder at a time, also of ptable.lock, which a process hands to the
\* scheduler and the scheduler to a process without releasing it.
SpinExclusive == \A l \in Locks : Cardinality(Holders(l)) <= 1

\* No CPU enters acquire() of a lock that itself or the code it has interrupted holds,
\* so no handler spins for ever on what it interrupted; and none of the checks of
\* spinlock.c and sched() fails: interrupts are off and one lock is held at every switch.
NoSelfSpin ==
  /\ ~spinPanic
  /\ \A c \in CPUs : Top(c).at \in {"flags", "spin"} => \A h \in Holders(Top(c).lock) : h[1] # c

\* After its last release() code has interrupts as before its first acquire(),
\* though it may have slept and gone on on another CPU.
InterruptsRestored ==
  \A c \in CPUs : Top(c).at = "out" /\ ~(run[c] = c /\ Depth(c) = 1) => ints[c] = (Depth(c) = 1)
================================================================================
