----------------------------- MODULE Scheduler ------------------------------
(***************************************************************************)
(* The process table of proc.c, its virtual-deadline scheduler, and the    *)
(* traps that drive it (trap.c).                                           *)
(*                                                                         *)
(* Interleaving.  Code between acquire(&ptable.lock) and the matching      *)
(* release is one step, except where the lock is handed across swtch: then *)
(* ptlock stays with the CPU and the step on the other side of swtch is an *)
(* action of its own.  Code outside the lock is split wherever another CPU *)
(* or an interrupt can get in between.                                     *)
(*                                                                         *)
(* insert_node in nicefork and userinit runs without ptable.lock.  It is   *)
(* in progress while pc = "splice".  Another use of the skip list in that  *)
(* window, by another CPU or by an interrupt on the same one, is a data    *)
(* race; what it does to the list is the subject of SkipListRace, here it  *)
(* sets `torn' and the behaviour ends.                                     *)
(***************************************************************************)
EXTENDS RunQueue

CONSTANTS
    NPROC,        \* param.h: slots of ptable.proc
    CPUs,         \* the processors running scheduler()
    BootCPU,      \* the one that runs main() and keeps `ticks'
    Quantum,      \* bfs.h: BFS_DEFAULT_QUANTUM
    NiceFirst,    \* bfs.h: BFS_NICE_FIRST_LEVEL
    NiceValues,   \* arguments processes pass to nicefork
    Syscalls,     \* the system calls the user programs make
    MaxPid,       \* bound on nextpid
    MaxTicks      \* bound on ticks

Slots == 1..NPROC
None == 0
initproc == 1                    \* the slot userinit gets from allocproc
TicksChan == NPROC + 1           \* the channel &ticks
IOChan == NPROC + 2              \* any other channel: a buffer, a pipe, an inode
Chans == {TicksChan, IOChan}
ProcStates == {"UNUSED", "EMBRYO", "SLEEPING", "RUNNABLE", "RUNNING", "ZOMBIE"}
ControlPoints == {"forkret", "user", "syscall", "kernel", "wait", "exit",
                  "embryo", "forked", "splice"}

ASSUME NPROCAssumption == NPROC \in Nat /\ NPROC >= 1
ASSUME CPUAssumption == BootCPU \in CPUs /\ None \notin CPUs
ASSUME QuantumAssumption == Quantum \in Nat /\ Quantum >= 1
ASSUME NiceAssumption == NiceFirst \in Int /\ 0 \in NiceValues /\ NiceValues \subseteq Int
ASSUME BoundAssumption == MaxPid \in Nat /\ MaxTicks \in Nat

VARIABLES
    \* struct proc, by slot
    state, pid, parent, chan, killed, ticks_left, nice_value, virtual_deadline,
    \* where the kernel code of a process stands, and the np of its nicefork;
    \* index 0 is main() running userinit on the boot CPU
    pc, np,
    proc,         \* cpu->proc
    ptlock,       \* the CPU holding ptable.lock, or None
    ticks,
    ticking,      \* the CPU between wakeup(&ticks) and the rest of trap(), or None
    nextpid,
    torn,         \* the skip list was used while an unlocked insert_node ran
    panicked

table == <<state, pid, parent, chan, killed>>
times == <<ticks_left, nice_value, virtual_deadline>>
control == <<pc, np>>
vars == <<table, times, control, proc, ptlock, ticks, ticking, nextpid, torn, panicked, rqVars>>

-----------------------------------------------------------------------------
compute_virtual_deadline(nice) == ticks + Quantum * (nice - NiceFirst + 1)

First(s, S) == s \in S /\ \A t \in S : s <= t

\* Some insert_node that does not hold ptable.lock is in progress
Splicing == \E t \in {None} \cup Slots : pc[t] = "splice"

Live == ~torn /\ ~panicked

\* CPU c executes process p outside the critical sections of ptable.lock and
\* the timer interrupt
Runs(c, p) ==
    /\ Live /\ p # None /\ proc[c] = p /\ state[p] = "RUNNING"
    /\ ptlock # c /\ ticking # c

\* ... or it is the boot processor, still in userinit (p = None)
Executes(c, p) ==
    Runs(c, p) \/ (Live /\ p = None /\ c = BootCPU /\ pc[None] # "user")

\* p has entered the kernel and starts the body of a system call
Calls(c, p, call) == Runs(c, p) /\ pc[p] = "syscall" /\ call \in Syscalls

\* The processes wakeup1(ch) wakes
Sleepers(ch) == {s \in Slots : state[s] = "SLEEPING" /\ chan[s] = ch}

\* A loop over the process table meets S in this order
TableOrder(S) == {e \in S \X S : e[1] < e[2]}

\* The processes of S join the skip list in the order R, with the deadlines vd;
\* no unlocked insert_node is in progress
InsertNodes(S, R, vd) ==
    \/ S = {} /\ UNCHANGED rqVars
    \/ /\ S # {} /\ ~Splicing
       /\ Enqueue([x \in {pid[s] : s \in S} |-> vd[CHOOSE s \in S : pid[s] = x]],
                  {<<pid[e[1]], pid[e[2]]>> : e \in R})

Goto(p, l) == pc' = [pc EXCEPT ![p] = l]

\* The system call of p is done; trap() sends a killed process to exit
Return(p) == Goto(p, IF p # None /\ killed[p] THEN "exit" ELSE "user")

-----------------------------------------------------------------------------
\* nicefork and userinit

\* p->pid = nextpid++
TakePidStuck(s) == pid' = [pid EXCEPT ![s] = nextpid] /\ nextpid' = nextpid

TakePid(s) == pid' = [pid EXCEPT ![s] = nextpid] /\ nextpid' = nextpid + 1

\* allocproc: the first UNUSED slot, under the lock; the context it sets up
\* starts in forkret
AllocProc(c, p, s) ==
    /\ Calls(c, p, "nicefork") \/ (Executes(c, p) /\ p = None /\ pc[p] = "syscall")
    /\ ptlock = None
    /\ nextpid <= MaxPid
    /\ First(s, {t \in Slots : state[t] = "UNUSED"})
    /\ state' = [state EXCEPT ![s] = "EMBRYO"]
    /\ TakePid(s)
    /\ pc' = [pc EXCEPT ![p] = "embryo", ![s] = "forkret"] /\ np' = [np EXCEPT ![p] = s]
    /\ UNCHANGED <<parent, chan, killed, times, proc, ptlock, ticks, ticking, torn,
                   panicked, rqVars>>

\* kalloc of the kernel stack or copyuvm failed: back to UNUSED, without the
\* lock, the pid left in the slot
ForkFail(c, p) ==
    /\ Runs(c, p) /\ pc[p] = "embryo"
    /\ state' = [state EXCEPT ![np[p]] = "UNUSED"]
    /\ Return(p) /\ np' = [np EXCEPT ![p] = None]
    /\ UNCHANGED <<pid, parent, chan, killed, times, proc, ptlock, ticks, ticking,
                   nextpid, torn, panicked, rqVars>>

\* The child is set up and made RUNNABLE, under the lock
ForkRunnable(c, p) ==
    /\ Executes(c, p) /\ ptlock = None /\ pc[p] = "embryo"
    /\ state' = [state EXCEPT ![np[p]] = "RUNNABLE"]
    /\ parent' = [parent EXCEPT ![np[p]] = p]
    /\ Goto(p, "forked")
    /\ UNCHANGED <<pid, chan, killed, times, np, proc, ptlock, ticks, ticking,
                   nextpid, torn, panicked, rqVars>>

\* After the lock is released: the deadline, and insert_node begins
ForkDeadline(c, p, nice) ==
    /\ Executes(c, p) /\ pc[p] = "forked"
    /\ p = None => nice = 0
    /\ nice_value' = [nice_value EXCEPT ![np[p]] = nice]
    /\ virtual_deadline' = [virtual_deadline EXCEPT ![np[p]] = compute_virtual_deadline(nice)]
    /\ Goto(p, "splice")
    /\ UNCHANGED <<table, ticks_left, np, proc, ptlock, ticks, ticking, nextpid,
                   torn, panicked, rqVars>>

\* insert_node ends undisturbed and nicefork returns
ForkInsert(c, p) ==
    /\ Executes(c, p) /\ pc[p] = "splice"
    /\ \A t \in {None} \cup Slots : pc[t] = "splice" => t = p
    /\ Enqueue([x \in {pid[np[p]]} |-> virtual_deadline[np[p]]], {})
    /\ Return(p) /\ np' = [np EXCEPT ![p] = None]
    /\ UNCHANGED <<table, times, proc, ptlock, ticks, ticking, nextpid, torn,
                   panicked>>

-----------------------------------------------------------------------------
\* The scheduler, and the processes that enter it through sched()

\* The pid scheduler() gets from get_minimum
NextProcessAny(x) == x \in Queued
NextProcess(x) == IsMinimum(x)

\* scheduler(), up to swtch: the slot whose pid get_minimum returns runs,
\* whatever its state, with a full quantum; ptable.lock goes with it
SchedPick(c, x, s) ==
    /\ Live /\ ptlock = None /\ proc[c] = None
    /\ c = BootCPU => pc[None] = "user"
    /\ ~Splicing
    /\ NextProcess(x) /\ First(s, {t \in Slots : pid[t] = x})
    /\ proc' = [proc EXCEPT ![c] = s] /\ ptlock' = c
    /\ state' = [state EXCEPT ![s] = "RUNNING"]
    /\ ticks_left' = [ticks_left EXCEPT ![s] = Quantum]
    /\ Dequeue(x)
    /\ UNCHANGED <<pid, parent, chan, killed, nice_value, virtual_deadline, control,
                   ticks, ticking, nextpid, torn, panicked>>

\* scheduler() puts back a process that left the CPU RUNNABLE
RequeuedAlways(p) == {p}
Requeued(p) == {s \in {p} : state[s] = "RUNNABLE"}

\* scheduler(), after swtch: a RUNNABLE process goes back to the skip list,
\* with a new deadline if it used up its quantum
SchedReturn(c, p) ==
    /\ Live /\ p # None /\ ptlock = c /\ proc[c] = p /\ state[p] # "RUNNING"
    /\ virtual_deadline' =
          IF state[p] = "RUNNABLE" /\ ticks_left[p] = 0
          THEN [virtual_deadline EXCEPT ![p] = compute_virtual_deadline(nice_value[p])]
          ELSE virtual_deadline
    /\ InsertNodes(Requeued(p), {}, virtual_deadline')
    /\ proc' = [proc EXCEPT ![c] = None] /\ ptlock' = None
    /\ UNCHANGED <<table, ticks_left, nice_value, control, ticks, ticking, nextpid,
                   torn, panicked>>

\* The process side of swtch: yield, sleep and forkret release ptable.lock
\* (wait keeps it and goes round its loop, see Scans).  The first forkret goes
\* on to iinit and initlog; a preempted process that was killed exits.
Resume(c, p) ==
    /\ Live /\ p # None /\ ptlock = c /\ proc[c] = p /\ state[p] = "RUNNING"
    /\ pc[p] # "wait"
    /\ chan' = [chan EXCEPT ![p] = None]
    /\ ptlock' = None
    /\ Goto(p, CASE pc[p] = "forkret" -> IF p = initproc THEN "kernel" ELSE "user"
                 [] pc[p] = "user" /\ killed[p] -> "exit"
                 [] OTHER -> pc[p])
    /\ UNCHANGED <<state, pid, parent, killed, times, np, proc, ticks, ticking,
                   nextpid, torn, panicked, rqVars>>

\* sys_yield: sched() is entered with the lock, which stays with `holder'
YieldHolding(c, p, holder) ==
    /\ Calls(c, p, "yield") /\ ptlock = None
    /\ state' = [state EXCEPT ![p] = "RUNNABLE"]
    /\ ptlock' = holder
    /\ Goto(p, "kernel")
    /\ UNCHANGED <<pid, parent, chan, killed, times, np, proc, ticks, ticking,
                   nextpid, torn, panicked, rqVars>>
YieldUnlocked(c, p) == YieldHolding(c, p, None)
Yield(c, p) == YieldHolding(c, p, c)

\* sleep on a channel other than a process, from a system call or from exit
Sleep(c, p, ch) ==
    /\ \/ Calls(c, p, "sleep")
       \/ Runs(c, p) /\ "sleep" \in Syscalls /\ pc[p] = "kernel"
       \/ Runs(c, p) /\ "sleep" \in Syscalls /\ pc[p] = "exit" /\ p # initproc /\ ch = IOChan
    /\ ptlock = None
    /\ Goto(p, IF pc[p] = "exit" THEN "exit" ELSE "kernel")
    /\ chan' = [chan EXCEPT ![p] = ch]
    /\ state' = [state EXCEPT ![p] = "SLEEPING"]
    /\ ptlock' = c
    /\ UNCHANGED <<pid, parent, killed, times, np, proc, ticks, ticking, nextpid,
                   torn, panicked, rqVars>>

\* A trap from user space: a system call begins unless the process is killed
SysEnter(c, p) ==
    /\ Runs(c, p) /\ pc[p] = "user"
    /\ Goto(p, IF killed[p] THEN "exit" ELSE "syscall")
    /\ UNCHANGED <<table, times, np, proc, ptlock, ticks, ticking, nextpid, torn,
                   panicked, rqVars>>

\* A fault in user space kills the process
UserFault(c, p) ==
    /\ Runs(c, p) /\ pc[p] = "user"
    /\ killed' = [killed EXCEPT ![p] = TRUE]
    /\ Goto(p, "exit")
    /\ UNCHANGED <<state, pid, parent, chan, times, np, proc, ptlock, ticks,
                   ticking, nextpid, torn, panicked, rqVars>>

\* A system call ends; one that changes nothing here (nicefork without a free
\* slot, kill of an unknown pid, getpid) ends as it begins
SysReturn(c, p) ==
    /\ Runs(c, p) /\ pc[p] \in {"syscall", "kernel"}
    /\ Return(p)
    /\ UNCHANGED <<table, times, np, proc, ptlock, ticks, ticking, nextpid, torn,
                   panicked, rqVars>>

\* wakeup: a process or a device interrupt wakes a channel
Wakeup ==
    /\ Live /\ ptlock = None /\ Sleepers(IOChan) # {}
    /\ state' = [s \in Slots |-> IF s \in Sleepers(IOChan) THEN "RUNNABLE" ELSE state[s]]
    /\ InsertNodes(Sleepers(IOChan), TableOrder(Sleepers(IOChan)), virtual_deadline)
    /\ UNCHANGED <<pid, parent, chan, killed, times, control, proc, ptlock, ticks,
                   ticking, nextpid, torn, panicked>>

\* --ticks_left == 0
QuantumUsedLate(p) == ticks_left[p] = 0
QuantumUsed(p) == ticks_left[p] - 1 = 0

\* The timer interrupt on the boot CPU, idle or running a process: ticks
\* advances and the sleepers on &ticks wake
TimerTick ==
    LET W == Sleepers(TicksChan)
    IN  /\ Live /\ ptlock = None /\ ticking = None
        /\ proc[BootCPU] = None => pc[None] = "user"
        /\ ticks < MaxTicks /\ ticks' = ticks + 1
        /\ state' = [s \in Slots |-> IF s \in W THEN "RUNNABLE" ELSE state[s]]
        /\ InsertNodes(W, TableOrder(W), virtual_deadline)
        /\ ticking' = IF proc[BootCPU] = None THEN None ELSE BootCPU
        /\ UNCHANGED <<pid, parent, chan, killed, times, control, proc, ptlock,
                       nextpid, torn, panicked>>

\* The rest of the timer interrupt, on any CPU that runs a process.  A killed
\* process in user space exits.  Any other, in the kernel as in user space, has
\* one tick less of its quantum; at zero it yields.
TimerTrap(c, p) ==
    LET exits == pc[p] = "user" /\ killed[p]
        yields == ~exits /\ QuantumUsed(p)
    IN  /\ Live /\ p # None /\ proc[c] = p /\ state[p] = "RUNNING" /\ ptlock # c
        /\ IF c = BootCPU THEN ticking = c /\ ticking' = None ELSE UNCHANGED ticking
        /\ yields => ptlock = None
        /\ state' = IF yields THEN [state EXCEPT ![p] = "RUNNABLE"] ELSE state
        /\ pc' = IF exits THEN [pc EXCEPT ![p] = "exit"] ELSE pc
        /\ ticks_left' = IF exits THEN ticks_left
                         ELSE [ticks_left EXCEPT ![p] = @ - 1]
        /\ ptlock' = IF yields THEN c ELSE ptlock
        /\ UNCHANGED <<pid, parent, chan, killed, nice_value, virtual_deadline, np,
                       proc, ticks, nextpid, torn, panicked, rqVars>>

-----------------------------------------------------------------------------
\* exit, wait, kill

\* sys_exit
ExitCall(c, p) ==
    /\ Calls(c, p, "exit") /\ Goto(p, "exit")
    /\ UNCHANGED <<table, times, np, proc, ptlock, ticks, ticking, nextpid, torn,
                   panicked, rqVars>>

ExitPanic(c, p) ==
    /\ Runs(c, p) /\ pc[p] = "exit" /\ p = initproc
    /\ panicked' = TRUE
    /\ UNCHANGED <<table, times, control, proc, ptlock, ticks, ticking, nextpid,
                   torn, rqVars>>

Children(p) == {s \in Slots : parent[s] = p}
ZombieChildren(p) == {s \in Children(p) : state[s] = "ZOMBIE"}

\* Pass abandoned children to init
AdoptedNone(p) == parent
Adopted(p) == [s \in Slots |-> IF s \in Children(p) THEN initproc ELSE parent[s]]

\* Whom exit wakes: the parent, then init if it inherits a zombie
WokenParent(p) == Sleepers(parent[p])
WokenInitNever(p) == {}
WokenInit(p) ==
    IF ZombieChildren(p) # {} THEN Sleepers(initproc) \ WokenParent(p) ELSE {}

\* The locked part of exit, up to swtch
Exit(c, p) ==
    LET W1 == WokenParent(p)
        W2 == WokenInit(p)
    IN  /\ Runs(c, p) /\ pc[p] = "exit" /\ p # initproc /\ ptlock = None
        /\ state' = [s \in Slots |-> IF s = p THEN "ZOMBIE"
                                     ELSE IF s \in W1 \cup W2 THEN "RUNNABLE" ELSE state[s]]
        /\ InsertNodes(W1 \cup W2, TableOrder(W1) \cup TableOrder(W2) \cup (W1 \X W2),
                       virtual_deadline)
        /\ parent' = Adopted(p)
        /\ ptlock' = c
        /\ UNCHANGED <<pid, chan, killed, times, control, proc, ticks, ticking,
                       nextpid, torn, panicked>>

\* p scans the process table in wait() with the lock: on entry, or after sleep
Scans(c, p) ==
    \/ Calls(c, p, "wait") /\ ptlock = None
    \/ /\ Live /\ p # None /\ ptlock = c /\ proc[c] = p
       /\ state[p] = "RUNNING" /\ pc[p] = "wait"

\* wait() reaps the first zombie child
WaitReap(c, p, s) ==
    /\ Scans(c, p) /\ First(s, ZombieChildren(p))
    /\ state' = [state EXCEPT ![s] = "UNUSED"]
    /\ pid' = [pid EXCEPT ![s] = None]
    /\ parent' = [parent EXCEPT ![s] = None]
    /\ killed' = [killed EXCEPT ![s] = FALSE]
    /\ chan' = [chan EXCEPT ![p] = None]
    /\ ptlock' = None /\ Return(p)
    /\ UNCHANGED <<times, np, proc, ticks, ticking, nextpid, torn, panicked,
                   rqVars>>

WaitNone(c, p) ==
    /\ Scans(c, p) /\ ZombieChildren(p) = {}
    /\ Children(p) = {} \/ killed[p]
    /\ chan' = [chan EXCEPT ![p] = None]
    /\ ptlock' = None /\ Return(p)
    /\ UNCHANGED <<state, pid, parent, killed, times, np, proc, ticks, ticking,
                   nextpid, torn, panicked, rqVars>>

WaitSleep(c, p) ==
    /\ Scans(c, p) /\ ZombieChildren(p) = {} /\ Children(p) # {} /\ ~killed[p]
    /\ chan' = [chan EXCEPT ![p] = p]
    /\ state' = [state EXCEPT ![p] = "SLEEPING"]
    /\ ptlock' = c /\ Goto(p, "wait")
    /\ UNCHANGED <<pid, parent, killed, times, np, proc, ticks, ticking, nextpid,
                   torn, panicked, rqVars>>

\* kill() wakes its victim from sleep
WokenByKillAny(s) == {s}
WokenByKill(s) == {t \in {s} : state[t] = "SLEEPING"}

\* sys_kill of pid k: the first slot with that pid, whatever its state
Kill(c, p, k, s) ==
    LET W == WokenByKill(s)
    IN  /\ Calls(c, p, "kill") /\ ptlock = None
        /\ First(s, {t \in Slots : pid[t] = k})
        /\ killed' = [killed EXCEPT ![s] = TRUE]
        /\ state' = IF W = {} THEN state ELSE [state EXCEPT ![s] = "RUNNABLE"]
        /\ InsertNodes(W, {}, virtual_deadline)
        /\ Goto(p, IF s = p \/ killed[p] THEN "exit" ELSE "user")
        /\ UNCHANGED <<pid, parent, chan, times, np, proc, ptlock, ticks, ticking,
                       nextpid, torn, panicked>>

-----------------------------------------------------------------------------
\* The skip list is used while an unlocked insert_node is in progress: by a
\* scheduler, by a wakeup of a sleeper, or by a second unlocked insert_node
Overlap(c, p) ==
    /\ Live
    /\ \/ /\ Splicing /\ p = None /\ proc[c] = None /\ ptlock = None
          /\ c = BootCPU => pc[None] = "user"
       \/ Splicing /\ p # None /\ proc[c] = p /\ ptlock = c /\ state[p] = "RUNNABLE"
       \/ Splicing /\ p # None /\ ptlock = None /\ state[p] = "SLEEPING"
       \/ /\ Executes(c, p) /\ pc[p] = "splice"
          /\ \E t \in {None} \cup Slots : t # p /\ pc[t] = "splice"
    /\ torn' = TRUE
    /\ UNCHANGED <<table, times, control, proc, ptlock, ticks, ticking, nextpid,
                   panicked, rqVars>>

\* The machine stops: a panic, a list that is no longer one, or the end of the
\* clock the model has
Halt == (~Live \/ ticks = MaxTicks) /\ UNCHANGED vars

Init ==
    /\ state = [s \in Slots |-> "UNUSED"] /\ pid = [s \in Slots |-> None]
    /\ parent = [s \in Slots |-> None] /\ chan = [s \in Slots |-> None]
    /\ killed = [s \in Slots |-> FALSE]
    /\ ticks_left = [s \in Slots |-> 0] /\ nice_value = [s \in Slots |-> 0]
    /\ virtual_deadline = [s \in Slots |-> 0]
    /\ pc = [t \in {None} \cup Slots |-> IF t = None THEN "syscall" ELSE "user"]
    /\ np = [t \in {None} \cup Slots |-> None]
    /\ proc = [c \in CPUs |-> None] /\ ptlock = None
    /\ ticks = 0 /\ ticking = None /\ nextpid = 1 /\ torn = FALSE /\ panicked = FALSE
    /\ RQInit

CPUStep(c) ==
    \/ \E p \in {None} \cup Slots :
          \/ \E s \in Slots : AllocProc(c, p, s)
          \/ ForkRunnable(c, p)
          \/ \E nice \in NiceValues : ForkDeadline(c, p, nice)
          \/ ForkInsert(c, p)
          \/ Overlap(c, p)
    \/ \E x \in Queued, s \in Slots : SchedPick(c, x, s)
    \/ \E p \in Slots :
          \/ ForkFail(c, p) \/ SchedReturn(c, p) \/ Resume(c, p)
          \/ Yield(c, p) \/ SysEnter(c, p) \/ UserFault(c, p) \/ SysReturn(c, p)
          \/ TimerTrap(c, p) \/ ExitCall(c, p) \/ ExitPanic(c, p) \/ Exit(c, p)
          \/ WaitNone(c, p) \/ WaitSleep(c, p)
          \/ \E ch \in Chans : Sleep(c, p, ch)
          \/ \E s \in Slots : WaitReap(c, p, s)
          \/ \E s \in Slots, k \in 0..MaxPid : Kill(c, p, k, s)

Next == Wakeup \/ TimerTick \/ Halt \/ \E c \in CPUs : CPUStep(c)

Spec == Init /\ [][Next]_vars

-----------------------------------------------------------------------------
TypeOK ==
    /\ state \in [Slots -> ProcStates] /\ pid \in [Slots -> Nat]
    /\ parent \in [Slots -> {None} \cup Slots]
    /\ chan \in [Slots -> {None} \cup Slots \cup Chans]
    /\ killed \in [Slots -> BOOLEAN]
    /\ ticks_left \in [Slots -> 0..Quantum] /\ nice_value \in [Slots -> Int]
    /\ virtual_deadline \in [Slots -> Int]
    /\ pc \in [{None} \cup Slots -> ControlPoints]
    /\ np \in [{None} \cup Slots -> {None} \cup Slots]
    /\ proc \in [CPUs -> {None} \cup Slots] /\ ptlock \in {None} \cup CPUs
    /\ ticks \in Nat /\ ticking \in {None, BootCPU} /\ nextpid \in Nat \ {0}
    /\ torn \in BOOLEAN /\ panicked \in BOOLEAN
    /\ queue \in [Queued -> Int] /\ Queued \subseteq Nat

\* A process whose nicefork (or userinit) has made it RUNNABLE but has not
\* finished insert_node
Forking(s) == \E t \in {None} \cup Slots : np[t] = s /\ pc[t] \in {"forked", "splice"}
OnCPU(s) == \E c \in CPUs : proc[c] = s

\* The skip list holds exactly the RUNNABLE processes.  scheduler() checks no
\* state before it runs the process it finds there, so a node of any other
\* process would run it, and a RUNNABLE process without a node never runs
\* again.  The exceptions are the process a scheduler is about to put back and
\* the child of a nicefork in progress.
QueueExact ==
    /\ \A x \in Queued : \E s \in Slots :
          /\ pid[s] = x /\ state[s] = "RUNNABLE" /\ queue[x] = virtual_deadline[s]
          /\ ~OnCPU(s) /\ ~Forking(s)
    /\ \A s \in Slots : state[s] = "RUNNABLE" =>
          pid[s] \in Queued \/ OnCPU(s) \/ Forking(s)

\* scheduler() and kill() look processes up by pid: a pid names one slot, even
\* counting the pids that failed nicefork calls leave in UNUSED slots
UniquePids ==
    \A s, t \in Slots : s # t /\ pid[s] = pid[t] => pid[s] = None

\* No process runs on two CPUs, and a CPU outside the scheduler runs a process
\* that is RUNNING
RunsOnce ==
    /\ \A c, d \in CPUs : proc[c] = proc[d] /\ proc[c] # None => c = d
    /\ \A s \in Slots : state[s] = "RUNNING" => OnCPU(s)
    /\ \A c \in CPUs : proc[c] # None /\ ptlock # c => state[proc[c]] = "RUNNING"

\* Every process but init has a parent that can still call wait(): exit()
\* leaves no child behind
ParentAlive ==
    \A s \in Slots \ {initproc} :
        state[s] \in {"SLEEPING", "RUNNABLE", "RUNNING", "ZOMBIE"} =>
            /\ parent[s] # None
            /\ state[parent[s]] \in {"SLEEPING", "RUNNABLE", "RUNNING"}

\* wait() never sleeps through an exit or a kill: a process asleep in wait()
\* has a child, none of its children is a zombie, and it is not killed
NoMissedExit ==
    \A p \in Slots : state[p] = "SLEEPING" /\ pc[p] = "wait" =>
        Children(p) # {} /\ ZombieChildren(p) = {} /\ ~killed[p]

\* The life of a slot, whatever scheduler() finds in the list: only RUNNABLE
\* processes start to run, only sleepers are woken, only zombies are reaped
LifecycleStep ==
    \A s \in Slots : state'[s] # state[s] =>
        <<state[s], state'[s]>> \in
            {<<"UNUSED", "EMBRYO">>, <<"EMBRYO", "UNUSED">>, <<"EMBRYO", "RUNNABLE">>,
             <<"RUNNABLE", "RUNNING">>, <<"RUNNING", "RUNNABLE">>,
             <<"RUNNING", "SLEEPING">>, <<"SLEEPING", "RUNNABLE">>,
             <<"RUNNING", "ZOMBIE">>, <<"ZOMBIE", "UNUSED">>}
Lifecycle == [][LifecycleStep]_vars

\* kill(): "Kill the process with the given pid."  A process is not killed at
\* the moment it is given its pid.
BornUnkilled ==
    [][\A s \in Slots : pid'[s] # pid[s] /\ pid'[s] # None => ~killed'[s]]_vars

-----------------------------------------------------------------------------
\* The inductive invariant behind the safety properties

\* Pids come from nextpid, and a slot in use has one
PidInv == \A s \in Slots : pid[s] < nextpid /\ (state[s] # "UNUSED" => pid[s] # None)

\* ptable.lock is held across steps only by a CPU that hands it over swtch, and
\* only that CPU may have a process that is not RUNNING
LockInv ==
    /\ ptlock # None => proc[ptlock] # None
    /\ \A c \in CPUs : proc[c] # None =>
          \/ state[proc[c]] = "RUNNING"
          \/ ptlock = c /\ state[proc[c]] \in {"RUNNABLE", "SLEEPING", "ZOMBIE"}

\* A process that runs has ticks left: trap() stops it exactly at zero, so a
\* count that slipped below zero would run for a whole wrap-around
QuantumLeft == \A s \in Slots : state[s] = "RUNNING" => ticks_left[s] > 0

\* nicefork and userinit: np is set while they run, no two of them have the
\* same one, and it has the state their progress gives it
ForkInv ==
    /\ \A t \in {None} \cup Slots :
          /\ np[t] # None <=> pc[t] \in {"embryo", "forked", "splice"}
          /\ pc[t] = "embryo" => state[np[t]] = "EMBRYO"
          /\ pc[t] \in {"forked", "splice"} =>
                state[np[t]] = "RUNNABLE" /\ ~OnCPU(np[t]) /\ pid[np[t]] \notin Queued
    /\ \A t, u \in {None} \cup Slots : np[t] = np[u] /\ np[t] # None => t = u
    /\ \A t \in Slots : np[t] # None => state[t] \in {"RUNNABLE", "RUNNING"}

\* Every slot but init's is in use only while init is alive; userinit comes first
InitInv ==
    /\ pc[None] \in {"syscall", "embryo", "forked", "splice", "user"}
    /\ pc[None] = "syscall" => \A s \in Slots : state[s] = "UNUSED"
    /\ pc[None] \in {"embryo", "forked", "splice"} => np[None] = initproc
    /\ \A s \in Slots \ {initproc} :
          state[s] # "UNUSED" => state[initproc] \in {"SLEEPING", "RUNNABLE", "RUNNING"}

\* Only processes past nicefork have a parent; wait() sleeps on the caller
FamilyInv ==
    \A s \in Slots :
        /\ state[s] \in {"UNUSED", "EMBRYO"} => parent[s] = None
        /\ parent[s] # s /\ (s = initproc => parent[s] = None)
        /\ state[s] = "SLEEPING" => (pc[s] = "wait" <=> chan[s] \in Slots)
        /\ chan[s] \in Slots => chan[s] = s

IInv ==
    /\ TypeOK /\ PidInv /\ UniquePids /\ LockInv /\ QuantumLeft /\ RunsOnce /\ ForkInv
    /\ QueueExact /\ QueueOrdered /\ InitInv /\ FamilyInv /\ ParentAlive /\ NoMissedExit
=============================================================================
