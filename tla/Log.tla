--------------------------------- MODULE Log ---------------------------------
(***************************************************************************)
(* The file system's write-ahead log (log.c) with what it needs of the     *)
(* buffer cache: a block modified by log_write() is pinned by B_DIRTY, any *)
(* other may be recycled and read again.  Every write of a disk block is a *)
(* step of its own, and the machine may lose power between any two steps.  *)
(***************************************************************************)
EXTENDS Integers, Sequences, SequencesExt, FiniteSets

CONSTANTS Procs,        \* processes making file-system calls
          Blocks,       \* the blocks outside the log
          MAXOPBLOCKS,  \* blocks one call may write
          LOGSIZE,      \* entries of the log header
          NLOG,         \* sb.nlog: blocks of the log on disk, header included
          None,         \* no buffer held
          MaxStores,    \* bound on modifications of blocks
          MaxCrashes    \* bound on power failures

ASSUME LogAssumption == /\ MAXOPBLOCKS \in Nat \ {0}
                        /\ LOGSIZE = 3 * MAXOPBLOCKS
                        /\ NLOG \in Nat \ {0}
                        /\ None \notin Blocks

Data == 0..MaxStores

VARIABLES
  home,         \* disk: the blocks outside the log
  logged,       \* disk: the data blocks of the log
  head,         \* disk: the log header, the block numbers of a transaction
  cache,        \* what bread() of a block returns
  dirty,        \* buffers with B_DIRTY set
  lh,           \* log.lh: the block numbers of the running transaction
  outstanding,  \* log.outstanding
  committing,   \* log.committing
  at,           \* where each process is: "out", "asking" and "sleeping" in begin_op(),
                \* "in" its call, "checked" in log_write(), "committing"
  holds,        \* the buffer it has modified and holds locked
  wrote,        \* the blocks its call has modified
  stage,        \* where commit() or recover_from_log() is: "log", "install", "done";
                \* "boot": initlog() is about to read the header; "idle": no commit runs
  tail,         \* log blocks handled by the current loop
  panicked,     \* log_write() stopped the machine
  overrun,      \* write_log() wrote past the end of the log
  stores, crashes  \* counters for the bounds

disk == <<home, logged, head>>
lvars == <<lh, outstanding, committing>>
calls == <<at, holds, wrote>>
faults == <<panicked, overrun, stores, crashes>>
vars == <<disk, cache, dirty, lvars, calls, stage, tail, faults>>

Slots == 1..NLOG - 1

\* Index of block b in a header that names it.
Slot(h, b) == CHOOSE i \in DOMAIN h : h[i] = b

\* A file system as mkfs leaves it, and the first boot.
Init == /\ home = [b \in Blocks |-> 0]
        /\ logged = [i \in Slots |-> 0]
        /\ head = <<>>
        /\ cache = home
        /\ dirty = {}
        /\ lh = <<>> /\ outstanding = 0 /\ committing = FALSE
        /\ at = [p \in Procs |-> "out"]
        /\ holds = [p \in Procs |-> None]
        /\ wrote = [p \in Procs |-> {}]
        /\ stage = "boot" /\ tail = 0
        /\ panicked = FALSE /\ overrun = FALSE
        /\ stores = 0 /\ crashes = 0

Running == ~panicked /\ ~overrun

\* wakeup(&log)
Woken(f) == [p \in DOMAIN f |-> IF f[p] = "sleeping" THEN "asking" ELSE f[p]]

\* initlog() runs before any process can make a file-system call.
Up == stage = "idle" \/ committing

\* The new call's own blocks are not counted.
NoSpaceForOthers == Len(lh) + outstanding * MAXOPBLOCKS > LOGSIZE

\* The test of begin_op() at log.c:132.
NoSpace == Len(lh) + (outstanding + 1) * MAXOPBLOCKS > LOGSIZE

(***************************************************************************)
(* File-system calls.                                                      *)
(***************************************************************************)

BeginOp(p) ==
  /\ Running /\ Up
  /\ at[p] \in {"out", "asking"}
  /\ \/ /\ committing \/ NoSpace
        /\ at' = [at EXCEPT ![p] = "sleeping"]
        /\ UNCHANGED outstanding
     \/ /\ ~committing /\ ~NoSpace
        /\ at' = [at EXCEPT ![p] = "in"]
        /\ outstanding' = outstanding + 1
  /\ UNCHANGED <<disk, cache, dirty, lh, committing, holds, wrote, stage, tail,
                 faults>>

TooBig == Len(lh) >= LOGSIZE \/ Len(lh) >= NLOG - 1

\* A call reads block b, modifies it and enters log_write(), which tests for
\* room before it takes log.lock.  The buffer stays locked until Record.
Modify(p, b) ==
  /\ Running
  /\ at[p] = "in"
  /\ \A q \in Procs : holds[q] # b
  /\ Cardinality(wrote[p] \cup {b}) <= MAXOPBLOCKS
  /\ stores < MaxStores
  /\ stores' = stores + 1
  /\ cache' = [cache EXCEPT ![b] = stores']
  /\ holds' = [holds EXCEPT ![p] = b]
  /\ wrote' = [wrote EXCEPT ![p] = @ \cup {b}]
  /\ at' = [at EXCEPT ![p] = "checked"]
  /\ panicked' = (TooBig \/ outstanding < 1)
  /\ UNCHANGED <<disk, dirty, lvars, stage, tail, overrun, crashes>>

\* The locked part of log_write(), with absorption, then brelse().
Record(p) ==
  /\ Running
  /\ at[p] = "checked"
  /\ lh' = IF holds[p] \in Range(lh) THEN lh ELSE Append(lh, holds[p])
  /\ dirty' = dirty \cup {holds[p]}
  /\ holds' = [holds EXCEPT ![p] = None]
  /\ at' = [at EXCEPT ![p] = "in"]
  /\ UNCHANGED <<disk, cache, outstanding, committing, wrote, stage, tail, faults>>

\* end_op() up to release(): the last call out starts the commit.
EndOp(p) ==
  /\ Running
  /\ at[p] = "in"
  /\ outstanding' = outstanding - 1
  /\ panicked' = committing
  /\ wrote' = [wrote EXCEPT ![p] = {}]
  /\ IF outstanding' = 0
     THEN /\ committing' = TRUE
          /\ at' = [at EXCEPT ![p] = "committing"]
          /\ stage' = IF Len(lh) > 0 THEN "log" ELSE "done"
     ELSE /\ at' = Woken([at EXCEPT ![p] = "out"])
          /\ UNCHANGED <<committing, stage>>
  /\ UNCHANGED <<disk, cache, dirty, lh, holds, tail, overrun, stores, crashes>>

(***************************************************************************)
(* commit() and recover_from_log(), one disk write a step.                 *)
(***************************************************************************)

\* One round of the loop of write_log().
WriteLog ==
  /\ Running
  /\ stage = "log" /\ tail < Len(lh)
  /\ tail' = tail + 1
  /\ IF tail' \in Slots
     THEN logged' = [logged EXCEPT ![tail'] = cache[lh[tail']]] /\ UNCHANGED overrun
     ELSE overrun' = TRUE /\ UNCHANGED logged
  /\ UNCHANGED <<home, head, cache, dirty, lvars, calls, stage, panicked, stores,
                 crashes>>

\* The real commit.
WriteHead ==
  /\ Running
  /\ stage = "log" /\ tail = Len(lh)
  /\ head' = lh
  /\ stage' = "install" /\ tail' = 0
  /\ UNCHANGED <<home, logged, cache, dirty, lvars, calls, faults>>

\* B_DIRTY left set.
InstallPinned ==
  /\ Running
  /\ stage = "install" /\ tail < Len(lh)
  /\ tail' = tail + 1
  /\ home' = [home EXCEPT ![lh[tail']] = logged[tail']]
  /\ cache' = [cache EXCEPT ![lh[tail']] = logged[tail']]
  /\ UNCHANGED <<dirty, logged, head, lvars, calls, stage, faults>>

\* One round of the loop of install_trans(): bwrite() clears B_DIRTY.
Install ==
  /\ Running
  /\ stage = "install" /\ tail < Len(lh)
  /\ tail' = tail + 1
  /\ home' = [home EXCEPT ![lh[tail']] = logged[tail']]
  /\ cache' = [cache EXCEPT ![lh[tail']] = logged[tail']]
  /\ dirty' = dirty \ {lh[tail']}
  /\ UNCHANGED <<logged, head, lvars, calls, stage, faults>>

\* The header erased before every block is at home.
EraseEarly ==
  /\ Running
  /\ stage = "install" /\ tail <= Len(lh)
  /\ lh' = <<>> /\ head' = <<>>
  /\ stage' = IF committing THEN "done" ELSE "idle"
  /\ tail' = 0
  /\ UNCHANGED <<home, logged, cache, dirty, outstanding, committing, calls, faults>>

\* log.lh.n = 0; write_head();
Erase ==
  /\ Running
  /\ stage = "install" /\ tail = Len(lh)
  /\ lh' = <<>> /\ head' = <<>>
  /\ stage' = IF committing THEN "done" ELSE "idle"
  /\ tail' = 0
  /\ UNCHANGED <<home, logged, cache, dirty, outstanding, committing, calls, faults>>

\* No wakeup(&log).
EndCommitSilent(p) ==
  /\ Running
  /\ at[p] = "committing" /\ stage = "done"
  /\ committing' = FALSE
  /\ at' = [at EXCEPT ![p] = "out"]
  /\ stage' = "idle"
  /\ UNCHANGED <<disk, cache, dirty, lh, outstanding, holds, wrote, tail, faults>>

\* The end of end_op() after commit() has returned.
EndCommit(p) ==
  /\ Running
  /\ at[p] = "committing" /\ stage = "done"
  /\ committing' = FALSE
  /\ at' = Woken([at EXCEPT ![p] = "out"])
  /\ stage' = "idle"
  /\ UNCHANGED <<disk, cache, dirty, lh, outstanding, holds, wrote, tail, faults>>

\* initlog() after a boot; install_trans() and Erase follow.
ReadHead ==
  /\ Running
  /\ stage = "boot"
  /\ lh' = head
  /\ stage' = "install" /\ tail' = 0
  /\ UNCHANGED <<disk, cache, dirty, outstanding, committing, calls, faults>>
\* bget() recycles the buffer of b; the next bread() reads the disk.
Recycle(b) ==
  /\ Running
  /\ b \notin dirty
  /\ \A p \in Procs : holds[p] # b
  /\ cache' = [cache EXCEPT ![b] = home[b]]
  /\ UNCHANGED <<disk, dirty, lvars, calls, stage, tail, faults>>

\* Power fails or a stopped machine is restarted: only the disk survives.
Crash ==
  /\ ~overrun
  /\ crashes < MaxCrashes
  /\ crashes' = crashes + 1
  /\ cache' = home /\ dirty' = {}
  /\ lh' = <<>> /\ outstanding' = 0 /\ committing' = FALSE
  /\ at' = [p \in Procs |-> "out"]
  /\ holds' = [p \in Procs |-> None]
  /\ wrote' = [p \in Procs |-> {}]
  /\ stage' = "boot" /\ tail' = 0
  /\ panicked' = FALSE
  /\ UNCHANGED <<disk, overrun, stores>>

Process(p) == \/ BeginOp(p) \/ Record(p) \/ EndOp(p) \/ EndCommit(p)
              \/ \E b \in Blocks : Modify(p, b)

Disk == ReadHead \/ WriteLog \/ WriteHead \/ Install \/ Erase

Next == (\E p \in Procs : Process(p)) \/ Disk \/ (\E b \in Blocks : Recycle(b)) \/ Crash

Spec == Init /\ [][Next]_vars

\* The disk answers, and a process inside a call goes on with it: every call
\* leaves (EndOp), and a woken begin_op() looks again.
Fairness == /\ WF_vars(Disk)
            /\ \A p \in Procs :
                 /\ WF_vars(at[p] = "asking" /\ BeginOp(p))
                 /\ WF_vars(Record(p))
                 /\ WF_vars(EndOp(p))
                 /\ WF_vars(EndCommit(p))

FairSpec == Spec /\ Fairness

(***************************************************************************)
(* Properties.                                                             *)
(***************************************************************************)

\* What recovery would leave in the blocks if the machine stopped now.
Recovered == [b \in Blocks |-> IF b \in Range(head) THEN logged[Slot(head, b)]
                                                    ELSE home[b]]

Active == {p \in Procs : at[p] \in {"in", "checked"}}

AD == INSTANCE AtomicDisk WITH durable <- Recovered,
                               volatile <- IF Up THEN cache ELSE Recovered,
                               active <- Active

\* Each file-system call survives a crash as a whole or not at all, whatever
\* step of commit() or of recovery the crash falls on.
AtomicDiskSpec == AD!ADSpec

\* With no call in progress and no commit running, end_op() has left nothing
\* behind: every block is at home, none is pinned and the log is empty.
QuiescentClean ==
  Running /\ stage = "idle" /\ outstanding = 0
    => cache = home /\ dirty = {} /\ lh = <<>> /\ head = <<>>

\* What begin_op() admitted always fits: the blocks in the header and those that the
\* calls in progress may still add, absorbed writes counted once.  log_write() tests for
\* room before it takes log.lock, so this alone keeps log.lh.block[] from overflowing.
Reservation ==
  LET left(p) == MAXOPBLOCKS - Cardinality(wrote[p] \cap Range(lh))
  IN Len(lh) + MapThenSumSet(left, Active) <= LOGSIZE

\* A process asleep in begin_op() is woken, unless the machine stops.
SleeperWakes == \A p \in Procs : at[p] = "sleeping" ~> at[p] # "sleeping" \/ ~Running

\* The log has room for the LOGSIZE data blocks that begin_op() hands out
\* (param.h:11), so write_log() writes only blocks of the log and never the inode
\* blocks behind it (fs.h:8-10).
LogStaysInBounds == ~overrun
================================================================================
