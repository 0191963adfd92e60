------------------------------- MODULE BufCache -------------------------------
(***************************************************************************)
(* The buffer cache (bio.c) on sleep-locks (sleeplock.c) and the disk      *)
(* driver with its interrupt (ide.c).  bcache.lock, lk->lk and idelock are *)
(* spin-locks: what runs under one of them is one step.  A process works   *)
(* on one buffer at a time.  The disk answers every request, without error.*)
(***************************************************************************)
EXTENDS Integers, Sequences, SequencesExt, FiniteSets

CONSTANTS Users,   \* processes
          Bufs,    \* bcache.buf[]
          Blocks,  \* block numbers
          Data,    \* contents of a block, 0 at first
          Nil

ASSUME BufAssumption == /\ IsFiniteSet(Bufs) /\ Bufs # {}
                        /\ 0 \in Data
                        /\ Nil \notin Users \cup Bufs \cup Blocks

VARIABLES
  blockno, refcnt, valid, dirty, bdata,  \* the fields of each struct buf
  sleeplock, \* the process that holds b->lock
  lru,       \* the list behind bcache.head, most recently used first
  idequeue,  \* buffers waiting for the disk, the active request first
  busy,      \* the disk works on a request and will interrupt
  disk,
  bufAt,     \* where each process is in bread(), bwrite() or brelse()
  mine,      \* the buffer it works on
  bufAsleep, \* in sleep(), on the lock or on the buffer
  panicked   \* bget() found no buffer

meta == <<blockno, refcnt, lru>>
flags == <<valid, dirty>>
drive == <<idequeue, busy, disk>>
bufVars == <<meta, flags, bdata, sleeplock, drive, bufAt, mine, bufAsleep, panicked>>

\* binit() on a booted machine: every buffer is empty.
BufInit == /\ blockno = [b \in Bufs |-> Nil]
        /\ refcnt = [b \in Bufs |-> 0]
        /\ valid = [b \in Bufs |-> FALSE] /\ dirty = [b \in Bufs |-> FALSE]
        /\ bdata = [b \in Bufs |-> 0] /\ disk = [b \in Blocks |-> 0]
        /\ sleeplock = [b \in Bufs |-> Nil]
        /\ lru = SetToSeq(Bufs)
        /\ idequeue = <<>> /\ busy = FALSE
        /\ bufAt = [p \in Users |-> "out"]
        /\ mine = [p \in Users |-> Nil]
        /\ bufAsleep = [p \in Users |-> FALSE]
        /\ panicked = FALSE

Awake(p, place) == ~panicked /\ ~bufAsleep[p] /\ bufAt[p] = place

\* wakeup() of the processes that sleep at this place for buffer b.
Wake(b, place) ==
  bufAsleep' = [p \in Users |-> bufAsleep[p] /\ ~(mine[p] = b /\ bufAt[p] = place)]

\* The buffer that the first loop of bget() finds.
Cached(blk) == {b \in Bufs : blockno[b] = blk}

\* A recycler that forgets that log_write() pins a buffer.
RecyclableAny == {i \in DOMAIN lru : refcnt[lru[i]] = 0}

\* Positions of the buffers bget() may recycle.
Recyclable == {i \in DOMAIN lru : refcnt[lru[i]] = 0 /\ ~dirty[lru[i]]}

\* bget() up to acquiresleep().
BGet(p, blk) ==
  /\ Awake(p, "out")
  /\ \/ \E b \in Cached(blk) :
          /\ refcnt' = [refcnt EXCEPT ![b] = @ + 1]
          /\ mine' = [mine EXCEPT ![p] = b]
          /\ bufAt' = [bufAt EXCEPT ![p] = "locking"]
          /\ UNCHANGED <<blockno, flags, panicked>>
     \/ /\ Cached(blk) = {} /\ Recyclable # {}
        /\ LET b == lru[Max(Recyclable)] IN
             /\ blockno' = [blockno EXCEPT ![b] = blk]
             /\ refcnt' = [refcnt EXCEPT ![b] = 1]
             /\ valid' = [valid EXCEPT ![b] = FALSE]
             /\ dirty' = [dirty EXCEPT ![b] = FALSE]
             /\ mine' = [mine EXCEPT ![p] = b]
        /\ bufAt' = [bufAt EXCEPT ![p] = "locking"]
        /\ UNCHANGED panicked
     \/ /\ Cached(blk) = {} /\ Recyclable = {}
        /\ panicked' = TRUE
        /\ UNCHANGED <<blockno, refcnt, flags, bufAt, mine>>
  /\ UNCHANGED <<bdata, sleeplock, lru, drive, bufAsleep>>

\* bread() once the buffer is locked: the disk is asked unless the data is there.
BRead(b) == IF valid[b] THEN "holding" ELSE "starting"

\* One round of the loop of acquiresleep().
AcquireSleep(p) ==
  LET b == mine[p] IN
  /\ Awake(p, "locking")
  /\ \/ /\ sleeplock[b] # Nil
        /\ bufAsleep' = [bufAsleep EXCEPT ![p] = TRUE]
        /\ UNCHANGED <<sleeplock, bufAt>>
     \/ /\ sleeplock[b] = Nil
        /\ sleeplock' = [sleeplock EXCEPT ![b] = p]
        /\ bufAt' = [bufAt EXCEPT ![p] = BRead(b)]
        /\ UNCHANGED bufAsleep
  /\ UNCHANGED <<meta, flags, bdata, drive, mine, panicked>>

\* iderw() up to sleep(): idestart() runs only for the head of the queue.
IdeRw(p) ==
  /\ Awake(p, "starting")
  /\ idequeue' = Append(idequeue, mine[p])
  /\ busy' = (busy \/ idequeue = <<>>)
  /\ bufAsleep' = [bufAsleep EXCEPT ![p] = TRUE]
  /\ bufAt' = [bufAt EXCEPT ![p] = "waiting"]
  /\ UNCHANGED <<meta, flags, bdata, sleeplock, disk, mine, panicked>>

\* ideintr() and the transfer that ends: the data of a write left the buffer in
\* idestart(), and the buffer is locked, so the end of the request may write it.
IdeIntr ==
  LET b == Head(idequeue) IN
  /\ busy /\ idequeue # <<>> /\ ~panicked
  /\ idequeue' = Tail(idequeue)
  /\ busy' = (idequeue' # <<>>)
  /\ IF dirty[b] THEN disk' = [disk EXCEPT ![blockno[b]] = bdata[b]] /\ UNCHANGED bdata
                 ELSE bdata' = [bdata EXCEPT ![b] = disk[blockno[b]]] /\ UNCHANGED disk
  /\ valid' = [valid EXCEPT ![b] = TRUE]
  /\ dirty' = [dirty EXCEPT ![b] = FALSE]
  /\ Wake(b, "waiting")
  /\ UNCHANGED <<meta, sleeplock, bufAt, mine, panicked>>

\* iderw() after sleep(): the request is finished when the buffer is valid and
\* clean, else it sleeps again.
Finish(p) ==
  LET b == mine[p] IN
  /\ Awake(p, "waiting")
  /\ IF valid[b] /\ ~dirty[b]
     THEN bufAt' = [bufAt EXCEPT ![p] = "holding"] /\ UNCHANGED bufAsleep
     ELSE bufAsleep' = [bufAsleep EXCEPT ![p] = TRUE] /\ UNCHANGED bufAt
  /\ UNCHANGED <<meta, flags, bdata, sleeplock, drive, mine, panicked>>

\* The holder changes b->data; it hands the change to log_write() or bwrite()
\* before it lets the buffer go.
Modify(p, v) ==
  /\ Awake(p, "holding")
  /\ bdata[mine[p]] # v
  /\ bdata' = [bdata EXCEPT ![mine[p]] = v]
  /\ bufAt' = [bufAt EXCEPT ![p] = "modified"]
  /\ UNCHANGED <<meta, flags, sleeplock, drive, mine, bufAsleep, panicked>>

\* log_write() pins the buffer with B_DIRTY.
Pin(p) ==
  /\ Awake(p, "modified")
  /\ dirty' = [dirty EXCEPT ![mine[p]] = TRUE]
  /\ bufAt' = [bufAt EXCEPT ![p] = "holding"]
  /\ UNCHANGED <<meta, valid, bdata, sleeplock, drive, mine, bufAsleep, panicked>>

\* bwrite() up to iderw().
BWrite(p) ==
  /\ Awake(p, "modified") \/ Awake(p, "holding")
  /\ dirty' = [dirty EXCEPT ![mine[p]] = TRUE]
  /\ bufAt' = [bufAt EXCEPT ![p] = "starting"]
  /\ UNCHANGED <<meta, valid, bdata, sleeplock, drive, mine, bufAsleep, panicked>>

\* Without the wakeup.
ReleaseSleepQuietly(p) ==
  /\ Awake(p, "holding")
  /\ sleeplock' = [sleeplock EXCEPT ![mine[p]] = Nil]
  /\ bufAt' = [bufAt EXCEPT ![p] = "unref"]
  /\ UNCHANGED <<meta, flags, bdata, drive, mine, bufAsleep, panicked>>

\* brelse() up to releasesleep().
ReleaseSleep(p) ==
  /\ Awake(p, "holding")
  /\ sleeplock' = [sleeplock EXCEPT ![mine[p]] = Nil]
  /\ Wake(mine[p], "locking")
  /\ bufAt' = [bufAt EXCEPT ![p] = "unref"]
  /\ UNCHANGED <<meta, flags, bdata, drive, mine, panicked>>

\* brelse() that takes itself for the only user.
UnrefReset(p) ==
  /\ Awake(p, "unref")
  /\ refcnt' = [refcnt EXCEPT ![mine[p]] = 0]
  /\ mine' = [mine EXCEPT ![p] = Nil]
  /\ bufAt' = [bufAt EXCEPT ![p] = "out"]
  /\ UNCHANGED <<blockno, lru, flags, bdata, sleeplock, drive, bufAsleep, panicked>>

\* The rest of brelse(), under bcache.lock.
Unref(p) ==
  LET b == mine[p] IN
  /\ Awake(p, "unref")
  /\ refcnt' = [refcnt EXCEPT ![b] = @ - 1]
  /\ lru' = IF refcnt[b] = 1
            THEN <<b>> \o SelectSeq(lru, LAMBDA c : c # b) ELSE lru
  /\ mine' = [mine EXCEPT ![p] = Nil]
  /\ bufAt' = [bufAt EXCEPT ![p] = "out"]
  /\ UNCHANGED <<blockno, flags, bdata, sleeplock, drive, bufAsleep, panicked>>

\* kill() makes a sleeping process runnable; nothing in these loops looks at killed.
BufKill(p) ==
  /\ ~panicked /\ bufAsleep[p]
  /\ bufAsleep' = [bufAsleep EXCEPT ![p] = FALSE]
  /\ UNCHANGED <<meta, flags, bdata, sleeplock, drive, bufAt, mine, panicked>>

BufProcess(p) == \/ AcquireSleep(p) \/ IdeRw(p) \/ Finish(p) \/ BufKill(p)
                 \/ Pin(p) \/ BWrite(p) \/ ReleaseSleep(p) \/ Unref(p)
                 \/ \E blk \in Blocks : BGet(p, blk)
                 \/ \E v \in Data : Modify(p, v)

BufNext == IdeIntr \/ \E p \in Users : BufProcess(p)

BufSpec == BufInit /\ [][BufNext]_bufVars

(***************************************************************************)
(* Properties.                                                             *)
(***************************************************************************)

\* refcnt counts the processes inside bread() .. brelse() of the buffer, so a
\* buffer someone works on, or waits for, is never recycled under them.
RefcountExact == \A b \in Bufs : refcnt[b] = Cardinality({p \in Users : mine[p] = b})

\* Whoever sleeps has a waker: a lock sleeper the holder, an I/O sleeper its own
\* request in the queue, and a queue that is not empty a disk at work.
SleepersHaveWaker ==
  /\ idequeue # <<>> => busy
  /\ \A p \in Users : bufAsleep[p] =>
       \/ bufAt[p] = "locking" /\ sleeplock[mine[p]] # Nil
       \/ bufAt[p] = "waiting" /\ sleeplock[mine[p]] = p /\ mine[p] \in Range(idequeue)

Holder(blk) == {sleeplock[b] : b \in Cached(blk)} \ {Nil}

BS == INSTANCE BlockStore WITH
        content <- [blk \in Blocks |->
                      IF \E b \in Cached(blk) : valid[b]
                      THEN bdata[CHOOSE b \in Cached(blk) : valid[b]]
                      ELSE disk[blk]],
        owner <- [blk \in Blocks |->
                    IF Holder(blk) = {} THEN Nil ELSE CHOOSE p \in Holder(blk) : TRUE]

\* The cache is invisible: whatever is recycled, read again or waiting for the
\* disk, a block has one content, and only the holder of its buffer changes it.
BlockStoreSpec == BS!BSSpec
================================================================================
