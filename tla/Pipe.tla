--------------------------------- MODULE Pipe ---------------------------------
(***************************************************************************)
(* One pipe (pipe.c) shared by processes that inherit its two ends through *)
(* fork, with the reference counts of file.c that decide when an end is    *)
(* closed, and kill() acting on a process in the middle of a call.         *)
(*                                                                         *)
(* p->lock is held from the entry of a call to its return, except while    *)
(* the process sleeps, so such a stretch is one step.  kill() does not     *)
(* take p->lock: the stretch that ends in sleep() stops after the test of  *)
(* killed, with lock still held, and Sleep is a step of its own.           *)
(***************************************************************************)
EXTENDS Integers, Sequences, FiniteSetsExt

CONSTANTS Procs,
          PIPESIZE,  \* bytes in the buffer
          UINT,      \* values of an unsigned counter, a multiple of PIPESIZE
          ReadSizes, WriteSizes,  \* the n a read or a write may ask for
          None

ASSUME PipeAssumption == /\ PIPESIZE \in Nat \ {0}
                         /\ UINT \in Nat /\ UINT > PIPESIZE /\ UINT % PIPESIZE = 0
                         /\ ReadSizes \subseteq Nat \ {0} /\ ReadSizes # {}
                         /\ WriteSizes \subseteq Nat \ {0} /\ WriteSizes # {}
                         /\ None \notin Procs

\* A byte is known by its offset in the write that sent it.
Bytes == 0..Max(WriteSizes) - 1

VARIABLES
  data, nread, nwrite,  \* the pipe's buffer and counters
  readopen, writeopen,
  has,        \* the ends a process has open: a subset of {"r", "w"}
  at,         \* "out", or the call it is in: "read", "write", "close r", "close w"
  n, i,       \* arguments and progress of that call
  asleep,     \* SLEEPING on &nread (in "read") or &nwrite (in "write")
  killed,
  lock,       \* who holds p->lock between the test and sleep()
  got,        \* what the last step delivered to a reader
  abandoned   \* history: bytes were left by a write that gave up unannounced

buffer == <<data, nread, nwrite>>
open == <<readopen, writeopen>>
vars == <<buffer, open, has, at, n, i, asleep, killed, lock, got, abandoned>>

Nothing == <<"none", <<>>>>
Ends == {"r", "w"}

Init == /\ data = [k \in 0..PIPESIZE - 1 |-> 0]
        /\ nread = 0 /\ nwrite = 0
        /\ readopen = FALSE /\ writeopen = FALSE
        /\ has = [p \in Procs |-> {}]
        /\ at = [p \in Procs |-> "out"]
        /\ n = [p \in Procs |-> 0] /\ i = [p \in Procs |-> 0]
        /\ asleep = [p \in Procs |-> FALSE] /\ killed = [p \in Procs |-> FALSE]
        /\ lock = None /\ got = Nothing /\ abandoned = FALSE

Used == (nwrite - nread) % UINT
Full == nwrite = (nread + PIPESIZE) % UINT
Empty == nread = nwrite

\* wakeup(&p->nread) is Woken("read"), wakeup(&p->nwrite) is Woken("write").
Woken(call) == [p \in Procs |-> asleep[p] /\ at[p] # call]

\* The call of p returns.
Leaves(p) == /\ at' = [at EXCEPT ![p] = "out"]
             /\ n' = [n EXCEPT ![p] = 0] /\ i' = [i EXCEPT ![p] = 0]

\* pipe(): pipealloc() and two descriptors.  When a file or the page cannot be
\* had, what was taken is given back and nothing changes.
PipeAlloc(p) ==
  /\ ~readopen /\ ~writeopen
  /\ at[p] = "out" /\ ~killed[p]
  /\ readopen' = TRUE /\ writeopen' = TRUE
  /\ nread' = 0 /\ nwrite' = 0
  /\ has' = [has EXCEPT ![p] = Ends]
  /\ got' = Nothing /\ abandoned' = FALSE
  /\ UNCHANGED <<data, at, n, i, asleep, killed, lock>>

\* fork() of p into the unused process q: filedup() of every open file.
Fork(p, q) ==
  /\ at[p] = "out" /\ ~killed[p] /\ has[p] # {}
  /\ q # p /\ at[q] = "out" /\ ~killed[q] /\ has[q] = {}
  /\ has' = [has EXCEPT ![q] = has[p]]
  /\ got' = Nothing
  /\ UNCHANGED <<buffer, open, at, n, i, asleep, killed, lock, abandoned>>

\* A read or write of m bytes through a descriptor of the right kind.
Call(p, call, m) ==
  /\ at[p] = "out" /\ ~killed[p]
  /\ (IF call = "read" THEN "r" ELSE "w") \in has[p]
  /\ at' = [at EXCEPT ![p] = call]
  /\ n' = [n EXCEPT ![p] = m]
  /\ got' = Nothing
  /\ UNCHANGED <<buffer, open, has, i, asleep, killed, lock, abandoned>>

\* The process has the lock to itself in call.
Enters(p, call) == lock = None /\ at[p] = call /\ ~asleep[p]

\* A write that takes a full buffer for one with a byte left.
RoomOneMore(p) == Min({n[p] - i[p], PIPESIZE + 1 - Used})

\* The bytes a write can put now, and the buffer after k of them.
Room(p) == Min({n[p] - i[p], PIPESIZE - Used})
Filled(p, k) == [x \in DOMAIN data |->
                   LET j == (x - nwrite) % PIPESIZE IN IF j < k THEN i[p] + j ELSE data[x]]

\* pipewrite() from its entry, or its return from sleep(), to its next sleep or
\* its return.
PipeWrite(p) ==
  /\ Enters(p, "write")
  /\ LET k == Room(p)
         blocks == i[p] + k < n[p]
         fails == blocks /\ (~readopen \/ killed[p])
     IN /\ data' = Filled(p, k)
        /\ nwrite' = (nwrite + k) % UINT
        /\ asleep' = IF fails THEN asleep ELSE Woken("read")
        /\ abandoned' = (fails /\ (abandoned \/ k > 0))
        /\ IF blocks /\ ~fails
           THEN /\ i' = [i EXCEPT ![p] = @ + k]
                /\ lock' = p
                /\ UNCHANGED <<at, n>>
           ELSE Leaves(p) /\ UNCHANGED lock
  /\ got' = Nothing
  /\ UNCHANGED <<nread, open, has, killed>>

\* The first k bytes in the buffer.
FirstBytes(k) == [x \in 1..k |-> data[(nread + x - 1) % PIPESIZE]]

\* piperead() to its next sleep or its return.
PipeRead(p) ==
  /\ Enters(p, "read")
  /\ \/ /\ Empty /\ writeopen /\ ~killed[p]
        /\ lock' = p
        /\ got' = Nothing
        /\ UNCHANGED <<nread, at, n, i, asleep>>
     \/ /\ Empty /\ writeopen /\ killed[p]
        /\ Leaves(p)
        /\ got' = Nothing
        /\ UNCHANGED <<nread, asleep, lock>>
     \/ /\ ~Empty \/ ~writeopen
        /\ LET k == Min({n[p], Used})
           IN /\ got' = IF k = 0 THEN <<"eof", <<>>>> ELSE <<"bytes", FirstBytes(k)>>
              /\ nread' = (nread + k) % UINT
        /\ asleep' = Woken("write")
        /\ Leaves(p)
        /\ UNCHANGED lock
  /\ UNCHANGED <<data, nwrite, open, has, killed, abandoned>>

\* sleep() takes ptable.lock, releases p->lock and marks the process SLEEPING.
Sleep(p) ==
  /\ lock = p
  /\ asleep' = [asleep EXCEPT ![p] = TRUE]
  /\ lock' = None /\ got' = Nothing
  /\ UNCHANGED <<buffer, open, has, at, n, i, killed, abandoned>>

\* close(), or the closing of all files by exit(): fileclose() gives up one
\* reference, and the last one goes on to pipeclose().
FileClose(p, e) ==
  /\ at[p] = "out" /\ e \in has[p]
  /\ has' = [has EXCEPT ![p] = @ \ {e}]
  /\ at' = IF \E q \in Procs \ {p} : e \in has[q] THEN at
           ELSE [at EXCEPT ![p] = IF e = "r" THEN "close r" ELSE "close w"]
  /\ got' = Nothing
  /\ UNCHANGED <<buffer, open, n, i, asleep, killed, lock, abandoned>>

\* No wakeup() at close.
PipeCloseSilent(p) ==
  /\ \/ /\ Enters(p, "close w")
        /\ writeopen' = FALSE /\ UNCHANGED readopen
     \/ /\ Enters(p, "close r")
        /\ readopen' = FALSE /\ UNCHANGED writeopen
  /\ Leaves(p)
  /\ got' = Nothing
  /\ UNCHANGED <<buffer, has, asleep, killed, lock, abandoned>>

PipeClose(p) ==
  /\ \/ /\ Enters(p, "close w")
        /\ writeopen' = FALSE /\ UNCHANGED readopen
        /\ asleep' = Woken("read")
     \/ /\ Enters(p, "close r")
        /\ readopen' = FALSE /\ UNCHANGED writeopen
        /\ asleep' = Woken("write")
  /\ Leaves(p)
  /\ got' = Nothing
  /\ UNCHANGED <<buffer, has, killed, lock, abandoned>>

\* kill(): takes ptable.lock only.
Kill(p) ==
  /\ ~killed[p] /\ has[p] # {}
  /\ killed' = [killed EXCEPT ![p] = TRUE]
  /\ asleep' = [asleep EXCEPT ![p] = FALSE]
  /\ got' = Nothing
  /\ UNCHANGED <<buffer, open, has, at, n, i, lock, abandoned>>

\* A killed process that has closed its files is gone; its slot is free again.
Exit(p) ==
  /\ killed[p] /\ at[p] = "out" /\ has[p] = {}
  /\ killed' = [killed EXCEPT ![p] = FALSE]
  /\ got' = Nothing
  /\ UNCHANGED <<buffer, open, has, at, n, i, asleep, lock, abandoned>>
Next == \E p \in Procs :
          \/ PipeAlloc(p) \/ PipeWrite(p) \/ PipeRead(p) \/ Sleep(p) \/ PipeClose(p)
          \/ Kill(p) \/ Exit(p)
          \/ \E q \in Procs : Fork(p, q)
          \/ \E e \in Ends : FileClose(p, e)
          \/ \E m \in ReadSizes : Call(p, "read", m)
          \/ \E m \in WriteSizes : Call(p, "write", m)

Spec == Init /\ [][Next]_vars

(***************************************************************************)
(* Properties.                                                             *)
(***************************************************************************)

OpenEnds == {e \in Ends : IF e = "r" THEN readopen ELSE writeopen}

CH == INSTANCE Channel WITH Capacity <- PIPESIZE, ends <- OpenEnds,
                            chan <- IF OpenEnds = {} THEN <<>> ELSE FirstBytes(Used)

\* The circular buffer with its free-running counters is a first-in first-out
\* channel of PIPESIZE bytes, across wrap-around of the counters, interleaved
\* readers and writers, closes, kills and reuse of the page.
ChannelSpec == CH!CSpec

\* No wakeup is lost: a reader sleeps only while the pipe is empty and open for
\* writing, a writer only while it is full and open for reading.  The one
\* exception is a write that gives up half-way, which calls no wakeup().
SleepersJustified ==
  \A p \in Procs : asleep[p] =>
    \/ at[p] = "read" /\ (Empty \/ abandoned) /\ writeopen
    \/ at[p] = "write" /\ Full /\ readopen
================================================================================
