------------------------------ MODULE FileSystem ------------------------------
(***************************************************************************)
(* Directories, path names and the inode cache (fs.c) under the system     *)
(* calls that change the tree (sysfile.c), made by several processes.      *)
(*                                                                         *)
(* What a process does while it holds an inode's sleep-lock is one step,   *)
(* unless it waits for a second lock meanwhile.  A directory is a function *)
(* from names to inode numbers; file contents are left to FileData, the    *)
(* log to Log (no call can fail half-way) and buffers to BufCache.         *)
(***************************************************************************)
EXTENDS Integers, Sequences, FiniteSetsExt

CONSTANTS Procs,
          ninodes,  \* sb.ninodes: inodes are numbered 1..ninodes - 1
          NINODE,   \* size of the inode cache
          NFILE,    \* open files per system
          Names,    \* names other than "." and ".."
          Calls,    \* the calls processes make: [op, path, new], paths [root, elems]
          MaxCalls, \* bound on calls each process makes
          None

ASSUME FSAssumption == /\ ninodes \in Nat /\ ninodes > 1
                       /\ NINODE \in Nat /\ NFILE \in Nat
                       /\ {".", ".."} \cap Names = {}
                       /\ MaxCalls \in Nat

Dots == {".", ".."}
Inums == 1..ninodes - 1
ROOTINO == 1
NoEntries == [n \in Names \cup Dots |-> 0]
NoPath == [root |-> FALSE, elems |-> <<>>]

VARIABLES
  type, nlink, dir,  \* on disk: dinode type ("free", "file", "dir", "dev") and nlink, entries
  icache,            \* the inode cache entry of each inode: ref, valid, type, nlink
  lock,              \* the process that holds ip->lock
  cwd, file,         \* what each process has: its directory, its open file
  call,              \* the call it is in
  calls,             \* how many it has begun
  panicked

disk == <<type, nlink, dir>>
vars == <<disk, icache, lock, cwd, file, call, calls, panicked>>

Creates == {"create", "mkdir", "mknod"}
NewType == [create |-> "file", mkdir |-> "dir", mknod |-> "dev"]

\* A call: the one made; at: how far it is, "walk" in namex(), else named for the next
\* step; cur: the inode namex() stands on; ip, dp: those of the call's code; rest: path
\* elements to come; new: where link() will walk next; puts: inodes to iput() before
\* the call goes on; checked: iput() has tested the first of them.
Idle == [op |-> "none", at |-> "idle", cur |-> 0, ip |-> 0, dp |-> 0, rest |-> <<>>,
         new |-> NoPath, puts |-> <<>>, checked |-> FALSE]

\* The file system as mkfs leaves it, and processes whose directory is the root.
Init == /\ type = [i \in Inums |-> IF i = ROOTINO THEN "dir" ELSE "free"]
        /\ nlink = [i \in Inums |-> IF i = ROOTINO THEN 1 ELSE 0]
        /\ dir = [i \in Inums |-> IF i = ROOTINO
                                  THEN [n \in Names \cup Dots |-> IF n \in Dots THEN i ELSE 0]
                                  ELSE NoEntries]
        /\ icache = [i \in Inums |-> [ref |-> IF i = ROOTINO THEN Cardinality(Procs) ELSE 0,
                                      valid |-> FALSE, type |-> "free", nlink |-> 0]]
        /\ lock = [i \in Inums |-> None]
        /\ cwd = [p \in Procs |-> ROOTINO] /\ file = [p \in Procs |-> 0]
        /\ call = [p \in Procs |-> Idle] /\ calls = [p \in Procs |-> 0]
        /\ panicked = FALSE

\* Process p has nothing left to iput() and is at this place of its call.
At(p, place) == ~panicked /\ call[p].puts = <<>> /\ call[p].at = place

Goes(p, c) == call' = [call EXCEPT ![p] = c]

\* The call ends; the inodes of s are still to be put.
Done(s) == [Idle EXCEPT !.puts = s]

(***************************************************************************)
(* The inode cache.                                                        *)
(***************************************************************************)

\* iget(i): a hit counts one more reference, a miss takes an empty entry.
Got(m, i) == [m EXCEPT ![i].ref = @ + 1, ![i].valid = @ /\ m[i].ref > 0]

\* "iget: no inodes"
CacheFull(i) == Cardinality({j \in Inums : icache[j].ref > 0} \cup {i}) > NINODE

\* What ilock(i) reads from the disk; "ilock: no type" stops the machine.
Loaded(m, i) == IF m[i].valid THEN m
                ELSE [m EXCEPT ![i].valid = TRUE, ![i].type = type[i], ![i].nlink = nlink[i]]
NoType(i) == ~icache[i].valid /\ type[i] = "free"
TypeOf(i) == Loaded(icache, i)[i].type

\* ip->nlink += d of a locked inode, in memory; iupdate() then makes the disk agree.
Linked(m, i, d) == [m EXCEPT ![i].nlink = @ + d]
IUpdate(s) == nlink' = [i \in Inums |-> IF i \in s THEN icache'[i].nlink ELSE nlink[i]]

\* dirlookup(): the inode that directory d has under name n, 0 if none.
DirLookup(d, n) == dir[d][n]

\* iput() without its test of the reference count.
LastLinkGone(i) == icache[i].valid /\ icache[i].nlink = 0

\* The tests of iput() at fs.c:335-339.
Freeable(i) == icache[i].valid /\ icache[i].nlink = 0 /\ icache[i].ref = 1

\* iput() up to releasesleep(): a freeable inode is truncated and freed.
IPutFree(p) ==
  LET i == call[p].puts[1] IN
  /\ ~panicked /\ call[p].puts # <<>> /\ ~call[p].checked
  /\ lock[i] = None
  /\ IF Freeable(i)
     THEN /\ type' = [type EXCEPT ![i] = "free"]
          /\ dir' = [dir EXCEPT ![i] = NoEntries]
          /\ icache' = [icache EXCEPT ![i].type = "free", ![i].valid = FALSE]
     ELSE UNCHANGED <<type, dir, icache>>
  /\ Goes(p, [call[p] EXCEPT !.checked = TRUE])
  /\ UNCHANGED <<nlink, lock, cwd, file, panicked, calls>>

\* The end of iput(), under icache.lock.
IPutDrop(p) ==
  /\ ~panicked /\ call[p].checked
  /\ icache' = [icache EXCEPT ![call[p].puts[1]].ref = @ - 1]
  /\ Goes(p, [call[p] EXCEPT !.puts = Tail(@), !.checked = FALSE])
  /\ UNCHANGED <<disk, lock, cwd, file, panicked, calls>>

(***************************************************************************)
(* Path names.                                                             *)
(***************************************************************************)

\* create(), unlink() and the second path of link() want the parent directory.
WantsParent(c) == c.op \in Creates \cup {"unlink"} \/ (c.op = "link" /\ c.ip # 0)

\* namex() returns 0; link() has a count to take back.
Fails(c, s) == IF c.op = "link" /\ c.ip # 0
               THEN [c EXCEPT !.at = "undo", !.cur = 0, !.dp = 0, !.rest = <<>>, !.puts = s]
               ELSE Done(s)

\* namex() on inode i, about to look for the first of the elements.
Walking(c, i, elems) ==
  CASE elems # <<>> -> [c EXCEPT !.at = "walk", !.cur = i, !.rest = elems]
    [] elems = <<>> /\ WantsParent(c) -> Fails(c, <<i>>)
    [] OTHER -> [c EXCEPT !.at = "target", !.cur = 0, !.rest = <<>>, !.ip = i]

StartOf(p, path) == IF path.root THEN ROOTINO ELSE cwd[p]

\* A system call with path arguments, up to the loop of namex().
Begin(p, c) ==
  LET i == StartOf(p, c.path) IN
  /\ At(p, "idle")
  /\ calls[p] < MaxCalls
  /\ calls' = [calls EXCEPT ![p] = @ + 1]
  /\ icache' = Got(icache, i)
  /\ panicked' = CacheFull(i)
  /\ Goes(p, Walking([Idle EXCEPT !.op = c.op, !.new = c.new], i, c.path.elems))
  /\ UNCHANGED <<disk, lock, cwd, file>>

\* One round of the loop of namex(): ilock, dirlookup, iunlock; the iput() of the
\* directory left behind follows.
Walk(p) ==
  LET c == call[p]
      i == c.cur
      next == DirLookup(i, Head(c.rest))
      last == WantsParent(c) /\ Len(c.rest) = 1
  IN /\ At(p, "walk")
     /\ lock[i] = None
     /\ \/ /\ TypeOf(i) # "dir" \/ (~last /\ next = 0)
           /\ panicked' = NoType(i)
           /\ icache' = Loaded(icache, i)
           /\ Goes(p, Fails(c, <<i>>))
        \/ /\ TypeOf(i) = "dir" /\ last
           /\ icache' = Loaded(icache, i)
           /\ Goes(p, [c EXCEPT !.at = "parent", !.cur = 0, !.dp = i])
           /\ UNCHANGED panicked
        \/ /\ TypeOf(i) = "dir" /\ ~last /\ next # 0
           /\ panicked' = CacheFull(next)
           /\ icache' = Got(Loaded(icache, i), next)
           /\ Goes(p, [Walking(c, next, Tail(c.rest)) EXCEPT !.puts = <<i>>])
     /\ UNCHANGED <<disk, lock, cwd, file, calls>>

(***************************************************************************)
(* The calls once their inode or its parent is found.                      *)
(***************************************************************************)

\* filealloc() and fdalloc() succeed.
CanOpen(p) == file[p] = 0 /\ Cardinality({q \in Procs : file[q] # 0}) < NFILE

\* sys_open() without O_CREATE, from ilock() to its end.
Open(p) ==
  LET i == call[p].ip IN
  /\ At(p, "target") /\ call[p].op = "open"
  /\ lock[i] = None
  /\ panicked' = NoType(i)
  /\ icache' = Loaded(icache, i)
  /\ \/ CanOpen(p) /\ file' = [file EXCEPT ![p] = i] /\ Goes(p, Idle)
     \/ (~CanOpen(p) \/ TypeOf(i) = "dir") /\ Goes(p, Done(<<i>>)) /\ UNCHANGED file
  /\ UNCHANGED <<disk, lock, cwd, calls>>

\* sys_chdir() from ilock(): the old directory is put last.
Chdir(p) ==
  LET i == call[p].ip IN
  /\ At(p, "target") /\ call[p].op = "chdir"
  /\ lock[i] = None
  /\ panicked' = NoType(i)
  /\ icache' = Loaded(icache, i)
  /\ IF TypeOf(i) = "dir"
     THEN cwd' = [cwd EXCEPT ![p] = i] /\ Goes(p, Done(<<cwd[p]>>))
     ELSE Goes(p, Done(<<i>>)) /\ UNCHANGED cwd
  /\ UNCHANGED <<disk, lock, file, calls>>

\* sys_link() that links directories too.
LinkAny(p) ==
  LET c == call[p]
      i == c.ip
      j == StartOf(p, c.new)
  IN /\ At(p, "target") /\ c.op = "link"
     /\ lock[i] = None
     /\ panicked' = (NoType(i) \/ CacheFull(j))
     /\ icache' = Got(Linked(Loaded(icache, i), i, 1), j)
     /\ IUpdate({i})
     /\ Goes(p, Walking(c, j, c.new.elems))
     /\ UNCHANGED <<type, dir, lock, cwd, file, calls>>

\* sys_link() that keeps ip locked while it walks to the new name.
LinkLocked(p) ==
  LET c == call[p]
      i == c.ip
      j == StartOf(p, c.new)
  IN /\ At(p, "target") /\ c.op = "link"
     /\ lock[i] = None
     /\ panicked' = (NoType(i) \/ (TypeOf(i) # "dir" /\ CacheFull(j)))
     /\ IF TypeOf(i) = "dir"
        THEN icache' = Loaded(icache, i) /\ Goes(p, Done(<<i>>)) /\ UNCHANGED <<nlink, lock>>
        ELSE /\ icache' = Got(Linked(Loaded(icache, i), i, 1), j)
             /\ lock' = [lock EXCEPT ![i] = p]
             /\ IUpdate({i})
             /\ Goes(p, Walking(c, j, c.new.elems))
     /\ UNCHANGED <<type, dir, cwd, file, calls>>

\* sys_link() from ilock(ip) to the start of nameiparent(new).
Link(p) ==
  LET c == call[p]
      i == c.ip
      j == StartOf(p, c.new)
  IN /\ At(p, "target") /\ c.op = "link"
     /\ lock[i] = None
     /\ panicked' = (NoType(i) \/ (TypeOf(i) # "dir" /\ CacheFull(j)))
     /\ IF TypeOf(i) = "dir"
        THEN icache' = Loaded(icache, i) /\ Goes(p, Done(<<i>>)) /\ UNCHANGED nlink
        ELSE /\ icache' = Got(Linked(Loaded(icache, i), i, 1), j)
             /\ IUpdate({i})
             /\ Goes(p, Walking(c, j, c.new.elems))
     /\ UNCHANGED <<type, dir, lock, cwd, file, calls>>

\* sys_link() from ilock(dp): dirlink().  A name that is present is put, with dp
\* still locked.
LinkEntry(p) ==
  LET c == call[p]
      d == c.dp
      n == Head(c.rest)
      present == DirLookup(d, n)
  IN /\ At(p, "parent") /\ c.op = "link"
     /\ lock[d] = None
     /\ IF present = 0
        THEN /\ dir' = [dir EXCEPT ![d][n] = c.ip]
             /\ icache' = Loaded(icache, d)
             /\ panicked' = NoType(d)
             /\ Goes(p, Done(<<d, c.ip>>))
             /\ UNCHANGED lock
        ELSE /\ lock' = [lock EXCEPT ![d] = p]
             /\ icache' = Got(Loaded(icache, d), present)
             /\ panicked' = (NoType(d) \/ CacheFull(present))
             /\ Goes(p, [c EXCEPT !.at = "release", !.puts = <<present>>])
             /\ UNCHANGED dir
     /\ UNCHANGED <<type, nlink, cwd, file, calls>>

\* dp unlocked and not put.
ReleaseNoPut(p) ==
  LET c == call[p] IN
  /\ At(p, "release")
  /\ lock' = [lock EXCEPT ![c.dp] = None]
  /\ Goes(p, Fails(c, <<>>))
  /\ UNCHANGED <<disk, icache, cwd, file, panicked, calls>>

\* iunlockput(dp) after a failed dirlink(), or after a directory that sys_unlink()
\* found not empty has been put.
Release(p) ==
  LET c == call[p] IN
  /\ At(p, "release")
  /\ lock' = [lock EXCEPT ![c.dp] = None]
  /\ Goes(p, Fails(c, <<c.dp>>))
  /\ UNCHANGED <<disk, icache, cwd, file, panicked, calls>>

\* "bad:" of sys_link().
Undo(p) ==
  LET i == call[p].ip IN
  /\ At(p, "undo")
  /\ lock[i] = None
  /\ icache' = Linked(Loaded(icache, i), i, -1)
  /\ IUpdate({i})
  /\ panicked' = NoType(i)
  /\ Goes(p, Done(<<i>>))
  /\ UNCHANGED <<type, dir, lock, cwd, file, calls>>

\* The inodes the scan of ialloc() finds free.
FreeInums == {i \in Inums : type[i] = "free"}

\* create() from ilock(dp): an existing name is looked at after dp is put; for a
\* new one ialloc() takes the first free inode, and dp stays locked.
CreateIn(p) ==
  LET c == call[p]
      d == c.dp
      found == DirLookup(d, Head(c.rest))
  IN /\ At(p, "parent") /\ c.op \in Creates
     /\ lock[d] = None
     /\ \/ /\ found # 0
           /\ panicked' = (NoType(d) \/ CacheFull(found))
           /\ icache' = Got(Loaded(icache, d), found)
           /\ Goes(p, [c EXCEPT !.at = "exists", !.ip = found, !.dp = 0, !.puts = <<d>>])
           /\ UNCHANGED <<disk, lock>>
        \/ /\ found = 0 /\ FreeInums # {}
           /\ LET i == Min(FreeInums) IN
                /\ type' = [type EXCEPT ![i] = NewType[c.op]]
                /\ nlink' = [nlink EXCEPT ![i] = 0]
                /\ icache' = Got(Loaded(icache, d), i)
                /\ panicked' = CacheFull(i)
                /\ Goes(p, [c EXCEPT !.at = "fill", !.ip = i])
           /\ lock' = [lock EXCEPT ![d] = p]
           /\ UNCHANGED dir
        \/ /\ found = 0 /\ FreeInums = {}
           /\ panicked' = TRUE
           /\ UNCHANGED <<disk, icache, lock, call>>
     /\ UNCHANGED <<cwd, file, calls>>

\* The parent's count for ".." forgotten.
FillNoDotDot(p) ==
  LET c == call[p]
      d == c.dp
      i == c.ip
  IN /\ At(p, "fill")
     /\ lock[i] = None
     /\ panicked' = NoType(i)
     /\ icache' = [Loaded(icache, i) EXCEPT ![i].nlink = 1]
     /\ IUpdate({i, d})
     /\ dir' = IF c.op = "mkdir"
               THEN [dir EXCEPT ![i]["."] = i, ![i][".."] = d, ![d][Head(c.rest)] = i]
               ELSE [dir EXCEPT ![d][Head(c.rest)] = i]
     /\ lock' = [lock EXCEPT ![d] = None, ![i] = p]
     /\ Goes(p, [c EXCEPT !.at = "created", !.dp = 0, !.rest = <<>>, !.puts = <<d>>])
     /\ UNCHANGED <<type, cwd, file, calls>>

\* create() from ilock(ip) of the new inode to iunlockput(dp).
Fill(p) ==
  LET c == call[p]
      d == c.dp
      i == c.ip
      m == [Loaded(icache, i) EXCEPT ![i].nlink = 1]
  IN /\ At(p, "fill")
     /\ lock[i] = None
     /\ panicked' = NoType(i)
     /\ icache' = IF c.op = "mkdir" THEN Linked(m, d, 1) ELSE m
     /\ IUpdate({i, d})
     /\ dir' = IF c.op = "mkdir"
               THEN [dir EXCEPT ![i]["."] = i, ![i][".."] = d, ![d][Head(c.rest)] = i]
               ELSE [dir EXCEPT ![d][Head(c.rest)] = i]
     /\ lock' = [lock EXCEPT ![d] = None, ![i] = p]
     /\ Goes(p, [c EXCEPT !.at = "created", !.dp = 0, !.rest = <<>>, !.puts = <<d>>])
     /\ UNCHANGED <<type, cwd, file, calls>>

\* create() of a name that exists: only open() of a plain file goes on with it.
Exists(p) ==
  LET c == call[p]
      i == c.ip
  IN /\ At(p, "exists")
     /\ lock[i] = None
     /\ panicked' = NoType(i)
     /\ icache' = Loaded(icache, i)
     /\ IF c.op = "create" /\ TypeOf(i) = "file"
        THEN lock' = [lock EXCEPT ![i] = p] /\ Goes(p, [c EXCEPT !.at = "created"])
        ELSE Goes(p, Done(<<i>>)) /\ UNCHANGED lock
     /\ UNCHANGED <<disk, cwd, file, calls>>

\* After create(): the end of sys_open(), sys_mkdir() or sys_mknod().
Created(p) ==
  LET i == call[p].ip
      opens == call[p].op = "create" /\ CanOpen(p)
  IN /\ At(p, "created")
     /\ lock' = [lock EXCEPT ![i] = None]
     /\ file' = IF opens THEN [file EXCEPT ![p] = i] ELSE file
     /\ Goes(p, Done(IF opens THEN <<>> ELSE <<i>>))
     /\ UNCHANGED <<disk, icache, cwd, panicked, calls>>

\* sys_unlink() from ilock(dp) to ilock(ip).
UnlinkFrom(p) ==
  LET c == call[p]
      d == c.dp
      n == Head(c.rest)
      i == DirLookup(d, n)
  IN /\ At(p, "parent") /\ c.op = "unlink"
     /\ lock[d] = None
     /\ IF n \in Dots \/ i = 0
        THEN /\ icache' = Loaded(icache, d)
             /\ panicked' = NoType(d)
             /\ Goes(p, Done(<<d>>))
             /\ UNCHANGED lock
        ELSE /\ icache' = Got(Loaded(icache, d), i)
             /\ panicked' = (NoType(d) \/ CacheFull(i))
             /\ lock' = [lock EXCEPT ![d] = p]
             /\ Goes(p, [c EXCEPT !.at = "victim", !.ip = i])
     /\ UNCHANGED <<disk, cwd, file, calls>>

IsDirEmpty(i) == \A n \in Names : dir[i][n] = 0

\* sys_unlink() from ilock(ip) to iunlockput(dp).
Victim(p) ==
  LET c == call[p]
      d == c.dp
      i == c.ip
      m == Loaded(icache, i)
  IN /\ At(p, "victim")
     /\ lock[i] = None
     /\ panicked' = (NoType(i) \/ m[i].nlink < 1)
     /\ IF m[i].type = "dir" /\ ~IsDirEmpty(i)
        THEN /\ icache' = m
             /\ Goes(p, [c EXCEPT !.at = "release", !.ip = 0, !.puts = <<i>>])
             /\ UNCHANGED <<nlink, dir, lock>>
        ELSE /\ icache' = IF m[i].type = "dir" THEN Linked(m, d, -1) ELSE m
             /\ IUpdate({d})
             /\ dir' = [dir EXCEPT ![d][Head(c.rest)] = 0]
             /\ lock' = [lock EXCEPT ![d] = None, ![i] = p]
             /\ Goes(p, [c EXCEPT !.at = "drop", !.dp = 0, !.rest = <<>>, !.puts = <<d>>])
     /\ UNCHANGED <<type, cwd, file, calls>>

\* The end of sys_unlink().
Drop(p) ==
  LET i == call[p].ip IN
  /\ At(p, "drop")
  /\ icache' = Linked(icache, i, -1)
  /\ IUpdate({i})
  /\ lock' = [lock EXCEPT ![i] = None]
  /\ Goes(p, Done(<<i>>))
  /\ UNCHANGED <<type, dir, cwd, file, panicked, calls>>

\* sys_close() and fileclose() of the last reference.
Close(p) ==
  /\ At(p, "idle") /\ file[p] # 0
  /\ file' = [file EXCEPT ![p] = 0]
  /\ Goes(p, Done(<<file[p]>>))
  /\ UNCHANGED <<disk, icache, lock, cwd, panicked, calls>>

Step(p) == \/ IPutFree(p) \/ IPutDrop(p) \/ Walk(p)
           \/ Open(p) \/ Chdir(p) \/ Link(p) \/ LinkEntry(p) \/ Undo(p)
           \/ CreateIn(p) \/ Fill(p) \/ Exists(p) \/ Created(p)
           \/ UnlinkFrom(p) \/ Victim(p) \/ Drop(p) \/ Release(p)

Next == \E p \in Procs :
          \/ Step(p) \/ Close(p)
          \/ \E c \in Calls : Begin(p, c)

Spec == Init /\ [][Next]_vars

(***************************************************************************)
(* Properties.                                                             *)
(***************************************************************************)

\* The references process p holds to inode i.
Holds(p, i) == (IF cwd[p] = i THEN 1 ELSE 0) + (IF file[p] = i THEN 1 ELSE 0)
               + (IF call[p].cur = i THEN 1 ELSE 0) + (IF call[p].dp = i THEN 1 ELSE 0)
               + (IF call[p].ip = i THEN 1 ELSE 0)
               + Cardinality({k \in DOMAIN call[p].puts : call[p].puts[k] = i})

\* ip->ref counts exactly the pointers to the inode that processes hold, on every
\* path through the calls, failed ones included.
RefsExact ==
  ~panicked => \A i \in Inums : icache[i].ref = MapThenSumSet(LAMBDA p : Holds(p, i), Procs)

\* The directories that a path from the root reaches in k steps.
Within[k \in Nat] ==
  IF k = 0 THEN {ROOTINO}
  ELSE LET near == Within[k - 1]
       IN near \cup {i \in Inums : type[i] = "dir" /\ \E d \in near, n \in Names : dir[d][n] = i}
Reachable == Within[ninodes]

\* The entries of the directories of r, other than ".", that name inode i.
EntriesOf(i, r) == {e \in r \X (Names \cup {".."}) : dir[e[1]][e[2]] = i}

\* No name in the tree is left without an inode: every entry that a path reaches
\* names an allocated inode and is counted in its nlink, so iput() frees no inode
\* that still has a name.
NamesCounted ==
  LET r == Reachable IN
  ~panicked => \A i \in Inums : EntriesOf(i, r) # {} =>
                 type[i] # "free" /\ Cardinality(EntriesOf(i, r)) <= nlink[i]

InUse(p) == {cwd[p], file[p], call[p].dp} \ {0}

\* An inode is not freed under a process that has it open, has it as its directory
\* or is about to make, link or remove a name in it.
UsedNotFreed == ~panicked => \A p \in Procs : \A i \in InUse(p) : type[i] # "free"

\* The tree stays a tree: a directory has one name, and its ".." is where that is.
OneParent ==
  LET r == Reachable IN
  \A i \in r \ {ROOTINO} :
    \E d \in r, n \in Names : /\ {e \in EntriesOf(i, r) : e[2] \in Names} = {<<d, n>>}
                              /\ dir[i][".."] = d

\* The inode whose lock process p waits for.
WaitsOn(p) == LET c == call[p] IN
  CASE c.checked \/ panicked -> 0
    [] c.puts # <<>> -> c.puts[1]
    [] c.puts = <<>> /\ c.at = "walk" -> c.cur
    [] c.puts = <<>> /\ c.at = "parent" -> c.dp
    [] c.puts = <<>> /\ c.at \in {"target", "exists", "fill", "victim", "undo"} -> c.ip
    [] OTHER -> 0
Blocks(q, p) == WaitsOn(p) # 0 /\ lock[WaitsOn(p)] = q

\* ilock() alone never deadlocks: it is called on a child with at most the parent
\* locked, so of two processes that wait for each other one is inside iput(), which
\* takes a lock whatever its caller still holds.
CyclesThroughPut ==
  \A p, q \in Procs : Blocks(q, p) /\ Blocks(p, q) => call[p].puts # <<>> \/ call[q].puts # <<>>

\* fs.c:149 "The separation also helps avoid deadlock and races during pathname
\* lookup."  No two processes wait for each other's inode, and none for its own.
NoLockCycle == ~\E p, q \in Procs : Blocks(q, p) /\ Blocks(p, q)
================================================================================
