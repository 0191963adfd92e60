-------------------------------- MODULE Memory --------------------------------
(***************************************************************************)
(* Physical pages and address spaces: kalloc.c and vm.c under fork, exec,  *)
(* sbrk, exit and wait (proc.c, exec.c), with memory running out anywhere. *)
(*                                                                         *)
(* kalloc() runs under kmem.lock, so each call of it is a step; freeing    *)
(* cannot fail, and what one call frees is freed in one step.  Pages are   *)
(* counted, not told apart: a page leaked or freed twice changes the sum.  *)
(* An address space is private to its process.                             *)
(***************************************************************************)
EXTENDS Integers, FiniteSetsExt

CONSTANTS Slots,      \* entries of ptable
          initproc,
          NPAGES,     \* pages that kinit1() and kinit2() put on the free list
          PGSIZE,
          NPTENTRIES, \* pages that a page table maps
          KTABLES,    \* page tables that kmap[] needs
          KERNBASE,   \* where user addresses end
          ImageSizes  \* sizes of the programs there are

ASSUME MemoryAssumption ==
  /\ initproc \in Slots /\ NPAGES \in Nat /\ PGSIZE \in Nat \ {0} /\ NPTENTRIES \in Nat \ {0}
  /\ KTABLES \in Nat /\ KERNBASE \in Nat /\ ImageSizes \subseteq Nat \ {0}

VARIABLES
  nfree,   \* length of kmem.freelist
  slot,    \* ptable: "unused", "embryo", "live" or "zombie"
  kstack,  \* the process has a kernel stack
  space,   \* its address space: directory, kernel tables, user tables, user pages
  sz,      \* p->sz, in bytes
  sys,     \* the call it is in
  vmPanic  \* vm.c has panicked

memVars == <<nfree, slot, kstack, space, sz, sys, vmPanic>>

PGROUNDUP(a) == ((a + PGSIZE - 1) \div PGSIZE) * PGSIZE

\* The pages of the addresses from .. to - 1, from rounded up, as allocuvm() and
\* deallocuvm() run through them.
PagesOf(from, to) == {i \in 0..KERNBASE \div PGSIZE : PGROUNDUP(from) <= i * PGSIZE /\ i * PGSIZE < to}
PDX(i) == i \div NPTENTRIES

NoSpace == [dir |-> FALSE, kern |-> 0, tables |-> {}, user |-> {}]
NoCall == [op |-> "none", at |-> "user", child |-> initproc, new |-> NoSpace, next |-> 0, to |-> 0, stack |-> FALSE]

\* What freevm() gives back.
PagesIn(s) == (IF s.dir THEN 1 ELSE 0) + s.kern + Cardinality(s.tables) + Cardinality(s.user)

\* After userinit(): the first process has one page, the one inituvm() filled.
MemInit ==
  LET first == [dir |-> TRUE, kern |-> KTABLES, tables |-> {0}, user |-> {0}] IN
  /\ slot = [p \in Slots |-> IF p = initproc THEN "live" ELSE "unused"]
  /\ kstack = [p \in Slots |-> p = initproc]
  /\ space = [p \in Slots |-> IF p = initproc THEN first ELSE NoSpace]
  /\ sz = [p \in Slots |-> IF p = initproc THEN PGSIZE ELSE 0]
  /\ nfree = NPAGES - 1 - PagesIn(first)
  /\ sys = [p \in Slots |-> NoCall]
  /\ vmPanic = FALSE

In(p, place) == ~vmPanic /\ slot[p] = "live" /\ sys[p].at = place

\* Runs in user mode: its first page, where its program is, is still there.
InUser(p) == In(p, "user") /\ 0 \in space[p].user

\* The space that p's call maps pages into: its own for sbrk(), else the new one.
Target(p) == IF sys[p].op = "sbrk" THEN space[p] ELSE sys[p].new
SetTarget(p, s, place, i) ==
  IF sys[p].op = "sbrk"
  THEN space' = [space EXCEPT ![p] = s] /\ sys' = [sys EXCEPT ![p].at = place, ![p].next = i]
  ELSE sys' = [sys EXCEPT ![p].new = s, ![p].at = place, ![p].next = i] /\ UNCHANGED space

\* The call gives back what it took, held pages it has not mapped included:
\* "bad:" of copyuvm() and of exec(), the error paths of nicefork() and allocuvm().
Fail(p, held) ==
  CASE sys[p].op = "fork" ->
         /\ nfree' = nfree + held + PagesIn(sys[p].new) + (IF kstack[sys[p].child] THEN 1 ELSE 0)
         /\ kstack' = [kstack EXCEPT ![sys[p].child] = FALSE]
         /\ slot' = [slot EXCEPT ![sys[p].child] = "unused"]
         /\ sys' = [sys EXCEPT ![p] = NoCall] /\ UNCHANGED <<space, sz>>
    [] sys[p].op = "exec" ->
         /\ nfree' = nfree + held + PagesIn(sys[p].new)
         /\ sys' = [sys EXCEPT ![p] = NoCall] /\ UNCHANGED <<slot, kstack, space, sz>>
    [] OTHER ->
         /\ nfree' = nfree + held + Cardinality(space[p].user \cap PagesOf(sz[p], sys[p].to))
         /\ space' = [space EXCEPT ![p].user = @ \ PagesOf(sz[p], sys[p].to)]
         /\ sys' = [sys EXCEPT ![p] = NoCall] /\ UNCHANGED <<slot, kstack, sz>>

\* kalloc()
KAlloc == nfree > 0 /\ nfree' = nfree - 1

(***************************************************************************)
(* The calls.                                                              *)
(***************************************************************************)

\* nicefork() with a free slot, up to the kalloc() of allocproc().
MemFork(p) ==
  /\ InUser(p)
  /\ \E c \in Slots :
       /\ slot[c] = "unused"
       /\ slot' = [slot EXCEPT ![c] = "embryo"]
       /\ sys' = [sys EXCEPT ![p] = [NoCall EXCEPT !.op = "fork", !.at = "kstack", !.child = c,
                                                   !.to = sz[p]]]
  /\ UNCHANGED <<nfree, kstack, space, sz, vmPanic>>

\* The kernel stack, in allocproc().
KStack(p) ==
  /\ In(p, "kstack")
  /\ \/ /\ KAlloc
        /\ kstack' = [kstack EXCEPT ![sys[p].child] = TRUE]
        /\ sys' = [sys EXCEPT ![p].at = "dir"]
        /\ UNCHANGED <<slot, space, sz>>
     \/ nfree = 0 /\ Fail(p, 0)
  /\ UNCHANGED vmPanic

\* exec() of a program of n bytes, up to setupkvm().
Exec(p, n) ==
  /\ InUser(p)
  /\ sys' = [sys EXCEPT ![p] = [NoCall EXCEPT !.op = "exec", !.at = "dir", !.to = n]]
  /\ UNCHANGED <<nfree, slot, kstack, space, sz, vmPanic>>

\* The page directory, in setupkvm().
SetupKvm(p) ==
  /\ In(p, "dir")
  /\ \/ KAlloc /\ SetTarget(p, [NoSpace EXCEPT !.dir = TRUE], "kern", 0) /\ UNCHANGED <<slot, kstack, sz>>
     \/ nfree = 0 /\ Fail(p, 0)
  /\ UNCHANGED vmPanic

\* A page table for the kernel part, in setupkvm(); after the last one the pages
\* of the parent or of the program follow.
MapKernel(p) ==
  LET s == sys[p].new IN
  /\ In(p, "kern")
  /\ \/ /\ KAlloc
        /\ SetTarget(p, [s EXCEPT !.kern = @ + 1], IF s.kern + 1 = KTABLES THEN "page" ELSE "kern", 0)
        /\ UNCHANGED <<slot, kstack, sz>>
     \/ nfree = 0 /\ Fail(p, 0)
  /\ UNCHANGED vmPanic

\* growproc(n) with n > 0, up to the loop of allocuvm().
Grow(p, n) ==
  /\ InUser(p)
  /\ sys' = [sys EXCEPT ![p] = [NoCall EXCEPT !.op = "sbrk", !.at = "page", !.to = sz[p] + n,
                                              !.next = PGROUNDUP(sz[p]) \div PGSIZE]]
  /\ UNCHANGED <<nfree, slot, kstack, space, sz, vmPanic>>

\* The tests and the kalloc() of a round of the loops of allocuvm() and copyuvm().
Page(p) ==
  LET c == sys[p]
      more == c.next * PGSIZE < c.to
      missing == c.op = "fork" /\ c.next \notin space[p].user
  IN /\ In(p, "page")
     /\ \/ /\ c.to >= KERNBASE
           /\ Fail(p, 0) /\ UNCHANGED vmPanic
        \/ /\ c.to < KERNBASE /\ ~more
           /\ sys' = [sys EXCEPT ![p].at = "built"]
           /\ UNCHANGED <<nfree, slot, kstack, space, sz, vmPanic>>
        \/ /\ c.to < KERNBASE /\ more /\ KAlloc
           /\ vmPanic' = missing
           /\ sys' = [sys EXCEPT ![p].at = "map"]
           /\ UNCHANGED <<slot, kstack, space, sz>>
        \/ /\ c.to < KERNBASE /\ more /\ nfree = 0
           /\ Fail(p, 0) /\ vmPanic' = missing

\* mappages() of the page: walkpgdir() may need a page table.
MapPages(p) ==
  LET s == Target(p)
      i == sys[p].next
  IN /\ In(p, "map")
     /\ \/ /\ IF PDX(i) \in s.tables THEN UNCHANGED nfree ELSE KAlloc
           /\ vmPanic' = (i \in s.user)
           /\ SetTarget(p, [s EXCEPT !.tables = @ \cup {PDX(i)}, !.user = @ \cup {i}], "page", i + 1)
           /\ UNCHANGED <<slot, kstack, sz>>
        \/ /\ PDX(i) \notin s.tables /\ nfree = 0
           /\ Fail(p, 1) /\ UNCHANGED vmPanic

\* The end of nicefork().
Forked(p) ==
  LET c == sys[p].child IN
  /\ In(p, "built") /\ sys[p].op = "fork"
  /\ space' = [space EXCEPT ![c] = sys[p].new]
  /\ sz' = [sz EXCEPT ![c] = sz[p]]
  /\ slot' = [slot EXCEPT ![c] = "live"]
  /\ sys' = [sys EXCEPT ![p] = NoCall]
  /\ UNCHANGED <<nfree, kstack, vmPanic>>

\* The end of growproc(n).
Grown(p) ==
  /\ In(p, "built") /\ sys[p].op = "sbrk"
  /\ sz' = [sz EXCEPT ![p] = sys[p].to]
  /\ sys' = [sys EXCEPT ![p] = NoCall]
  /\ UNCHANGED <<nfree, slot, kstack, space, vmPanic>>

\* exec() goes on to a further segment, which ends at n, or to the two pages of stack.
ExecMore(p, n) ==
  /\ In(p, "built") /\ sys[p].op = "exec" /\ ~sys[p].stack
  /\ \/ n > sys[p].to /\ sys' = [sys EXCEPT ![p].to = n, ![p].at = "page"]
     \/ sys' = [sys EXCEPT ![p].to = PGROUNDUP(@) + 2 * PGSIZE, ![p].stack = TRUE, ![p].at = "page"]
  /\ UNCHANGED <<nfree, slot, kstack, space, sz, vmPanic>>

\* A program that cannot be read, or arguments that do not fit.
ExecBad(p) ==
  /\ In(p, "built") /\ sys[p].op = "exec"
  /\ Fail(p, 0)
  /\ UNCHANGED vmPanic

\* The old image is kept.
ExecCommitKeeps(p) ==
  /\ In(p, "built") /\ sys[p].op = "exec" /\ sys[p].stack
  /\ space' = [space EXCEPT ![p] = sys[p].new]
  /\ sz' = [sz EXCEPT ![p] = sys[p].to]
  /\ sys' = [sys EXCEPT ![p] = NoCall]
  /\ UNCHANGED <<nfree, slot, kstack, vmPanic>>

\* exec() commits to the new image and frees the old one.
ExecCommit(p) ==
  /\ In(p, "built") /\ sys[p].op = "exec" /\ sys[p].stack
  /\ nfree' = nfree + PagesIn(space[p])
  /\ space' = [space EXCEPT ![p] = sys[p].new]
  /\ sz' = [sz EXCEPT ![p] = sys[p].to]
  /\ sys' = [sys EXCEPT ![p] = NoCall]
  /\ UNCHANGED <<slot, kstack, vmPanic>>

\* deallocuvm() that rounds the new size down.
ShrinkDown(p, n) ==
  LET freed == {i \in space[p].user : i * PGSIZE + PGSIZE > sz[p] - n} IN
  /\ InUser(p) /\ n <= sz[p] /\ (p = initproc => n < sz[p])
  /\ nfree' = nfree + Cardinality(freed)
  /\ space' = [space EXCEPT ![p].user = @ \ freed]
  /\ sz' = [sz EXCEPT ![p] = IF @ = n THEN @ ELSE @ - n]
  /\ UNCHANGED <<slot, kstack, sys, vmPanic>>

\* growproc(-n).  A size of 0 is taken for deallocuvm()'s failure: the pages are
\* gone and p->sz stays.  init keeps its memory.
Shrink(p, n) ==
  LET freed == space[p].user \cap PagesOf(sz[p] - n, sz[p]) IN
  /\ InUser(p) /\ n <= sz[p] /\ (p = initproc => n < sz[p])
  /\ nfree' = nfree + Cardinality(freed)
  /\ space' = [space EXCEPT ![p].user = @ \ freed]
  /\ sz' = [sz EXCEPT ![p] = IF @ = n THEN @ ELSE @ - n]
  /\ UNCHANGED <<slot, kstack, sys, vmPanic>>

\* exit(), also of a process that trap() kills because its program is gone.
MemExit(p) ==
  /\ In(p, "user") /\ p # initproc
  /\ slot' = [slot EXCEPT ![p] = "zombie"]
  /\ UNCHANGED <<nfree, kstack, space, sz, sys, vmPanic>>

\* wait() finds c.  Which process is its parent is left to Scheduler.
MemWait(p, c) ==
  /\ InUser(p) /\ slot[c] = "zombie"
  /\ nfree' = nfree + 1 + PagesIn(space[c])
  /\ kstack' = [kstack EXCEPT ![c] = FALSE]
  /\ space' = [space EXCEPT ![c] = NoSpace]
  /\ slot' = [slot EXCEPT ![c] = "unused"]
  /\ UNCHANGED <<sz, sys, vmPanic>>

MemNext == \E p \in Slots :
  \/ MemFork(p) \/ KStack(p) \/ SetupKvm(p) \/ MapKernel(p) \/ Page(p) \/ MapPages(p)
  \/ Forked(p) \/ Grown(p) \/ ExecBad(p) \/ ExecCommit(p) \/ MemExit(p)
  \/ \E n \in ImageSizes : Exec(p, n) \/ ExecMore(p, n) \/ Grow(p, n) \/ Shrink(p, n)
  \/ \E c \in Slots : MemWait(p, c)

(***************************************************************************)
(* Properties.                                                             *)
(***************************************************************************)

\* The pages a call of p holds outside every finished address space.
InCall(p) == PagesIn(sys[p].new) + (IF sys[p].at = "map" THEN 1 ELSE 0)

\* Wherever memory runs out and whatever fails, no page is leaked and none is freed
\* twice: the free list and the owners account for every page.
PagesConserved ==
  nfree + MapThenSumSet(LAMBDA p : (IF kstack[p] THEN 1 ELSE 0) + PagesIn(space[p]) + InCall(p), Slots)
    = NPAGES

\* A process in user mode has exactly the pages that p->sz promises, with their page
\* tables, after failed and finished calls alike; so copyuvm() meets no missing page
\* and mappages() no mapped one.  The exception is a process that has given up all of
\* its memory.
MappedExact ==
  /\ ~vmPanic
  /\ \A p \in Slots : In(p, "user") =>
       /\ space[p].user \in {PagesOf(0, sz[p]), {}}
       /\ {PDX(i) : i \in space[p].user} \subseteq space[p].tables

================================================================================
