-------------------------------- MODULE UMalloc --------------------------------
(***************************************************************************)
(* malloc() and free() of user programs (umalloc.c).  Addresses and sizes  *)
(* are in units of a Header; a block is named by the address of its        *)
(* header.  base lies below the heap, at address 0.                        *)
(***************************************************************************)
EXTENDS Integers, FiniteSets, TLC

CONSTANTS HEAP,      \* where sbrk() starts
          LIMIT,     \* where it fails
          NALLOC,    \* the least that morecore() asks for
          HSIZE,     \* bytes of a Header
          ByteCounts \* arguments of malloc()

ASSUME UMallocAssumption == /\ HEAP \in Nat \ {0, 1} /\ LIMIT \in Nat /\ NALLOC \in Nat \ {0}
                            /\ HSIZE \in Nat \ {0} /\ ByteCounts \subseteq Nat

base == 0

VARIABLES
  heap,    \* ptr: of the blocks on the free list; size: of every block; freep; brk
  live,    \* blocks the program has
  mine     \* units the program took from sbrk() itself

mallocVars == <<heap, live, mine>>

\* As malloc() leaves it when it is first called.
MallocInit == /\ heap = [ptr |-> (base :> base), size |-> (base :> 0), freep |-> base, brk |-> HEAP]
              /\ live = {}
              /\ mine = {}

\* The loop of free(): the block of the list after which bp belongs.
RECURSIVE Before(_, _, _)
Before(h, p, bp) ==
  LET n == h.ptr[p]
  IN IF (bp > p /\ bp < n) \/ (p >= n /\ (bp > p \/ bp < n)) THEN p ELSE Before(h, n, bp)

Without(f, x) == [y \in DOMAIN f \ {x} |-> f[y]]

\* bp joined with the block that begins where it ends.
JoinUpper(h, bp, n) ==
  IF bp + h.size[bp] = n
  THEN [h EXCEPT !.size = Without([@ EXCEPT ![bp] = @ + h.size[n]], n),
                 !.ptr = (bp :> h.ptr[n]) @@ Without(@, n)]
  ELSE [h EXCEPT !.ptr = (bp :> n) @@ @]

\* bp joined with the block p that ends where it begins.
JoinLower(h, p, bp) ==
  IF p + h.size[p] = bp
  THEN [h EXCEPT !.size = Without([@ EXCEPT ![p] = @ + h.size[bp]], bp),
                 !.ptr = Without([@ EXCEPT ![p] = h.ptr[bp]], bp)]
  ELSE [h EXCEPT !.ptr[p] = bp]

\* free(bp)
Freed(h, bp) ==
  LET p == Before(h, h.freep, bp)
      u == JoinUpper(h, bp, h.ptr[p])
  IN [JoinLower(u, p, bp) EXCEPT !.freep = p]

\* morecore(nu); the heap itself when sbrk() fails.
MoreCore(h, nu) ==
  LET n == IF nu < NALLOC THEN NALLOC ELSE nu
  IN IF h.brk + n > LIMIT THEN h
     ELSE Freed([h EXCEPT !.size = (h.brk :> n) @@ @, !.brk = @ + n], h.brk)

\* The front of a larger block handed out, its header left on the list.
TakeFront(h, prevp, p, n) ==
  IF h.size[p] = n
  THEN [heap |-> [h EXCEPT !.ptr = Without([@ EXCEPT ![prevp] = h.ptr[p]], p), !.freep = prevp],
        block |-> p]
  ELSE [heap |-> [h EXCEPT !.size = (p + n :> h.size[p] - n) @@ [@ EXCEPT ![p] = n], !.freep = prevp],
        block |-> p]

\* A block that is large enough: all of it, or its tail.
Take(h, prevp, p, n) ==
  IF h.size[p] = n
  THEN [heap |-> [h EXCEPT !.ptr = Without([@ EXCEPT ![prevp] = h.ptr[p]], p), !.freep = prevp],
        block |-> p]
  ELSE [heap |-> [h EXCEPT !.size = (p + h.size[p] - n :> n) @@ [@ EXCEPT ![p] = @ - n],
                           !.freep = prevp],
        block |-> p + h.size[p] - n]

\* The loop of malloc(), at block p after prevp; block 0 is no memory.
RECURSIVE Search(_, _, _, _)
Search(h, prevp, p, n) ==
  IF h.size[p] >= n THEN Take(h, prevp, p, n)
  ELSE IF p # h.freep THEN Search(h, p, h.ptr[p], n)
  ELSE LET more == MoreCore(h, n)
       IN IF more = h THEN [heap |-> h, block |-> base]
          ELSE Search(more, more.freep, more.ptr[more.freep], n)

Malloc(bytes) ==
  LET n == (bytes + HSIZE - 1) \div HSIZE + 1
      r == Search(heap, heap.freep, heap.ptr[heap.freep], n)
  IN /\ heap' = r.heap
     /\ live' = live \cup ({r.block} \ {base})
     /\ UNCHANGED mine

Free(bp) == /\ heap' = Freed(heap, bp)
            /\ live' = live \ {bp}
            /\ UNCHANGED mine

\* The program grows its memory itself; malloc() meets a hole.
OwnSbrk == /\ heap.brk < LIMIT
           /\ heap' = [heap EXCEPT !.brk = @ + 1]
           /\ mine' = mine \cup {heap.brk}
           /\ UNCHANGED live

MallocNext == OwnSbrk \/ (\E n \in ByteCounts : Malloc(n)) \/ (\E bp \in live : Free(bp))

(***************************************************************************)
(* Properties.                                                             *)
(***************************************************************************)

FreeBlocks == DOMAIN heap.ptr \ {base}
Units(b) == b..b + heap.size[b] - 1

\* Every unit obtained from sbrk() belongs to one free block, one block of the program
\* or the program's own part: nothing is lost, and no memory is handed out twice.  The
\* circular list is in address order with a single turning point, and free() leaves no
\* two free blocks next to each other.
HeapPartition ==
  /\ live \cap FreeBlocks = {}
  /\ UNION {Units(b) : b \in live \cup FreeBlocks} = (HEAP..heap.brk - 1) \ mine
  /\ \A b, c \in live \cup FreeBlocks : b # c => Units(b) \cap Units(c) = {}
  /\ Cardinality({b \in DOMAIN heap.ptr : heap.ptr[b] <= b}) = 1
  /\ \A b \in FreeBlocks : b + heap.size[b] \notin FreeBlocks

================================================================================
