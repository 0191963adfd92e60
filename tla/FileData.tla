------------------------------- MODULE FileData -------------------------------
(***************************************************************************)
(* The contents of files: block allocation, bmap(), readi(), writei() and  *)
(* itrunc() of fs.c under fileread() and filewrite() of file.c, on an      *)
(* image that mkfs.c has built.                                            *)
(*                                                                         *)
(* A block is BSIZE words, and a block number or a datum is a word, so the *)
(* indirect block has NINDIRECT = BSIZE entries.  Word 0 is "no block" and *)
(* the content of a zeroed block.  Processes share open files, and files   *)
(* share the disk; an inode's sleep-lock covers one call of writei().      *)
(***************************************************************************)
EXTENDS Integers, Sequences, SequencesExt, FiniteSetsExt

CONSTANTS Writers,      \* processes that use open files
          Files,        \* inodes
          RootDir,      \* the one mkfs makes the root directory
          OpenFiles,    \* entries of ftable that are in use
          NDIRECT, BSIZE,
          NBLOCKS,      \* data blocks of the disk
          BPB,          \* bits in a bitmap block
          MAXOPBLOCKS,
          Lengths,      \* sizes of the writes and reads that are made
          MaxImage,     \* bound on the blocks mkfs uses
          MaxCalls      \* bound on the number of reads and writes

ASSUME FileDataAssumption ==
  /\ RootDir \in Files
  /\ NDIRECT \in Nat /\ BSIZE \in Nat \ {0} /\ NBLOCKS \in Nat /\ BPB \in Nat \ {0}
  /\ MAXOPBLOCKS \in Nat /\ Lengths \subseteq Nat \ {0} /\ MaxImage \in 0..NBLOCKS /\ MaxCalls \in Nat

NINDIRECT == BSIZE
MAXFILE == NDIRECT + NINDIRECT
DiskBlocks == 1..NBLOCKS
Zeroed == [w \in 0..BSIZE - 1 |-> 0]

VARIABLES
  building,      \* mkfs is still at work
  freeblock,     \* of mkfs: the next block it takes
  used,          \* the bitmap: blocks marked in use
  block,         \* contents of every block
  addrs, size,   \* of every inode
  inode, off,    \* of every open file
  write,         \* the filewrite() each process is in
  logged,        \* blocks its transaction has given to log_write()
  ioCalls,       \* reads and writes begun
  stopped,       \* the function that has panicked, or "no"
  bytes          \* what the files should hold: the writes, in the order of their locks

inodes == <<addrs, size>>
fdVars == <<building, freeblock, used, block, inodes, inode, off, write, logged,
            ioCalls, stopped, bytes>>

NoWrite == [at |-> "out", fd |-> 0, n |-> 0, i |-> 0, tot |-> 0, datum |-> 0]
Chars == 1..Cardinality(Writers)

\* mkfs has zeroed the image.  The files processes will open are the root's until Reopen.
FDInit == /\ building = TRUE /\ freeblock = 1 /\ used = {}
          /\ block = [b \in DiskBlocks |-> Zeroed]
          /\ addrs = [f \in Files |-> [k \in 0..NDIRECT |-> 0]]
          /\ size = [f \in Files |-> 0]
          /\ inode = [d \in OpenFiles |-> RootDir]
          /\ off = [d \in OpenFiles |-> 0]
          /\ write = [p \in Writers |-> NoWrite]
          /\ logged = [p \in Writers |-> {}]
          /\ ioCalls = 0 /\ stopped = "no"
          /\ bytes = [f \in Files |-> <<>>]

(***************************************************************************)
(* Allocation.                                                             *)
(***************************************************************************)


\* bzero(): what a block that balloc() returns holds.
Bzero(b) == Zeroed

\* The bitmap block that holds block b's bit, as log_write() is given it.
BBLOCK(b) == <<"bitmap", b \div BPB>>
DataBlock(b) == <<"data", b>>

\* The scan of balloc() for a clear bit; 0 when there is none.
Balloc(u) == IF DiskBlocks \ u = {} THEN 0 ELSE Min(DiskBlocks \ u)

\* bmap(f, k) on bitmap u: the block, the blocks it took, the inode's addresses and
\* the indirect block as it leaves them.
BMap(f, k, u) ==
  IF k < NDIRECT
  THEN LET b == IF addrs[f][k] = 0 THEN Balloc(u) ELSE addrs[f][k]
       IN [addr |-> b, new |-> {b} \ u, addrs |-> [addrs[f] EXCEPT ![k] = b], table |-> 0,
           entries |-> Zeroed]
  ELSE LET t == IF addrs[f][NDIRECT] = 0 THEN Balloc(u) ELSE addrs[f][NDIRECT]
           a == IF t = 0 THEN Zeroed ELSE IF addrs[f][NDIRECT] = 0 THEN Bzero(t) ELSE block[t]
           j == k - NDIRECT
           b == IF a[j] = 0 THEN Balloc(u \cup {t}) ELSE a[j]
       IN [addr |-> IF t = 0 THEN 0 ELSE b, new |-> {t, b} \ u,
           addrs |-> [addrs[f] EXCEPT ![NDIRECT] = t],
           table |-> t, entries |-> [a EXCEPT ![j] = b]]

\* The whole of the block is overwritten.
WrittenWhole(m, o, v) ==
  [b \in DiskBlocks |-> IF b = m.addr THEN [w \in 0..BSIZE - 1 |-> v[1]]
                        ELSE IF b = m.table THEN m.entries ELSE block[b]]

\* The disk after bmap() result m, with the words o.. of data block m.addr
\* overwritten by v.
Written(m, o, v) ==
  [b \in DiskBlocks |->
     LET old == IF b = m.table THEN m.entries
                ELSE IF b \in m.new THEN Bzero(b) ELSE block[b]
     IN IF b = m.addr
        THEN [w \in DOMAIN old |-> IF w \in o..o + Len(v) - 1 THEN v[w - o + 1] ELSE old[w]]
        ELSE old]

(***************************************************************************)
(* mkfs.                                                                   *)
(***************************************************************************)

\* One round of the loop of iappend() and the size it ends by storing; the words it
\* appends are all of value 1.
IAppend(f, n) ==
  LET o == size[f] % BSIZE
      m == BMap(f, size[f] \div BSIZE, 1..freeblock - 1)
      v == [j \in 1..n |-> 1]
  IN /\ building
     /\ size[f] < MAXFILE * BSIZE /\ n <= BSIZE - o
     /\ freeblock - 1 + Cardinality(m.new) <= MaxImage
     /\ freeblock' = freeblock + Cardinality(m.new)
     /\ block' = Written(m, o, v)
     /\ addrs' = [addrs EXCEPT ![f] = m.addrs]
     /\ size' = [size EXCEPT ![f] = @ + n]
     /\ bytes' = [bytes EXCEPT ![f] = @ \o v]
     /\ UNCHANGED <<building, used, inode, off, write, logged, ioCalls, stopped>>

\* The end of mkfs: the root's size goes up to the next block boundary and the
\* bitmap marks every block below freeblock.  A root that ends at a boundary, which
\* would gain a whole block it has not been given, is not built.
BuildEnd ==
  LET rounded == (size[RootDir] \div BSIZE + 1) * BSIZE IN
  /\ building /\ size[RootDir] % BSIZE # 0
  /\ building' = FALSE
  /\ used' = 1..freeblock - 1
  /\ size' = [size EXCEPT ![RootDir] = rounded]
  /\ bytes' = [bytes EXCEPT ![RootDir] = @ \o [j \in 1..rounded - size[RootDir] |-> 0]]
  /\ UNCHANGED <<freeblock, block, addrs, inode, off, write, logged, ioCalls, stopped>>

(***************************************************************************)
(* The kernel.                                                             *)
(***************************************************************************)

Running == ~building /\ stopped = "no"

\* No process is inside writei() of inode f.
Unlocked(f) == \A p \in Writers : write[p].at = "writei" => inode[write[p].fd] # f

\* filewrite() that leaves no slop for writes that are not aligned.
MaxChunkAligned == ((MAXOPBLOCKS - 1 - 1) \div 2) * BSIZE

\* max of filewrite(): what one transaction may write.
MaxChunk == ((MAXOPBLOCKS - 1 - 1 - 2) \div 2) * BSIZE

\* n1 of filewrite().
Chunk(w) == Min({w.n - w.i, MaxChunk})

\* filewrite(d, n) up to its loop.
FileWrite(p, d, n, v) ==
  /\ Running /\ write[p].at = "out" /\ ioCalls < MaxCalls
  /\ write' = [write EXCEPT ![p] = [NoWrite EXCEPT !.at = "loop", !.fd = d, !.n = n, !.datum = v]]
  /\ ioCalls' = ioCalls + 1
  /\ UNCHANGED <<building, freeblock, used, block, inodes, inode, off, logged, stopped, bytes>>

\* begin_op(), ilock() and the tests of writei().
WriteI(p) ==
  LET w == write[p]
      f == inode[w.fd]
  IN /\ Running /\ w.at = "loop" /\ Unlocked(f)
     /\ write' = [write EXCEPT ![p] =
                    IF off[w.fd] > size[f] \/ off[w.fd] + Chunk(w) > MAXFILE * BSIZE
                    THEN NoWrite ELSE [w EXCEPT !.at = "writei", !.tot = 0]]
     /\ logged' = [logged EXCEPT ![p] = {}]
     /\ UNCHANGED <<building, freeblock, used, block, inodes, inode, off, ioCalls, stopped, bytes>>

\* s with the words after the first o overwritten by v.
Spliced(s, o, v) == [j \in 1..Max({Len(s), o + Len(v)}) |->
                       IF j \in o + 1..o + Len(v) THEN v[j - o] ELSE s[j]]

\* What writei() gives to log_write() with bmap() result m.
Logs(f, m) == {DataBlock(m.addr)} \cup {BBLOCK(b) : b \in m.new} \cup {DataBlock(b) : b \in m.new}
              \cup (IF m.table # 0 /\ m.new # {} THEN {DataBlock(m.table)} ELSE {})

\* One round of the loop of writei(); the last stores the size, and filewrite()
\* moves the offset, unlocks and ends the transaction.
WriteBlock(p) ==
  LET w == write[p]
      f == inode[w.fd]
      o == off[w.fd] + w.tot
      m == BMap(f, o \div BSIZE, used)
      len == Min({Chunk(w) - w.tot, BSIZE - (o % BSIZE)})
      done == w.tot + len
      last == done = Chunk(w)
  IN /\ Running /\ w.at = "writei"
     /\ IF m.addr = 0
        THEN stopped' = "balloc" /\ UNCHANGED <<used, block, inodes, off, write, logged, bytes>>
        ELSE /\ block' = Written(m, o % BSIZE, [j \in 1..len |-> w.datum])
             /\ used' = used \cup m.new
             /\ addrs' = [addrs EXCEPT ![f] = m.addrs]
             /\ size' = [size EXCEPT ![f] = IF last THEN Max({@, o + len}) ELSE @]
             /\ logged' = [logged EXCEPT ![p] = @ \cup Logs(f, m) \cup
                             IF last /\ o + len > size[f] THEN {<<"inode", f>>} ELSE {}]
             /\ off' = [off EXCEPT ![w.fd] = IF last THEN @ + done ELSE @]
             /\ bytes' = IF last
                         THEN [bytes EXCEPT ![f] =
                                 Spliced(@, off[w.fd], [j \in 1..done |-> w.datum])]
                         ELSE bytes
             /\ write' = [write EXCEPT ![p] =
                            IF ~last THEN [w EXCEPT !.tot = done]
                            ELSE IF w.i + done = w.n THEN NoWrite
                            ELSE [w EXCEPT !.at = "loop", !.i = @ + done]]
             /\ UNCHANGED stopped
     /\ UNCHANGED <<building, freeblock, inode, ioCalls>>

\* The block that holds word-block k of file f, 0 if there is none.
AddrOf(f, k) == IF k < NDIRECT THEN addrs[f][k]
                ELSE IF addrs[f][NDIRECT] = 0 THEN 0 ELSE block[addrs[f][NDIRECT]][k - NDIRECT]

\* fileread() and readi(): a block that bmap() had to allocate would be logged
\* outside a transaction.
FileRead(d, n) ==
  LET f == inode[d]
      end == Min({off[d] + n, size[f]})
  IN /\ Running /\ Unlocked(f)
     /\ off[d] < size[f] /\ ioCalls < MaxCalls
     /\ ioCalls' = ioCalls + 1
     /\ stopped' = IF \E k \in off[d] \div BSIZE..(end - 1) \div BSIZE : AddrOf(f, k) = 0
                   THEN "log_write" ELSE stopped
     /\ off' = [off EXCEPT ![d] = end]
     /\ UNCHANGED <<building, freeblock, used, block, inodes, inode, write, logged, bytes>>

\* The last close of d's file, and an open() of f in its place.
Reopen(d, f) ==
  /\ Running /\ \A p \in Writers : write[p].at # "out" => write[p].fd # d
  /\ inode' = [inode EXCEPT ![d] = f]
  /\ off' = [off EXCEPT ![d] = 0]
  /\ UNCHANGED <<building, freeblock, used, block, inodes, write, logged, ioCalls, stopped, bytes>>

\* What the loops of itrunc() free, the indirect block last.
Frees(f) == ({addrs[f][k] : k \in 0..NDIRECT} \cup
             IF addrs[f][NDIRECT] = 0 THEN {} ELSE Range(block[addrs[f][NDIRECT]])) \ {0}

\* itrunc() of an inode without links that no open file refers to.
ITrunc(f) ==
  /\ Running /\ size[f] > 0 /\ \A d \in OpenFiles : inode[d] # f
  /\ stopped' = IF Frees(f) \subseteq used THEN stopped ELSE "bfree"
  /\ used' = used \ Frees(f)
  /\ addrs' = [addrs EXCEPT ![f] = [k \in 0..NDIRECT |-> 0]]
  /\ size' = [size EXCEPT ![f] = 0]
  /\ bytes' = [bytes EXCEPT ![f] = <<>>]
  /\ UNCHANGED <<building, freeblock, block, inode, off, write, logged, ioCalls>>

Char == CHOOSE c \in [Writers -> Chars] : IsInjective(c)

FDNext == \/ BuildEnd
          \/ \E f \in Files : ITrunc(f) \/ \E n \in Lengths : IAppend(f, n)
          \/ \E p \in Writers : \/ WriteI(p) \/ WriteBlock(p)
                                \/ \E d \in OpenFiles, n \in Lengths : FileWrite(p, d, n, Char[p])
          \/ \E d \in OpenFiles : \/ \E n \in Lengths : FileRead(d, n)
                                  \/ \E f \in Files : Reopen(d, f)

(***************************************************************************)
(* Properties.                                                             *)
(***************************************************************************)

\* The blocks of file f, its indirect block included.
Owned(f) == ({AddrOf(f, k) : k \in 0..MAXFILE - 1} \cup {addrs[f][NDIRECT]}) \ {0}


Contents(f) == [j \in 1..size[f] |->
                  LET b == AddrOf(f, (j - 1) \div BSIZE)
                  IN IF b = 0 THEN -1 ELSE block[b][(j - 1) % BSIZE]]

\* A file reads back as what was written to it, whatever other files, other open
\* files of the same inode and earlier owners of its blocks did.
ContentsMatch == \A f \in Files : Unlocked(f) => Contents(f) = bytes[f]

\* Every transaction of filewrite() fits in what begin_op() reserved for it, with
\* every bitmap block a different one.
TransactionFits == \A p \in Writers : Cardinality(logged[p]) <= MAXOPBLOCKS

================================================================================
