--------------------------- MODULE LevelGenerator ---------------------------
(***************************************************************************)
(* The random levels of insert_node: the 32 bit generator random() and     *)
(* randomize_max_level, from the seed the kernel boots with.  The seed is  *)
(* an int; it is kept as two halves of 16 bits, in two's complement.       *)
(***************************************************************************)
EXTENDS Integers, Bitwise

CONSTANTS
    SKIPLIST_LEVELS,
    Insertions         \* bound on the number of insert_node calls

VARIABLES seed, max_level, inserted

vars == <<seed, max_level, inserted>>

W == 2^16
Word(hi, lo) == [hi |-> hi, lo |-> lo]
XorWord(a, b) == Word(a.hi ^^ b.hi, a.lo ^^ b.lo)

\* int seed = 1234567
Seed0 == Word(1234567 \div W, 1234567 % W)

\* The shifts of an int: << drops the high bits, >> repeats the sign bit
ShiftLeft17(a) == Word((2 * a.lo) % W, 0)
ShiftRight7(a) ==
    Word((a.hi \div 2^7) + (IF a.hi >= 2^15 THEN W - 2^9 ELSE 0),
         ((a.hi % 2^7) * 2^9) + (a.lo \div 2^7))
ShiftLeft5(a) == Word(((2^5 * a.hi) % W) + (a.lo \div 2^11), (2^5 * a.lo) % W)

\* The seed after a call of random()
NextSeed(a) ==
    LET b == XorWord(a, ShiftLeft17(a))
        c == XorWord(b, ShiftRight7(b))
    IN  XorWord(c, ShiftLeft5(c))

\* random(4) == 0
IsZero(a) == a.lo % 4 = 0

\* The loop of randomize_max_level goes on
Continues(level) == level <= SKIPLIST_LEVELS - 1

\* randomize_max_level from the seed a with insertion_max_level = level: the
\* level it returns and the seed it leaves
RECURSIVE randomize_max_level(_, _)
randomize_max_level(a, level) ==
    IF ~Continues(level) THEN [seed |-> a, level |-> level]
    ELSE LET b == NextSeed(a)
         IN  IF IsZero(b) THEN randomize_max_level(b, level + 1)
             ELSE [seed |-> b, level |-> level]

insert_node ==
    LET r == randomize_max_level(seed, 0)
    IN  /\ inserted < Insertions
        /\ inserted' = inserted + 1
        /\ seed' = r.seed /\ max_level' = r.level

Init == seed = Seed0 /\ max_level = 0 /\ inserted = 0

Done == inserted = Insertions /\ UNCHANGED vars

Next == insert_node \/ Done

Spec == Init /\ [][Next]_vars

-----------------------------------------------------------------------------
\* insert_node inserts "given previous nodes per level": every level it inserts
\* at is a level of the list, for which its search has set prev_nodes
LevelInList == max_level <= SKIPLIST_LEVELS - 1
=============================================================================
