-------------------------------- MODULE Console --------------------------------
(***************************************************************************)
(* The console's input (console.c): characters arrive by interrupt from    *)
(* the keyboard and the serial line, are edited in a circular buffer, and  *)
(* are read by processes that sleep until a line is there.                 *)
(*                                                                         *)
(* cons.lock is held throughout, except while a process sleeps, so a       *)
(* stretch between two sleeps is one step.  kill() does not take it: it    *)
(* may come between the test of killed and sleep().                        *)
(***************************************************************************)
EXTENDS Integers, Sequences, FiniteSetsExt

CONSTANTS Readers,
          INPUT_BUF,
          UWRAP,      \* values of an index, a multiple of INPUT_BUF
          Requests    \* the n a read may ask for

ASSUME ConsoleAssumption == /\ INPUT_BUF \in Nat \ {0} /\ UWRAP \in Nat
                            /\ UWRAP > INPUT_BUF /\ UWRAP % INPUT_BUF = 0
                            /\ Requests \subseteq Nat \ {0}

\* An ordinary character, the end of a line and Control-D.
Keys == {"x", "nl", "eof"}

VARIABLES
  input,   \* buf, and the indices r, w and e
  reader   \* of each process: where it is in consoleread(), n, target, killed

conVars == <<input, reader>>

NotReading == [at |-> "out", n |-> 0, target |-> 0, killed |-> FALSE]

ConInit == /\ input = [buf |-> [k \in 0..INPUT_BUF - 1 |-> "junk"], r |-> 0, w |-> 0, e |-> 0]
           /\ reader = [p \in Readers |-> NotReading]

\* a - b of unsigned integers
Minus(a, b) == (a - b) % UWRAP

Plus(a, b) == (a + b) % UWRAP
CharAt(k) == input.buf[k % INPUT_BUF]

ConsLockFree == \A p \in Readers : reader[p].at # "to sleep"

\* No wakeup.
WakeReadersNone == reader

\* wakeup(&input.r)
WakeReaders == [p \in Readers |-> IF reader[p].at = "asleep" THEN [reader[p] EXCEPT !.at = "in"]
                                  ELSE reader[p]]

\* Room tested against the finished lines only.
HasRoomFromW == Minus(input.e, input.w) < INPUT_BUF

\* input.e - input.r < INPUT_BUF
HasRoom == Minus(input.e, input.r) < INPUT_BUF

\* The character ends a line, or leaves no room for more.
EndsLine(c, e) == c \in {"nl", "eof"} \/ e = Plus(input.r, INPUT_BUF)

\* The default case of consoleintr().
Typed(c) ==
  LET e == Plus(input.e, 1) IN
  /\ ConsLockFree /\ HasRoom
  /\ input' = [input EXCEPT !.buf[input.e % INPUT_BUF] = c, !.e = e,
                            !.w = IF EndsLine(c, e) THEN e ELSE @]
  /\ reader' = IF EndsLine(c, e) THEN WakeReaders ELSE reader

\* Backspace
Backspace ==
  /\ ConsLockFree /\ input.e # input.w
  /\ input' = [input EXCEPT !.e = Minus(@, 1)]
  /\ UNCHANGED reader

\* Control-U: back to the start of the line or to w.
KillLine ==
  LET back == {k \in 0..Minus(input.e, input.w) :
                 \A j \in 1..k : CharAt(Minus(input.e, j)) # "nl"}
  IN /\ ConsLockFree /\ input.e # input.w
     /\ input' = [input EXCEPT !.e = Minus(@, Max(back))]
     /\ UNCHANGED reader

\* consoleread(n) up to acquire().
ConsoleRead(p, n) ==
  /\ reader[p].at = "out" /\ ~reader[p].killed
  /\ reader' = [reader EXCEPT ![p] = [at |-> "in", n |-> n, target |-> n, killed |-> FALSE]]
  /\ UNCHANGED input

Avail == Minus(input.w, input.r)

\* The positions, from 1, of the characters that end a read of n.
Stops(n) == {j \in 1..Min({n, Avail}) : CharAt(Plus(input.r, j - 1)) \in {"nl", "eof"}}

\* A Control-D met after other characters is dropped.
KeptForNextNever(q, j) == FALSE

\* A Control-D met after other characters of the same read stays for the next one.
KeptForNext(q, j) == CharAt(Plus(input.r, j - 1)) = "eof" /\ q.n - (j - 1) < q.target

\* consoleread() to its return, or to sleep().
ReadOn(p) ==
  LET q == reader[p]
      j == Min(Stops(q.n))
  IN /\ ConsLockFree /\ q.at = "in"
     /\ \/ /\ Stops(q.n) # {}
           /\ input' = [input EXCEPT !.r = Plus(@, IF KeptForNext(q, j) THEN j - 1 ELSE j)]
           /\ reader' = [reader EXCEPT ![p] = [NotReading EXCEPT !.killed = q.killed]]
        \/ /\ Stops(q.n) = {} /\ q.n <= Avail
           /\ input' = [input EXCEPT !.r = Plus(@, q.n)]
           /\ reader' = [reader EXCEPT ![p] = [NotReading EXCEPT !.killed = q.killed]]
        \/ /\ Stops(q.n) = {} /\ q.n > Avail
           /\ input' = [input EXCEPT !.r = input.w]
           /\ reader' = [reader EXCEPT ![p] =
                           IF q.killed THEN [NotReading EXCEPT !.killed = TRUE]
                           ELSE [q EXCEPT !.at = "to sleep", !.n = @ - Avail]]

\* sleep(&input.r, &cons.lock)
ConSleep(p) ==
  /\ reader[p].at = "to sleep"
  /\ reader' = [reader EXCEPT ![p].at = "asleep"]
  /\ UNCHANGED input

\* kill(); a process that is killed exits once it is out, and its slot is used again.
ConKill(p) ==
  /\ reader' = [reader EXCEPT ![p] =
                  IF @.killed THEN IF @.at = "out" THEN NotReading ELSE @
                  ELSE [@ EXCEPT !.killed = TRUE, !.at = IF @ = "asleep" THEN "in" ELSE @]]
  /\ UNCHANGED input

ConNext == \/ Backspace \/ KillLine
           \/ \E c \in Keys : Typed(c)
           \/ \E p \in Readers : \/ ReadOn(p) \/ ConSleep(p) \/ ConKill(p)
                                 \/ \E n \in Requests : ConsoleRead(p, n)

ConSpec == ConInit /\ [][ConNext]_conVars

(***************************************************************************)
(* Properties.                                                             *)
(***************************************************************************)

\* Nobody sleeps on a line that is there: w moves only together with a wakeup(),
\* and a reader that finds something left after another one does not go to sleep.
ReadersJustified == \A p \in Readers : reader[p].at = "asleep" => input.r = input.w

Slice(from, to) == [k \in 1..Minus(to, from) |-> CharAt(Plus(from, k - 1))]

LD == INSTANCE LineDiscipline WITH
        Capacity <- INPUT_BUF, Chars <- Keys,
        ready <- Slice(input.r, input.w), line <- Slice(input.w, input.e)

\* The circular buffer with its three free-running indices is a queue of lines and
\* a line being edited: nothing unread is overwritten, a read does not go past the
\* end of a line, and editing stops at what is already available.
LineSpec == LD!LDSpec

\* Control-D is the end of the input for one read() only, and for a read() of its own:
\* when it is taken out, the read that takes it has returned nothing else.
EofAlone ==
  [][\A p \in Readers :
       reader[p].at = "in" /\ reader'[p].at = "out" /\ input'.r # input.r
         => LET last == CharAt(Minus(input'.r, 1)) IN
            last = "eof" => reader[p].n = reader[p].target /\ input'.r = Plus(input.r, 1)]_conVars
================================================================================
