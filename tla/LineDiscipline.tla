----------------------------- MODULE LineDiscipline -----------------------------
(***************************************************************************)
(* What the console promises its readers: characters in the order typed,   *)
(* a line at a time, with the line being typed open to correction.         *)
(***************************************************************************)
EXTENDS Naturals, Sequences

CONSTANTS Capacity, Chars  \* Chars: characters other than the editing keys

VARIABLES ready,  \* finished lines that nobody has read
          line    \* the line being typed

Ends == {"nl", "eof"}

LDInit == ready = <<>> /\ line = <<>>

Type(c) == /\ Len(ready) + Len(line) < Capacity
           /\ IF c \in Ends \/ Len(ready) + Len(line) + 1 = Capacity
              THEN ready' = ready \o Append(line, c) /\ line' = <<>>
              ELSE line' = Append(line, c) /\ UNCHANGED ready

\* The last character, or all of the line.
Correct == \E k \in 0..Len(line) : /\ k \in {0, Len(line) - 1}
                                   /\ line' = SubSeq(line, 1, k)
                                   /\ UNCHANGED ready

\* A read takes the front of what is ready, up to the end of a line at most.
Read == \E k \in 1..Len(ready) : /\ \A j \in 1..k - 1 : ready[j] \notin Ends
                                 /\ ready' = SubSeq(ready, k + 1, Len(ready))
                                 /\ UNCHANGED line

LDNext == Correct \/ Read \/ \E c \in Chars : Type(c)

LDSpec == LDInit /\ [][LDNext]_<<ready, line>>
================================================================================
