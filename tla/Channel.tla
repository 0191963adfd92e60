------------------------------- MODULE Channel -------------------------------
(***************************************************************************)
(* What a pipe promises: bytes come out in the order they went in, none is *)
(* lost or repeated, and end of file is reported only when nobody can      *)
(* write any more and everything has been read.                            *)
(***************************************************************************)
EXTENDS Naturals, Sequences

CONSTANTS Bytes, Capacity

VARIABLES chan,   \* the bytes in transit
          ends,   \* the ends that are open, of "r" and "w"
          got     \* what the last step delivered to a reader

Nothing == <<"none", <<>>>>

cvars == <<chan, ends, got>>

CInit == chan = <<>> /\ ends = {} /\ got = Nothing

Open == /\ ends = {} /\ ends' = {"r", "w"}
        /\ chan' = <<>> /\ got' = Nothing

Put == /\ "w" \in ends
       /\ Len(chan') <= Capacity
       /\ Len(chan') >= Len(chan) /\ SubSeq(chan', 1, Len(chan)) = chan
       /\ got' = Nothing
       /\ UNCHANGED ends

Take == /\ "r" \in ends
        /\ \E k \in 1..Len(chan) : /\ got' = <<"bytes", SubSeq(chan, 1, k)>>
                                   /\ chan' = SubSeq(chan, k + 1, Len(chan))
        /\ UNCHANGED ends

Eof == /\ "r" \in ends /\ "w" \notin ends
       /\ chan = <<>> /\ got' = <<"eof", <<>>>>
       /\ UNCHANGED <<chan, ends>>

Shut == /\ \E e \in ends : ends' = ends \ {e}
        /\ chan' = IF ends' = {} THEN <<>> ELSE chan
        /\ got' = Nothing

\* A step that delivers nothing.
Quiet == got' = Nothing /\ UNCHANGED <<chan, ends>>

CNext == Quiet \/ Open \/ Put \/ Take \/ Eof \/ Shut

CSpec == CInit /\ [][CNext]_cvars
================================================================================
