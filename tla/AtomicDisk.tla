------------------------------ MODULE AtomicDisk ------------------------------
(***************************************************************************)
(* What log.c promises to the file system above it: the blocks the disk    *)
(* holds after a crash are the blocks as they were at some instant when no *)
(* file-system call was in progress, so each call is there as a whole or   *)
(* not at all.                                                             *)
(***************************************************************************)
CONSTANTS Blocks, Procs, Data

VARIABLES durable,   \* what the file system would find after a crash
          volatile,  \* what the file-system calls read and write now
          active     \* the processes inside begin_op() ... end_op()

avars == <<durable, volatile, active>>

ADInit == /\ durable \in [Blocks -> Data]
          /\ volatile = durable
          /\ active = {}

Begin == /\ \E p \in Procs \ active : active' = active \cup {p}
         /\ UNCHANGED <<durable, volatile>>

End == /\ \E p \in active : active' = active \ {p}
       /\ UNCHANGED <<durable, volatile>>

\* Only a process inside an operation changes a block.
Store == /\ active # {}
         /\ \E b \in Blocks, d \in Data : volatile' = [volatile EXCEPT ![b] = d]
         /\ UNCHANGED <<durable, active>>

\* All that was written becomes durable at once, and never half a call.
Harden == /\ active = {}
          /\ durable' = volatile
          /\ UNCHANGED <<volatile, active>>

\* A crash ends the calls in progress and forgets what was not durable.
Lose == /\ volatile' = durable
        /\ active' = {}
        /\ UNCHANGED durable

ADNext == Begin \/ End \/ Store \/ Harden \/ Lose

ADSpec == ADInit /\ [][ADNext]_avars
================================================================================
