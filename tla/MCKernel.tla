------------------------------- MODULE MCKernel --------------------------------
(***************************************************************************)
(* Components that share no state, checked side by side: a behaviour is    *)
(* one of the skip list, spin-locks, buffer cache and disk, console input  *)
(* or keyboard, chosen at the start; the others do nothing.                *)
(***************************************************************************)
EXTENDS SkipList, SpinLock, BufCache, Console, Keyboard

VARIABLE part

Parts == {"skiplist", "spinlock", "buffers", "console", "keyboard"}

KernelInit == part \in Parts /\ Init /\ SpinInit /\ BufInit /\ ConInit /\ KbdInit

KernelNext ==
  /\ UNCHANGED part
  /\ \/ part = "skiplist" /\ Next /\ UNCHANGED <<spinVars, bufVars, conVars, kbdVars>>
     \/ part = "spinlock" /\ SpinNext /\ UNCHANGED <<vars, bufVars, conVars, kbdVars>>
     \/ part = "buffers" /\ BufNext /\ UNCHANGED <<vars, spinVars, conVars, kbdVars>>
     \/ part = "console" /\ ConNext /\ UNCHANGED <<vars, spinVars, bufVars, kbdVars>>
     \/ part = "keyboard" /\ KbdNext /\ UNCHANGED <<vars, spinVars, bufVars, conVars>>

\* The parts share model values, so that few permutations serve all of them: buffer
\* users, readers and CPUs, and kernel threads, are interchangeable.
Symmetry == Permutations(Users) \cup Permutations(Threads)
================================================================================
