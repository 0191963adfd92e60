-------------------------------- MODULE MCPipe --------------------------------
\* Symmetry for the runs of Pipe: processes are interchangeable.
EXTENDS Pipe, TLC

Symmetry == Permutations(Procs)
================================================================================
