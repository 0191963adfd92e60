------------------------------ MODULE RunQueue ------------------------------
(***************************************************************************)
(* What the skip list of proc.c promises to the scheduler: a queue of      *)
(* processes ordered by virtual deadline, first come first served among    *)
(* equal deadlines, that only ever loses its minimum.                      *)
(*                                                                         *)
(* The queue is a function from the queued pids to the deadline stored in  *)
(* their node, and the order of the list as a strict order on those pids.  *)
(***************************************************************************)
EXTENDS Integers

VARIABLES
    queue,   \* pid of a queued process -> node->virtual_deadline
    before   \* <<x, y>>: the node of x comes before the node of y in the list

rqVars == <<queue, before>>

Queued == DOMAIN queue

\* x is the pid get_minimum returns: the first of the level 0 list
IsMinimum(x) == x \in Queued /\ \A y \in Queued \ {x} : <<x, y>> \in before

Joined(new) ==
    [x \in Queued \cup DOMAIN new |-> IF x \in DOMAIN new THEN new[x] ELSE queue[x]]

\* Where insert_node puts the nodes: after every smaller or equal deadline.
\* The new ones arrive in the order `arrival'.
Merged(dl, new, arrival) ==
    {e \in (DOMAIN dl) \X (DOMAIN dl) :
        \/ dl[e[1]] < dl[e[2]]
        \/ /\ dl[e[1]] = dl[e[2]]
           /\ \/ e \in before
              \/ e[1] \in Queued /\ e[2] \in DOMAIN new
              \/ e \in arrival}

Enqueue(new, arrival) ==
    /\ queue' = Joined(new)
    /\ before' = Merged(Joined(new), new, arrival)

Dequeue(x) ==
    /\ queue' = [y \in Queued \ {x} |-> queue[y]]
    /\ before' = {e \in before : e[1] # x /\ e[2] # x}

-----------------------------------------------------------------------------
RQInit == queue = [x \in {} |-> 0] /\ before = {}

\* A strict total order on S
TotalOrder(R, S) ==
    /\ R \subseteq S \X S
    /\ \A x \in S : <<x, x>> \notin R
    /\ \A x, y \in S : x = y \/ <<x, y>> \in R \/ <<y, x>> \in R
    /\ \A x, y, z \in S : <<x, y>> \in R /\ <<y, z>> \in R => <<x, z>> \in R

\* The processes that join are new to the queue and in some order of arrival
Arrive ==
    LET W == DOMAIN queue' \ Queued
        arrival == before' \cap (W \X W)
    IN  /\ W # {}
        /\ TotalOrder(arrival, W)
        /\ Enqueue([x \in W |-> queue'[x]], arrival)

\* Only the minimum leaves
Leave == \E x \in Queued : IsMinimum(x) /\ Dequeue(x)

RQNext == Arrive \/ Leave

RQSpec == RQInit /\ [][RQNext]_rqVars

-----------------------------------------------------------------------------
\* The list is in the order of the deadlines and holds no process twice
QueueOrdered ==
    /\ TotalOrder(before, Queued)
    /\ \A x, y \in Queued : <<x, y>> \in before => queue[x] <= queue[y]
=============================================================================
