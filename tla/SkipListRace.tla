---------------------------- MODULE SkipListRace ----------------------------
(***************************************************************************)
(* nicefork and userinit call insert_node after they release ptable.lock.  *)
(* Here one such call runs in its own steps (the search for prev_nodes,    *)
(* then one insert_to_level per level) and the uses of the list under the  *)
(* lock, whole insert_node and delete_node calls of schedulers and wakeups *)
(* on other CPUs or from interrupts, run in between.                       *)
(***************************************************************************)
EXTENDS SkipList

VARIABLE ins   \* the unlocked insert_node in progress, or Idle

raceVars == <<vars, ins>>

Idle == [x |-> HEADER, level |-> 0, prev_nodes |-> <<>>, forward |-> NULL]

\* The deadline, the level and the search of an unlocked insert_node
RaceSearch(x, d, top) ==
    /\ Defined /\ ins = Idle /\ x \notin listed /\ top <= TopLevel
    /\ virtual_deadline' = [virtual_deadline EXCEPT ![x] = d]
    /\ max_level' = [max_level EXCEPT ![x] = top]
    /\ ins' = [x |-> x, level |-> 0, prev_nodes |-> PrevNodes(node, d), forward |-> NULL]
    /\ UNCHANGED <<node, listed, ub>>

\* One round of its insertion loop, which reads p->max_level again each time.
\* The previous node may be gone by now.
RaceInsert ==
    LET x == ins.x
        prev == ins.prev_nodes[ins.level]
    IN  /\ Defined /\ ins # Idle /\ ins.level <= max_level[x]
        /\ IF prev \in DOMAIN node
           THEN /\ node' = insert_to_level(node, x, virtual_deadline[x], ins.level, prev,
                                         ins.forward)
                /\ UNCHANGED ub
           ELSE ub' = "freed node" /\ UNCHANGED node
        /\ listed' = IF ins.level = 0 THEN listed \cup {x} ELSE listed
        /\ ins' = [ins EXCEPT !.level = @ + 1, !.forward = <<x, ins.level>>]
        /\ UNCHANGED <<virtual_deadline, max_level>>

RaceDone ==
    /\ Defined /\ ins # Idle /\ ins.level > max_level[ins.x]
    /\ ins' = Idle /\ UNCHANGED vars

\* A use of the list under ptable.lock
Locked ==
    /\ \/ \E x \in Procs \ {ins.x}, d \in Deadlines, top \in Levels : insert_node(x, d, top)
       \/ \E x \in Procs : delete_node(x)
    /\ UNCHANGED ins

RaceInit == Init /\ ins = Idle

RaceNext ==
    \/ \E x \in Procs, d \in Deadlines, top \in Levels : RaceSearch(x, d, top)
    \/ RaceInsert \/ RaceDone \/ Locked

RaceSpec == RaceInit /\ [][RaceNext]_raceVars

-----------------------------------------------------------------------------
\* README.md: the list maintains an ordered structure of the processes based on
\* their virtual deadlines.  Neighbours in the list are in deadline order.
DeadlineOrder ==
    \A a \in DOMAIN node :
        node[a].next # NULL => node[a].vd <= node[node[a].next].vd
=============================================================================
