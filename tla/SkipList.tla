------------------------------ MODULE SkipList ------------------------------
(***************************************************************************)
(* The skip list of proc.c at the level of its nodes and pointers, used    *)
(* under ptable.lock: insert_node and delete_node are single steps.  The   *)
(* scheduler deletes only the process that get_minimum returned.           *)
(*                                                                         *)
(* A node is the page kalloc returned; the page of the node of process x   *)
(* at level l is named <<x, l>>, the header of level l is <<HEADER, l>>.   *)
(***************************************************************************)
EXTENDS Integers, FiniteSets, TLC

CONSTANTS
    SKIPLIST_LEVELS,   \* levels of the list
    Procs,             \* pids of the processes that use it
    Deadlines,         \* values of p->virtual_deadline
    Pages              \* pages kalloc has for nodes

NULL == <<>>
HEADER == -1
Header(l) == <<HEADER, l>>
TopLevel == SKIPLIST_LEVELS - 1
Levels == 0..TopLevel

ASSUME LevelsAssumption == SKIPLIST_LEVELS \in Nat \ {0}
ASSUME ProcsAssumption == Procs \subseteq Nat

VARIABLES
    node,              \* the allocated nodes
    virtual_deadline,  \* p->virtual_deadline
    max_level,         \* p->max_level
    listed,            \* the processes inserted and not deleted since
    ub                 \* undefined behaviour met: the machine's state is open

vars == <<node, virtual_deadline, max_level, listed, ub>>

Defined == ub = "none"

-----------------------------------------------------------------------------
\* The headers, with deadline d; the forward pointer of level 0 stays unset
\* and is never followed
Headers(d) ==
    [a \in {Header(l) : l \in Levels} |->
        [pid |-> HEADER, vd |-> d, next |-> NULL, prev |-> NULL,
         forward |-> IF a[2] > 0 THEN Header(a[2] - 1) ELSE NULL]]

init_skiplist == Headers(-1)

\* Link a new node of process x at level l after prev
insert_singly(h, x, d, l, prev, forward) ==
    (<<x, l>> :> [pid |-> x, vd |-> d, next |-> h[prev].next, prev |-> prev,
                  forward |-> forward])
    @@ [h EXCEPT ![prev].next = <<x, l>>]
insert_to_level(h, x, d, l, prev, forward) ==
    LET next == h[prev].next
        linked == insert_singly(h, x, d, l, prev, forward)
    IN  IF next = NULL THEN linked ELSE [linked EXCEPT ![next].prev = <<x, l>>]

\* The last node of cur's level, from cur on, that d comes after
RECURSIVE AdvanceStrictly(_, _, _)
AdvanceStrictly(h, d, cur) ==
    LET next == h[cur].next
    IN  IF next # NULL /\ d > h[next].vd THEN AdvanceStrictly(h, d, next) ELSE cur
RECURSIVE Advance(_, _, _)
Advance(h, d, cur) ==
    LET next == h[cur].next
    IN  IF next # NULL /\ d >= h[next].vd THEN Advance(h, d, next) ELSE cur

\* prev_nodes: the search of insert_node, from the top level down
PrevNodes(h, d) ==
    LET prev[l \in Levels] ==
            Advance(h, d, IF l = TopLevel THEN Header(l) ELSE h[prev[l + 1]].forward)
    IN  prev

\* The insertion of insert_node, from level 0 up to level top
Tower(h, x, d, top) ==
    LET prev == PrevNodes(h, d)
        built[l \in 0..top] ==
            insert_to_level(IF l = 0 THEN h ELSE built[l - 1], x, d, l, prev[l],
                            IF l = 0 THEN NULL ELSE <<x, l - 1>>)
    IN  built[top]

\* randomize_max_level(TopLevel): its loop runs while the level is <= TopLevel
RandomLevels == 0..(TopLevel + 1)

\* The first loop of delete_node
RECURSIVE Seek(_, _, _, _)
Seek(h, x, d, cur) ==
    IF h[cur].vd < d /\ h[cur].pid # x /\ h[cur].next # NULL
    THEN Seek(h, x, d, h[cur].next) ELSE cur

\* The second: back to a smaller deadline, or off the front of the list
RECURSIVE Back(_, _, _)
Back(h, d, cur) ==
    IF cur # NULL /\ h[cur].vd >= d THEN Back(h, d, h[cur].prev) ELSE cur

\* The search of delete_node from cur at level l down: the node found and
\* whether a NULL pointer was followed on the way
RECURSIVE Locate(_, _, _, _, _)
Locate(h, x, d, cur, l) ==
    IF l < 0 THEN [at |-> NULL, bad |-> FALSE]
    ELSE LET found == Seek(h, x, d, cur)
             back == Back(h, d, found)
         IN  IF h[found].pid = x /\ h[found].vd = d THEN [at |-> found, bad |-> FALSE]
             ELSE IF back = NULL THEN [at |-> NULL, bad |-> TRUE]
             ELSE Locate(h, x, d, h[back].forward, l - 1)

\* Unlink and kfree a node, and the nodes below it
delete_from_level(h, n) ==
    LET prev == h[n].prev
        next == h[n].next
        unlinked == [h EXCEPT ![prev].next = next]
        both == IF next = NULL THEN unlinked ELSE [unlinked EXCEPT ![next].prev = prev]
    IN  [a \in DOMAIN both \ {n} |-> both[a]]
RECURSIVE delete_from_levels(_, _)
delete_from_levels(h, n) ==
    IF n = NULL THEN h ELSE delete_from_levels(delete_from_level(h, n), h[n].forward)

\* The pid get_minimum returns, when there is one
HasMinimum == node[Header(0)].next # NULL
get_minimum == node[node[Header(0)].next].pid

-----------------------------------------------------------------------------
\* insert_node(skiplist, p) with the level top drawn for it.  A level beyond
\* the list uses prev_nodes[SKIPLIST_LEVELS], which nothing has set; kalloc
\* without a free page returns 0, which nothing checks.
insert_node(x, d, top) ==
    /\ Defined /\ x \notin listed
    /\ virtual_deadline' = [virtual_deadline EXCEPT ![x] = d]
    /\ max_level' = [max_level EXCEPT ![x] = top]
    /\ listed' = listed \cup {x}
    /\ LET levels == 0..top
           pages == Cardinality(DOMAIN node) + Cardinality(levels)
       IN  IF pages > Pages THEN ub' = "kalloc returned 0" /\ UNCHANGED node
           ELSE IF top > TopLevel THEN ub' = "prev_nodes overrun" /\ UNCHANGED node
           ELSE node' = Tower(node, x, d, top) /\ UNCHANGED ub

\* delete_node(skiplist, p) of the minimum
delete_node(x) ==
    LET loc == Locate(node, x, virtual_deadline[x], Header(TopLevel), TopLevel)
    IN  /\ Defined /\ HasMinimum /\ x = get_minimum
        /\ node' = IF loc.at = NULL THEN node ELSE delete_from_levels(node, loc.at)
        /\ ub' = IF loc.bad THEN "NULL dereference" ELSE ub
        /\ max_level' = [max_level EXCEPT ![x] = -1]
        /\ listed' = listed \ {x}
        /\ UNCHANGED virtual_deadline

\* After undefined behaviour nothing more is known
Undefined == ~Defined /\ UNCHANGED vars

Init ==
    /\ node = init_skiplist
    /\ virtual_deadline = [x \in Procs |-> 0] /\ max_level = [x \in Procs |-> 0]
    /\ listed = {} /\ ub = "none"

Next ==
    \/ \E x \in Procs, d \in Deadlines, top \in RandomLevels : insert_node(x, d, top)
    \/ \E x \in Procs : delete_node(x)
    \/ Undefined

Spec == Init /\ [][Next]_vars

-----------------------------------------------------------------------------
\* The nodes after cur in its level, in order
RECURSIVE Chain(_, _)
Chain(h, cur) == IF h[cur].next = NULL THEN {} ELSE {h[cur].next} \cup Chain(h, h[cur].next)

\* The nodes linked into level l
OnLevel(l) == Chain(node, Header(l))

\* delete_node always finds the process the scheduler is about to run, at its
\* highest level, and takes every node of it out and back to kalloc: the
\* allocated nodes are the headers and, for each listed process, one linked
\* node on each level up to p->max_level
TowersComplete ==
    /\ DOMAIN node =
          {Header(l) : l \in Levels} \cup
          {a \in Procs \X Levels : a[1] \in listed /\ a[2] <= max_level[a[1]]}
    /\ \A l \in Levels : OnLevel(l) = {a \in DOMAIN node : a[2] = l /\ a[1] # HEADER}

\* What the descent of insert_node and delete_node relies on: next and prev
\* agree, forward goes to the node of the same process one level down, and the
\* nodes of a level are in the same order as one level down
LevelsAgree ==
    \A a \in DOMAIN node :
        /\ node[a].next # NULL => node[node[a].next].prev = a
        /\ a[2] > 0 =>
              /\ node[a].forward = <<a[1], a[2] - 1>>
              /\ \A b \in Chain(node, a) : node[b].forward \in Chain(node, node[a].forward)

\* The list is well formed after every call of insert_node and delete_node, and
\* none of them follows a NULL pointer on the way
WellFormed == /\ ub # "NULL dereference"
              /\ Defined => TowersComplete /\ LevelsAgree

\* The level 0 list as the queue of RunQueue
RQ == INSTANCE RunQueue WITH
        queue <- [x \in {a[1] : a \in OnLevel(0)} |-> node[<<x, 0>>].vd],
        before <- {<<a[1], b[1]>> : <<a, b>> \in
                      {e \in OnLevel(0) \X OnLevel(0) : e[2] \in Chain(node, e[1])}}

\* The skip list implements the deadline queue: a process is inserted after
\* every smaller or equal deadline, and only the minimum is taken out
ImplementsRunQueue == RQ!RQSpec

=============================================================================
