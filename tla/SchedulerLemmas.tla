-------------------------- MODULE SchedulerLemmas ---------------------------
(***************************************************************************)
(* Facts about the scheduler's operators that the proofs of its actions    *)
(* share.                                                                  *)
(***************************************************************************)
EXTENDS Scheduler, RunQueueProofs

USE NPROCAssumption, CPUAssumption, QuantumAssumption, NiceAssumption
    DEF None, Slots, initproc

\* The pids of a set of slots in use are in the order of the slots
LEMMA PidOrder ==
    ASSUME TypeOK, UniquePids, NEW S \in SUBSET Slots, \A s \in S : pid[s] # None,
           NEW R, TotalOrder(R, S)
    PROVE  TotalOrder({<<pid[e[1]], pid[e[2]]>> : e \in R}, {pid[s] : s \in S})
  <1> DEFINE P == {<<pid[e[1]], pid[e[2]]>> : e \in R}
  <1>1. \A s, t \in S : pid[s] = pid[t] => s = t
    BY DEF UniquePids
  <1>2. ASSUME NEW s \in S, NEW t \in S
        PROVE  <<pid[s], pid[t]>> \in P <=> <<s, t>> \in R
    <2>1. <<s, t>> \in R => <<pid[s], pid[t]>> \in P
      OBVIOUS
    <2>2. ASSUME <<pid[s], pid[t]>> \in P PROVE <<s, t>> \in R
      <3>1. PICK e \in R : <<pid[s], pid[t]>> = <<pid[e[1]], pid[e[2]]>>
        BY <2>2
      <3>2. e \in S \X S
        BY DEF TotalOrder
      <3>3. e[1] \in S /\ e[2] \in S /\ e = <<e[1], e[2]>>
        BY <3>2
      <3>4. pid[s] = pid[e[1]] /\ pid[t] = pid[e[2]]
        BY <3>1
      <3>5. e[1] = s /\ e[2] = t
        BY <1>1, <3>3, <3>4
      <3> QED BY <3>1, <3>3, <3>5
    <2> QED BY <2>1, <2>2
  <1>3. P \subseteq {pid[s] : s \in S} \X {pid[s] : s \in S}
    <2>1. ASSUME NEW e \in R
          PROVE  <<pid[e[1]], pid[e[2]]>> \in {pid[s] : s \in S} \X {pid[s] : s \in S}
      <3>1. e \in S \X S
        BY DEF TotalOrder
      <3>2. e[1] \in S /\ e[2] \in S
        BY <3>1
      <3> QED BY <3>2
    <2> QED BY <2>1
  <1> HIDE DEF P
  <1>4. \A x \in {pid[s] : s \in S} : <<x, x>> \notin P
    BY <1>2 DEF TotalOrder
  <1>5. \A x, y \in {pid[s] : s \in S} : x = y \/ <<x, y>> \in P \/ <<y, x>> \in P
    BY <1>2 DEF TotalOrder
  <1>6. \A x, y, z \in {pid[s] : s \in S} :
            <<x, y>> \in P /\ <<y, z>> \in P => <<x, z>> \in P
    BY <1>2 DEF TotalOrder
  <1> QED BY <1>3, <1>4, <1>5, <1>6 DEF TotalOrder, P

\* A loop over the process table meets any set of slots in a total order
LEMMA TableOrderTotal ==
    ASSUME NEW S \in SUBSET Slots
    PROVE  TotalOrder(TableOrder(S), S)
  <1>1. \A s, t \in S : <<s, t>> \in TableOrder(S) <=> s < t
    BY DEF TableOrder
  <1>2. TableOrder(S) \subseteq S \X S
    BY DEF TableOrder
  <1> QED BY <1>1, <1>2 DEF TotalOrder

\* What InsertNodes does to the queue
LEMMA InsertAdds ==
    ASSUME TypeOK, UniquePids, NEW S \in SUBSET Slots, \A s \in S : pid[s] # None,
           NEW R, NEW vd, InsertNodes(S, R, vd)
    PROVE  /\ \A x : x \in Queued' <=> x \in Queued \/ \E s \in S : x = pid[s]
           /\ \A s \in S : queue'[pid[s]] = vd[s]
           /\ \A x \in Queued : (\A s \in S : pid[s] # x) => queue'[x] = queue[x]
  <1>1. CASE S = {}
    BY <1>1 DEF InsertNodes, rqVars, Queued
  <1>2. CASE S # {}
    <2> DEFINE new == [x \in {pid[s] : s \in S} |-> vd[CHOOSE s \in S : pid[s] = x]]
               arrival == {<<pid[e[1]], pid[e[2]]>> : e \in R}
    <2>1. Enqueue(new, arrival)
      BY <1>2 DEF InsertNodes
    <2>2. \A s \in S : new[pid[s]] = vd[s]
      BY DEF UniquePids
    <2>3. DOMAIN new = {pid[s] : s \in S}
      OBVIOUS
    <2> HIDE DEF new, arrival
    <2> QED BY <2>1, <2>2, <2>3, EnqueueAdds
  <1> QED BY <1>1, <1>2

\* InsertNodes keeps the list in deadline order and is a step of RQSpec
LEMMA InsertOrdered ==
    ASSUME TypeOK, UniquePids, QueueOrdered, NEW S \in SUBSET Slots,
           \A s \in S : pid[s] # None /\ pid[s] \notin Queued,
           NEW R, TotalOrder(R, S), NEW vd, \A s \in S : vd[s] \in Int,
           InsertNodes(S, R, vd)
    PROVE  QueueOrdered' /\ [RQNext]_rqVars
  <1>1. CASE S = {}
    BY <1>1 DEF InsertNodes, rqVars, Queued, QueueOrdered, TotalOrder
  <1>2. CASE S # {}
    <2> DEFINE new == [x \in {pid[s] : s \in S} |-> vd[CHOOSE s \in S : pid[s] = x]]
               arrival == {<<pid[e[1]], pid[e[2]]>> : e \in R}
    <2>1. Enqueue(new, arrival)
      BY <1>2 DEF InsertNodes
    <2>2. \A x \in DOMAIN new : new[x] \in Int
      OBVIOUS
    <2>3. DOMAIN new = {pid[s] : s \in S}
      OBVIOUS
    <2>4. TotalOrder(arrival, DOMAIN new)
      BY <2>3, PidOrder
    <2>5. Queued \cap DOMAIN new = {}
      BY <2>3
    <2>6. new = [x \in DOMAIN new |-> new[x]] /\ DOMAIN new # {}
      <3>1. DOMAIN new # {}
        BY <1>2, <2>3
      <3>2. new = [x \in DOMAIN new |-> new[x]]
        OBVIOUS
      <3> QED BY <3>1, <3>2
    <2>7. queue \in [Queued -> Int]
      BY DEF TypeOK
    <2> HIDE DEF new, arrival
    <2>8. QueueOrdered'
      BY <2>1, <2>2, <2>4, <2>5, <2>7, EnqueueOrdered
    <2>9. Arrive
      BY <2>1, <2>2, <2>4, <2>5, <2>6, <2>7, EnqueueArrives
    <2> QED BY <2>8, <2>9 DEF RQNext
  <1> QED BY <1>1, <1>2

\* The slots and CPUs that other fields point to
LEMMA Ranges ==
    ASSUME TypeOK
    PROVE  /\ \A c \in CPUs : proc[c] # None => proc[c] \in Slots
           /\ \A s \in Slots : parent[s] # None => parent[s] \in Slots
           /\ \A t \in {None} \cup Slots : np[t] # None => np[t] \in Slots
           /\ ptlock # None => ptlock \in CPUs
  BY DEF TypeOK

\* A process that is not RUNNABLE, or is on a CPU or in a nicefork, has no node
LEMMA NotQueued ==
    ASSUME IInv, NEW s \in Slots, state[s] # "UNUSED",
           state[s] # "RUNNABLE" \/ OnCPU(s) \/ Forking(s)
    PROVE  pid[s] # None /\ pid[s] \notin Queued
  BY DEF IInv, PidInv, QueueExact, UniquePids

\* A set W of sleepers joins the queue
WakesUp(W) ==
    /\ \A s \in W : /\ ~OnCPU(s) /\ ~Forking(s) /\ np[s] = None
                    /\ pid[s] # None /\ pid[s] \notin Queued
    /\ \A x : x \in Queued' <=> x \in Queued \/ \E s \in W : x = pid[s]
    /\ \A s \in Slots : pid[s] \in Queued' => pid[s] \in Queued \/ s \in W
    /\ \A s \in W : queue'[pid[s]] = virtual_deadline[s]
    /\ \A x \in Queued : queue'[x] = queue[x]
    /\ queue' \in [Queued' -> Int] /\ Queued' \subseteq Nat

\* What a wakeup does with a set W of sleepers
LEMMA Woken ==
    ASSUME IInv, ptlock = None, NEW W \in SUBSET Slots, \A s \in W : state[s] = "SLEEPING",
           NEW R, InsertNodes(W, R, virtual_deadline)
    PROVE  WakesUp(W) /\ (TotalOrder(R, W) => QueueOrdered' /\ [RQNext]_rqVars)
  <1>1. \A s \in W : ~OnCPU(s) /\ ~Forking(s) /\ np[s] = None
    BY DEF IInv, LockInv, ForkInv, OnCPU, Forking
  <1>2. \A s \in W : pid[s] # None /\ pid[s] \notin Queued
    BY NotQueued
  <1>3. TypeOK /\ UniquePids /\ QueueOrdered
    BY DEF IInv
  <1>4. /\ \A x : x \in Queued' <=> x \in Queued \/ \E s \in W : x = pid[s]
        /\ \A s \in W : queue'[pid[s]] = virtual_deadline[s]
        /\ \A x \in Queued : queue'[x] = queue[x]
    <2>1. \A s \in W : pid[s] # None
      BY <1>2
    <2>2. \A x \in Queued : \A s \in W : pid[s] # x
      BY <1>2
    <2>3. /\ \A x : x \in Queued' <=> x \in Queued \/ \E s \in W : x = pid[s]
          /\ \A s \in W : queue'[pid[s]] = virtual_deadline[s]
          /\ \A x \in Queued : (\A s \in W : pid[s] # x) => queue'[x] = queue[x]
      BY <1>3, <2>1, InsertAdds, Zenon
    <2> QED BY <2>2, <2>3
  <1>5. queue' \in [Queued' -> Int] /\ Queued' \subseteq Nat
    <2>1. /\ Queued \subseteq Nat /\ \A x \in Queued : queue[x] \in Int
          /\ \A s \in W : pid[s] \in Nat /\ virtual_deadline[s] \in Int
      BY <1>3 DEF TypeOK
    <2>2. queue' = [x \in Queued' |-> queue'[x]]
      BY <1>3 DEF InsertNodes, Enqueue, Joined, rqVars, TypeOK, Queued
    <2> QED BY <1>4, <2>1, <2>2
  <1>6. \A s \in W : virtual_deadline[s] \in Int
    BY <1>3 DEF TypeOK
  <1>7. TotalOrder(R, W) => QueueOrdered' /\ [RQNext]_rqVars
    BY <1>2, <1>3, <1>6, InsertOrdered
  <1>8. ASSUME NEW s \in Slots, pid[s] \in Queued', pid[s] \notin Queued PROVE s \in W
    <2>1. PICK w \in W : pid[s] = pid[w]
      BY <1>4, <1>8
    <2> QED BY <1>2, <1>3, <2>1 DEF UniquePids
  <1> QED BY <1>1, <1>2, <1>4, <1>5, <1>7, <1>8 DEF WakesUp

\* The order in which exit() wakes: first one set, then the other
LEMMA ConcatOrder ==
    ASSUME NEW V \in SUBSET Slots, NEW W \in SUBSET Slots, V \cap W = {}
    PROVE  TotalOrder(TableOrder(V) \cup TableOrder(W) \cup (V \X W), V \cup W)
  <1> DEFINE R == TableOrder(V) \cup TableOrder(W) \cup (V \X W)
  <1>1. \A s, t \in V \cup W :
            <<s, t>> \in R <=> \/ s \in V /\ t \in W
                               \/ (s \in V <=> t \in V) /\ s < t
    BY DEF TableOrder
  <1>2. R \subseteq (V \cup W) \X (V \cup W)
    BY DEF TableOrder
  <1> HIDE DEF R
  <1>3. /\ \A s \in V \cup W : <<s, s>> \notin R
        /\ \A s, t \in V \cup W : s = t \/ <<s, t>> \in R \/ <<t, s>> \in R
    BY <1>1
  <1>4. \A s, t, u \in V \cup W : <<s, t>> \in R /\ <<t, u>> \in R => <<s, u>> \in R
    BY <1>1
  <1> QED BY <1>2, <1>3, <1>4 DEF TotalOrder, R
=============================================================================
