--------------------------- MODULE RunQueueProofs ---------------------------
(***************************************************************************)
(* Facts about the queue operations that the scheduler's proofs rest on.   *)
(***************************************************************************)
EXTENDS RunQueue, TLAPS

\* insert_node adds the new processes with their deadlines and changes no other
LEMMA EnqueueAdds ==
    ASSUME NEW new, NEW arrival, Enqueue(new, arrival)
    PROVE  /\ Queued' = Queued \cup DOMAIN new
           /\ \A x \in DOMAIN new : queue'[x] = new[x]
           /\ \A x \in Queued \ DOMAIN new : queue'[x] = queue[x]
  BY DEF Enqueue, Joined, Queued

\* delete_node removes one process and changes no other
LEMMA DequeueRemoves ==
    ASSUME NEW x \in Queued, Dequeue(x)
    PROVE  /\ Queued' = Queued \ {x}
           /\ \A y \in Queued \ {x} : queue'[y] = queue[y]
  BY DEF Dequeue, Queued

\* The order after an insertion, pair by pair
LEMMA EnqueueBefore ==
    ASSUME NEW new, NEW arrival, Enqueue(new, arrival), NEW x, NEW y
    PROVE  <<x, y>> \in before' <=>
            /\ x \in Queued' /\ y \in Queued'
            /\ \/ queue'[x] < queue'[y]
               \/ /\ queue'[x] = queue'[y]
                  /\ \/ <<x, y>> \in before
                     \/ x \in Queued /\ y \in DOMAIN new
                     \/ <<x, y>> \in arrival
  BY DEF Enqueue, Merged, Queued

\* Taking a process out leaves the rest in order
LEMMA DequeueOrdered ==
    ASSUME NEW x \in Queued, Dequeue(x), QueueOrdered
    PROVE  QueueOrdered'
  <1>0. \A y, z : <<y, z>> \in before' <=> <<y, z>> \in before /\ y # x /\ z # x
    BY DEF Dequeue
  <1>1. ASSUME NEW e \in before' PROVE e \in Queued' \X Queued'
    <2>1. e \in before /\ e[1] # x /\ e[2] # x
      BY DEF Dequeue
    <2>2. e \in Queued \X Queued
      BY <2>1 DEF QueueOrdered, TotalOrder
    <2> QED BY <2>1, <2>2, DequeueRemoves
  <1>2. \A y \in Queued' : <<y, y>> \notin before'
    BY <1>0, DequeueRemoves DEF QueueOrdered, TotalOrder
  <1>3. \A y, z \in Queued' : y = z \/ <<y, z>> \in before' \/ <<z, y>> \in before'
    BY <1>0, DequeueRemoves DEF QueueOrdered, TotalOrder
  <1>4. \A u, y, z \in Queued' : <<u, y>> \in before' /\ <<y, z>> \in before' => <<u, z>> \in before'
    BY <1>0, DequeueRemoves DEF QueueOrdered, TotalOrder
  <1>5. \A y, z \in Queued' : <<y, z>> \in before' => queue'[y] <= queue'[z]
    BY <1>0, DequeueRemoves DEF QueueOrdered
  <1> QED BY <1>1, <1>2, <1>3, <1>4, <1>5 DEF QueueOrdered, TotalOrder

\* Processes that arrive in some order, none of them queued already, take
\* places that keep the list in deadline order
LEMMA EnqueueOrdered ==
    ASSUME NEW new, NEW arrival, Enqueue(new, arrival), QueueOrdered,
           queue \in [Queued -> Int], \A x \in DOMAIN new : new[x] \in Int,
           Queued \cap DOMAIN new = {}, TotalOrder(arrival, DOMAIN new)
    PROVE  QueueOrdered'
  <1>1. /\ Queued' = Queued \cup DOMAIN new
        /\ \A x \in Queued' : queue'[x] \in Int
        /\ \A x \in Queued : queue'[x] = queue[x]
    BY EnqueueAdds
  <1>2. before' \subseteq Queued' \X Queued'
    BY DEF Enqueue, Merged, Queued
  <1>3. \A x, y : <<x, y>> \in before => x \in Queued /\ y \in Queued
    BY DEF QueueOrdered, TotalOrder
  <1>4. \A x, y : <<x, y>> \in arrival => x \in DOMAIN new /\ y \in DOMAIN new
    BY DEF TotalOrder
  <1>5. ASSUME NEW x \in Queued' PROVE <<x, x>> \notin before'
    <2>1. <<x, x>> \notin before
      BY <1>3 DEF QueueOrdered, TotalOrder
    <2>2. <<x, x>> \notin arrival
      BY <1>4 DEF TotalOrder
    <2> QED BY <1>1, <2>1, <2>2, EnqueueBefore
  <1>6. ASSUME NEW x \in Queued', NEW y \in Queued', x # y
        PROVE  <<x, y>> \in before' \/ <<y, x>> \in before'
    <2>1. x \in Queued /\ y \in Queued => <<x, y>> \in before \/ <<y, x>> \in before
      BY <1>6 DEF QueueOrdered, TotalOrder
    <2>2. x \in DOMAIN new /\ y \in DOMAIN new => <<x, y>> \in arrival \/ <<y, x>> \in arrival
      BY <1>6 DEF TotalOrder
    <2> QED BY <1>1, <2>1, <2>2, EnqueueBefore
  <1>7. ASSUME NEW x \in Queued', NEW y \in Queued', NEW z \in Queued',
               <<x, y>> \in before', <<y, z>> \in before'
        PROVE  <<x, z>> \in before'
    <2>1. <<x, y>> \in before /\ <<y, z>> \in before => <<x, z>> \in before
      BY <1>3 DEF QueueOrdered, TotalOrder
    <2>2. <<x, y>> \in arrival /\ <<y, z>> \in arrival => <<x, z>> \in arrival
      BY <1>4 DEF TotalOrder
    <2> QED BY <1>1, <1>3, <1>4, <1>7, <2>1, <2>2, EnqueueBefore
  <1>8. ASSUME NEW x \in Queued', NEW y \in Queued', <<x, y>> \in before'
        PROVE  queue'[x] <= queue'[y]
    BY <1>1, <1>8, EnqueueBefore
  <1> QED BY <1>2, <1>5, <1>6, <1>7, <1>8 DEF QueueOrdered, TotalOrder

\* Processes new to the queue that arrive in some order are a step of RQSpec
LEMMA EnqueueArrives ==
    ASSUME NEW new, NEW arrival, Enqueue(new, arrival), QueueOrdered,
           queue \in [Queued -> Int], \A x \in DOMAIN new : new[x] \in Int,
           new = [x \in DOMAIN new |-> new[x]], DOMAIN new # {},
           Queued \cap DOMAIN new = {}, TotalOrder(arrival, DOMAIN new)
    PROVE  Arrive
  <1> DEFINE W == DOMAIN queue' \ Queued
             A == before' \cap (W \X W)
  <1>1. W = DOMAIN new
    BY EnqueueAdds DEF Queued
  <1>2. [x \in W |-> queue'[x]] = new
    BY <1>1, EnqueueAdds
  <1>3. \A x, y \in W : <<x, y>> \in A <=> <<x, y>> \in before'
    OBVIOUS
  <1>4. QueueOrdered' /\ W \subseteq Queued'
    BY EnqueueOrdered DEF Queued
  <1>5. TotalOrder(A, W)
    <2>1. A \subseteq W \X W
      OBVIOUS
    <2> HIDE DEF A, W
    <2>2. \A x \in W : <<x, x>> \notin A
      BY <1>3, <1>4 DEF QueueOrdered, TotalOrder
    <2>3. \A x, y \in W : x = y \/ <<x, y>> \in A \/ <<y, x>> \in A
      BY <1>3, <1>4 DEF QueueOrdered, TotalOrder
    <2>4. \A x, y, z \in W : <<x, y>> \in A /\ <<y, z>> \in A => <<x, z>> \in A
      BY <1>3, <1>4 DEF QueueOrdered, TotalOrder
    <2> QED BY <2>1, <2>2, <2>3, <2>4 DEF TotalOrder
  \* the nodes that are equal in deadline keep the order they arrived in
  <1>6. Merged(Joined(new), new, arrival) = Merged(Joined(new), new, A)
    <2> DEFINE D == DOMAIN Joined(new)
    <2>1. ASSUME NEW e \in D \X D, Joined(new)[e[1]] = Joined(new)[e[2]],
                 e \notin before, ~(e[1] \in Queued /\ e[2] \in DOMAIN new)
          PROVE  e \in arrival <=> e \in A
      <3>1. e = <<e[1], e[2]>> /\ e[1] \in Queued' /\ e[2] \in Queued'
        BY DEF Enqueue, Queued
      <3>2. queue'[e[1]] = queue'[e[2]]
        BY <2>1 DEF Enqueue
      <3>3. \A x, y : <<x, y>> \in arrival => x \in DOMAIN new /\ y \in DOMAIN new
        BY DEF TotalOrder
      <3>4. queue'[e[1]] \in Int
        BY <3>1, EnqueueAdds
      <3>5. e \in arrival => e \in A
        BY <1>1, <2>1, <3>1, <3>2, <3>3, EnqueueBefore
      <3>6. ASSUME e \in A PROVE e \in arrival
        <4>1. e \in before' /\ e[1] \in W /\ e[2] \in W
          BY <3>6
        <4> QED BY <2>1, <3>1, <3>2, <3>4, <4>1, EnqueueBefore
      <3> QED BY <3>5, <3>6
    <2> HIDE DEF A
    <2> QED BY <2>1 DEF Merged
  <1>7. Enqueue(new, A)
    BY <1>6 DEF Enqueue
  <1> HIDE DEF A
  <1> QED BY <1>1, <1>2, <1>5, <1>7 DEF Arrive, A
=============================================================================
