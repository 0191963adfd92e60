------------------------------ MODULE BlockStore ------------------------------
(***************************************************************************)
(* What bread(), bwrite() and brelse() promise their callers: one content  *)
(* per block, however it is cached, and at most one process at a time that *)
(* may look at it or change it.                                            *)
(***************************************************************************)
CONSTANTS Users, Blocks, Data, Nil

VARIABLES content, owner

BSInit == /\ content \in [Blocks -> Data]
          /\ owner = [b \in Blocks |-> Nil]

Take(p, b) == /\ owner[b] = Nil
              /\ owner' = [owner EXCEPT ![b] = p]
              /\ UNCHANGED content

Change(p, b) == /\ owner[b] = p
                /\ \E v \in Data : content' = [content EXCEPT ![b] = v]
                /\ UNCHANGED owner

Give(p, b) == /\ owner[b] = p
              /\ owner' = [owner EXCEPT ![b] = Nil]
              /\ UNCHANGED content

BSNext == \E p \in Users, b \in Blocks : Take(p, b) \/ Change(p, b) \/ Give(p, b)

BSSpec == BSInit /\ [][BSNext]_<<content, owner>>
================================================================================
