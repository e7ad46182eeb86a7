---------------------------- MODULE ImportBatch ----------------------------
(***************************************************************************)
(* What an import promises: the rows of a job are added in one step, never *)
(* a second time, and the Admin is told how many were added.               *)
(***************************************************************************)
EXTENDS FiniteSets

CONSTANTS Jobs, Keys, None, Free, ByHand

VARIABLES
  roll,          \* who entered the live student, or user, of a key
  imported       \* rows a job has added, None before it was confirmed

vars == <<roll, imported>>

Init ==
  /\ roll = [k \in Keys |-> Free]
  /\ imported = [j \in Jobs |-> None]

Apply(j, added) ==
  /\ imported[j] = None
  /\ \A k \in added : roll[k] = Free
  /\ roll' = [k \in Keys |-> IF k \in added THEN j ELSE roll[k]]
  /\ imported' = [imported EXCEPT ![j] = Cardinality(added)]

Enter(k) ==
  /\ roll[k] = Free
  /\ roll' = [roll EXCEPT ![k] = ByHand]
  /\ UNCHANGED imported

Leave(k) ==
  /\ roll[k] # Free
  /\ roll' = [roll EXCEPT ![k] = Free]
  /\ UNCHANGED imported

Next ==
  \/ \E j \in Jobs, added \in SUBSET Keys : Apply(j, added)
  \/ \E k \in Keys : Enter(k) \/ Leave(k)

Spec == Init /\ [][Next]_vars
=============================================================================
