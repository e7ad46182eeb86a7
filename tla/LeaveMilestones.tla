-------------------------- MODULE LeaveMilestones --------------------------
(***************************************************************************)
(* What the leave handlers promise however their requests interleave.      *)
(* The status column may be overwritten by a late writer, but the          *)
(* milestones of a leave (the review, the departure and the return, each   *)
(* with columns of its own) are reached in order, and none is ever undone. *)
(***************************************************************************)
CONSTANT Leaves

VARIABLES
  review,      \* reviewed_by and rejection_reason: none, approved or rejected
  departed,    \* the leaves whose departed_at is set
  returned     \* the leaves whose returned_at is set

vars == <<review, departed, returned>>

Init ==
  /\ review = [l \in Leaves |-> "none"]
  /\ departed = {}
  /\ returned = {}

(* The first review wins, and it is final.                                 *)
Review(l, decision) ==
  /\ review[l] = "none"
  /\ review' = [review EXCEPT ![l] = decision]
  /\ UNCHANGED <<departed, returned>>

(* Only a student whose leave was approved leaves the campus.              *)
Depart(l) ==
  /\ review[l] = "approved"
  /\ departed' = departed \cup {l}
  /\ UNCHANGED <<review, returned>>

(* Only a student who left comes back.                                     *)
Return(l) ==
  /\ l \in departed
  /\ returned' = returned \cup {l}
  /\ UNCHANGED <<review, departed>>

Next ==
  \E l \in Leaves :
    \/ \E decision \in {"approved", "rejected"} : Review(l, decision)
    \/ Depart(l)
    \/ Return(l)

Spec == Init /\ [][Next]_vars
=============================================================================
