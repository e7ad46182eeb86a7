------------------------- MODULE LeaveStateMachine -------------------------
(***************************************************************************)
(* The leave state machine the repository documents: the diagram at the    *)
(* head of utils/leaveStateMachine.ts and its two tables VALID_TRANSITIONS *)
(* and ACTION_TARGET.  It is an abstract specification: LeaveLifecycle,    *)
(* which models what the request handlers really do, is compared with it.  *)
(***************************************************************************)
CONSTANT Leaves
VARIABLE status

Actions == {"approve", "reject", "cancel", "depart", "return", "mark_overdue"}

LeaveStatuses == {"PENDING", "APPROVED", "REJECTED", "CANCELLED",
                  "ACTIVE", "OVERDUE", "COMPLETED"}

ValidTransitions ==
  [ PENDING   |-> {"approve", "reject", "cancel"},
    APPROVED  |-> {"depart"},
    REJECTED  |-> {},
    CANCELLED |-> {},
    ACTIVE    |-> {"return", "mark_overdue"},
    OVERDUE   |-> {"return"},
    COMPLETED |-> {} ]

ActionTarget ==
  [ approve      |-> "APPROVED",
    reject       |-> "REJECTED",
    cancel       |-> "CANCELLED",
    depart       |-> "ACTIVE",
    return       |-> "COMPLETED",
    mark_overdue |-> "OVERDUE" ]

(* "NONE" is a request that has not been submitted: there is no row.       *)
Init == status = [l \in Leaves |-> "NONE"]

Submit(l) ==
  /\ status[l] = "NONE"
  /\ status' = [status EXCEPT ![l] = "PENDING"]

(* The rows a transition may touch together: the overdue job marks every   *)
(* late leave in one statement, a handler changes one row.                 *)
Transition(a, ls) ==
  /\ \A l \in ls : status[l] # "NONE" /\ a \in ValidTransitions[status[l]]
  /\ status' = [l \in Leaves |-> IF l \in ls THEN ActionTarget[a] ELSE status[l]]

Next ==
  \/ \E l \in Leaves : Submit(l)
  \/ \E a \in Actions \ {"mark_overdue"}, l \in Leaves : Transition(a, {l})
  \/ \E ls \in SUBSET Leaves : Transition("mark_overdue", ls)

Spec == Init /\ [][Next]_status
=============================================================================
