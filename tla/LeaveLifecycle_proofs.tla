----------------------- MODULE LeaveLifecycle_proofs -----------------------
(***************************************************************************)
(* Proofs about LeaveLifecycle, for any number of leaves, users, students, *)
(* timeslots and days.  LeaveInv is the inductive invariant: the status    *)
(* follows the milestones, the locks exclude each other, and what each     *)
(* request in flight relies on stays so.  SerialInv adds, for one request  *)
(* at a time, that the status it read is the status it overwrites.         *)
(***************************************************************************)
EXTENDS LeaveLifecycle, TLAPS

Ops == {"approve", "reject", "cancel", "depart", "return"}

(* A request that is not idle is about a leave.                            *)
LEMMA BusyRequests ==
  ASSUME TypeOK, NEW u \in Users, req[u].op # "idle"
  PROVE  req[u].op \in Ops /\ req[u].leave \in Leaves
  BY DEF TypeOK, Requests, Idle, Ops

(* Two shapes of steps, for the bookkeeping of requests: user u takes up   *)
(* operation op on leave l, or user u is done.                             *)
LEMMA TakeUp ==
  ASSUME TypeOK, NEW u \in Users, NEW l \in Leaves, NEW op \in Ops,
         req' = [req EXCEPT ![u] = [op |-> op, leave |-> l]]
  PROVE  /\ req' \in [Users -> Requests]
         /\ req'[u].op = op /\ req'[u].leave = l
         /\ \A v \in Users : v # u => req'[v] = req[v]
  BY DEF TypeOK, Requests, Ops

LEMMA PutDown ==
  ASSUME TypeOK, NEW u \in Users, req' = [req EXCEPT ![u] = Idle]
  PROVE  /\ req' \in [Users -> Requests]
         /\ req'[u] = Idle /\ req'[u].op = "idle"
         /\ \A v \in Users : v # u => req'[v] = req[v]
  BY DEF TypeOK, Requests, Idle

-----------------------------------------------------------------------------
LEMMA TypeInit == Init => TypeOK
  BY BoundAssumption DEF Init, TypeOK, Requests, Days

LEMMA TypeNext ==
  ASSUME TypeOK, [Next]_vars
  PROVE  TypeOK'
<1> USE DEF leaveVars, effectVars, jobVars
<1>1. ASSUME NEW u \in Users, NEW l \in Leaves, NEW f \in Forms, SubmitLeave(u, l, f)
      PROVE  TypeOK'
  BY <1>1 DEF SubmitLeave, TypeOK, LeaveStatuses
<1>2. ASSUME NEW u \in Users, NEW l \in Leaves, NEW op \in {"approve", "reject"},
             StartReview(u, l, op)
      PROVE  TypeOK'
  BY <1>2, TakeUp DEF StartReview, TypeOK, Ops
<1>3. ASSUME NEW u \in Users, NEW l \in Leaves, NEW op \in {"cancel", "depart", "return"},
             ReadLeave(u, l, op)
      PROVE  TypeOK'
  BY <1>3, TakeUp DEF ReadLeave, TypeOK, Ops
<1>4. ASSUME NEW u \in Users, ApproveLeave(u)
      PROVE  TypeOK'
  <2>1. req[u].leave \in Leaves
    BY <1>4, BusyRequests DEF ApproveLeave
  <2>2. /\ mark' \in [Students \X Slots \X Days -> Marks \cup {"none"}]
        /\ result' \in [Students \X ExamDays -> {"none", "sat", "absent"}]
    BY <1>4 DEF ApproveLeave, MarksAfterApproval, Upsert, TypeOK, Marks
  <2>3. /\ status' \in [Leaves -> LeaveStatuses \cup {"NONE"}]
        /\ review' \in [Leaves -> {"none", "approved", "rejected"}]
    BY <1>4, <2>1 DEF ApproveLeave, TypeOK, LeaveStatuses
  <2> QED
    BY <1>4, <2>2, <2>3, PutDown DEF ApproveLeave, TypeOK
<1>5. ASSUME NEW u \in Users,
             RejectLeave(u) \/ CancelLeave(u) \/ DepartLeave(u) \/ ReturnLeave(u)
      PROVE  TypeOK'
  <2>1. req[u].leave \in Leaves
    BY <1>5, BusyRequests DEF RejectLeave, CancelLeave, DepartLeave, ReturnLeave
  <2>2. CASE RejectLeave(u)
    BY <2>1, <2>2, PutDown DEF RejectLeave, TypeOK, LeaveStatuses
  <2>3. CASE CancelLeave(u)
    BY <2>1, <2>3, PutDown DEF CancelLeave, TypeOK, LeaveStatuses
  <2>4. CASE DepartLeave(u)
    BY <2>1, <2>4, PutDown DEF DepartLeave, TypeOK, LeaveStatuses
  <2>5. CASE ReturnLeave(u)
    BY <2>1, <2>5, PutDown DEF ReturnLeave, TypeOK, LeaveStatuses
  <2> QED
    BY <1>5, <2>2, <2>3, <2>4, <2>5
<1>6. ASSUME NEW u \in Users, AbortRequest(u)
      PROVE  TypeOK'
  BY <1>6, PutDown DEF AbortRequest, TypeOK
<1>7. ASSUME NEW u \in Users, NEW s \in Students, NEW p \in Slots, NEW d \in Days,
             NEW st \in Marks,
             RecordAttendance(u, s, p, d, st) \/ CorrectAttendance(u, s, p, d, st)
      PROVE  TypeOK'
  BY <1>7 DEF RecordAttendance, CorrectAttendance, TypeOK
<1>8. ASSUME NEW u \in Users, NEW s \in Students, NEW d \in ExamDays, NEW absent \in BOOLEAN,
             EnterMarks(u, s, d, absent)
      PROVE  TypeOK'
  BY <1>8 DEF EnterMarks, TypeOK
<1>9. CASE DetectOverdueLeaves
  BY <1>9 DEF DetectOverdueLeaves, TypeOK, LeaveStatuses
<1>10. ASSUME NEW l \in Leaves, AnnounceOverdue(l)
       PROVE  TypeOK'
  BY <1>10 DEF AnnounceOverdue, TypeOK
<1>11. CASE Tick
  BY <1>11, BoundAssumption DEF Tick, TypeOK, Days
<1>12. CASE Crash
  BY <1>12 DEF Crash, TypeOK, Requests
<1>13. CASE UNCHANGED vars
  BY <1>13 DEF vars, TypeOK
<1> QED
  BY <1>1, <1>2, <1>3, <1>4, <1>5, <1>6, <1>7, <1>8, <1>9, <1>10, <1>11, <1>12, <1>13
  DEF Next, Handler

(* The tables and the requests in flight always hold what the columns and  *)
(* the handlers declare.                                                   *)
THEOREM TypeCorrect == Spec => []TypeOK
<1>1. TypeOK /\ [Next]_vars => TypeOK'
  BY TypeNext
<1> QED
  BY TypeInit, <1>1, PTL DEF Spec

-----------------------------------------------------------------------------
(* The inductive invariant.  StatusIsEarned and DepartureNeedsApproval are *)
(* not inductive alone: a departure or a return is written long after it   *)
(* was decided, so what it was decided on must still hold                  *)
(* (DecisionsStayTrue), and for a review that is the work of the locks     *)
(* (ReviewsExclude).                                                       *)
SubmittedForms ==
  /\ \A l \in Leaves : status[l] # "NONE" => form[l] \in Forms
  /\ \A u \in Users : req[u].op # "idle" => status[req[u].leave] # "NONE"

Core ==
  /\ SubmittedForms
  /\ StatusIsEarned
  /\ DepartureNeedsApproval
  /\ DecisionsStayTrue
  /\ ReviewsExclude

LeaveInv == TypeOK /\ Core

LEMMA LeaveInit == Init => LeaveInv
<1> SUFFICES ASSUME Init PROVE Core
  BY TypeInit DEF LeaveInv
<1>1. \A u \in Users : req[u].op = "idle"
  BY DEF Init, Idle
<1>2. SubmittedForms /\ StatusIsEarned /\ DepartureNeedsApproval
  BY <1>1 DEF Init, SubmittedForms, StatusIsEarned, DepartureNeedsApproval
<1> QED
  BY <1>1, <1>2 DEF Core, DecisionsStayTrue, ReviewsExclude, Reviewing

(* Steps that leave the table of leaves alone, and in which requests can   *)
(* only be put down.                                                       *)
LEMMA FrameKeepsCore ==
  ASSUME LeaveInv, UNCHANGED leaveVars,
         \A u \in Users : req'[u] = req[u] \/ req'[u].op = "idle"
  PROVE  Core'
<1>1. SubmittedForms' /\ StatusIsEarned' /\ DepartureNeedsApproval'
  BY DEF LeaveInv, Core, leaveVars, SubmittedForms, StatusIsEarned, DepartureNeedsApproval
<1>2. DecisionsStayTrue'
  BY DEF LeaveInv, Core, leaveVars, DecisionsStayTrue, Reviewing
<1>3. ReviewsExclude'
  BY DEF LeaveInv, Core, leaveVars, ReviewsExclude, Reviewing, StudentOf
<1> QED
  BY <1>1, <1>2, <1>3 DEF Core

LEMMA SubmitKeepsCore ==
  ASSUME LeaveInv, NEW u \in Users, NEW l \in Leaves, NEW f \in Forms,
         SubmitLeave(u, l, f)
  PROVE  Core'
<1> USE DEF LeaveInv, Core
<1>1. /\ \A k \in Leaves : k # l => status'[k] = status[k] /\ form'[k] = form[k]
      /\ status[l] = "NONE" /\ status'[l] = "PENDING" /\ form'[l] = f
      /\ UNCHANGED <<review, departed, returned, req>>
  BY DEF SubmitLeave, TypeOK
<1>2. \A v \in Users : Reviewing(v) => req[v].leave \in Leaves /\ req[v].leave # l
  BY <1>1, BusyRequests DEF DecisionsStayTrue, Reviewing
<1>3. SubmittedForms' /\ StatusIsEarned' /\ DepartureNeedsApproval'
  BY <1>1, BusyRequests DEF SubmittedForms, StatusIsEarned, DepartureNeedsApproval
<1>4. DecisionsStayTrue'
  BY <1>1, <1>2 DEF DecisionsStayTrue, Reviewing
<1>5. ReviewsExclude'
  BY <1>1, <1>2 DEF ReviewsExclude, Reviewing, StudentOf
<1> QED
  BY <1>3, <1>4, <1>5

LEMMA StartReviewKeepsCore ==
  ASSUME LeaveInv, NEW u \in Users, NEW l \in Leaves, NEW op \in {"approve", "reject"},
         StartReview(u, l, op)
  PROVE  Core'
<1> USE DEF LeaveInv, Core
<1>1. /\ req'[u].op = op /\ req'[u].leave = l
      /\ \A v \in Users : v # u => req'[v] = req[v]
  BY TakeUp DEF StartReview, Ops
<1>2. UNCHANGED leaveVars /\ status[l] = "PENDING" /\ StudentRowFree(StudentOf(l))
  BY DEF StartReview
<1>3. SubmittedForms' /\ StatusIsEarned' /\ DepartureNeedsApproval'
  BY <1>1, <1>2 DEF leaveVars, SubmittedForms, StatusIsEarned, DepartureNeedsApproval
<1>4. DecisionsStayTrue'
  BY <1>1, <1>2 DEF leaveVars, DecisionsStayTrue, Reviewing
<1>5. ReviewsExclude'
  BY <1>1, <1>2 DEF leaveVars, ReviewsExclude, Reviewing, StudentOf, StudentRowFree
<1> QED
  BY <1>3, <1>4, <1>5

LEMMA ReadKeepsCore ==
  ASSUME LeaveInv, NEW u \in Users, NEW l \in Leaves,
         NEW op \in {"cancel", "depart", "return"}, ReadLeave(u, l, op)
  PROVE  Core'
<1> USE DEF LeaveInv, Core
<1>1. /\ req'[u].op = op /\ req'[u].leave = l
      /\ \A v \in Users : v # u => req'[v] = req[v]
  BY TakeUp DEF ReadLeave, Ops
<1>2. UNCHANGED leaveVars
  BY DEF ReadLeave
<1>3. /\ status[l] # "NONE"
      /\ op = "depart" => review[l] = "approved"
      /\ op = "return" => l \in departed
  BY DEF ReadLeave, Allowed, StatusIsEarned
<1>4. SubmittedForms' /\ StatusIsEarned' /\ DepartureNeedsApproval'
  BY <1>1, <1>2, <1>3 DEF leaveVars, SubmittedForms, StatusIsEarned, DepartureNeedsApproval
<1>5. DecisionsStayTrue'
  BY <1>1, <1>2, <1>3 DEF leaveVars, DecisionsStayTrue, Reviewing
<1>6. ReviewsExclude'
  BY <1>1, <1>2 DEF leaveVars, ReviewsExclude, Reviewing, StudentOf
<1> QED
  BY <1>4, <1>5, <1>6

(* The two writes of a review.  The row is PENDING under the lock, so no   *)
(* review came before, nobody departed on this leave, and no departure or  *)
(* return was decided on it.                                               *)
LEMMA ReviewKeepsCore ==
  ASSUME LeaveInv, NEW u \in Users, Reviewing(u),
         NEW decision \in {"approved", "rejected"},
         status' = [status EXCEPT ![req[u].leave] =
                      IF decision = "approved" THEN "APPROVED" ELSE "REJECTED"],
         review' = [review EXCEPT ![req[u].leave] = decision],
         req' = [req EXCEPT ![u] = Idle],
         UNCHANGED <<form, departed, returned>>
  PROVE  Core' /\ review[req[u].leave] = "none" /\ req[u].leave \in Leaves
<1> USE DEF LeaveInv, Core
<1> DEFINE l == req[u].leave
<1>1. /\ l \in Leaves /\ status[l] = "PENDING" /\ review[l] = "none"
      /\ l \notin departed /\ l \notin returned
  BY BusyRequests DEF Reviewing, DecisionsStayTrue, StatusIsEarned, DepartureNeedsApproval
<1>2. /\ req'[u].op = "idle"
      /\ \A v \in Users : v # u => req'[v] = req[v]
  BY PutDown
<1>3. /\ \A k \in Leaves : k # l => status'[k] = status[k] /\ review'[k] = review[k]
      /\ review'[l] = decision
      /\ status'[l] = IF decision = "approved" THEN "APPROVED" ELSE "REJECTED"
  BY <1>1 DEF TypeOK
<1>4. SubmittedForms' /\ StatusIsEarned' /\ DepartureNeedsApproval'
  BY <1>1, <1>2, <1>3, BusyRequests DEF SubmittedForms, StatusIsEarned, DepartureNeedsApproval, TypeOK
<1>5. ASSUME NEW v \in Users, v # u, req[v].op # "idle"
      PROVE  /\ req[v].leave \in Leaves
             /\ Reviewing(v) => req[v].leave # l
             /\ req[v].op \in {"depart", "return"} => req[v].leave # l
  BY <1>1, <1>5, BusyRequests DEF ReviewsExclude, DecisionsStayTrue
<1>6. DecisionsStayTrue'
  <2> SUFFICES ASSUME NEW v \in Users, req'[v].op # "idle"
               PROVE  /\ Reviewing(v)' => status'[req'[v].leave] = "PENDING"
                      /\ req'[v].op = "depart" => review'[req'[v].leave] = "approved"
                      /\ req'[v].op = "return" => req'[v].leave \in departed'
    BY DEF DecisionsStayTrue, Reviewing
  <2>1. v # u /\ req'[v] = req[v]
    BY <1>2
  <2> QED
    BY <1>3, <1>5, <2>1 DEF DecisionsStayTrue, Reviewing
<1>7. ReviewsExclude'
  BY <1>2 DEF ReviewsExclude, Reviewing, StudentOf
<1> QED
  BY <1>1, <1>4, <1>6, <1>7

(* The writes of cancel, depart and return: they may overwrite any status, *)
(* but not the PENDING of a review in flight.                              *)
LEMMA LateWriteKeepsCore ==
  ASSUME LeaveInv, NEW u \in Users,
         CancelLeave(u) \/ DepartLeave(u) \/ ReturnLeave(u)
  PROVE  Core'
<1> USE DEF LeaveInv, Core
<1> DEFINE l == req[u].leave
<1>1. l \in Leaves /\ LeaveRowFree(l) /\ req' = [req EXCEPT ![u] = Idle]
  BY BusyRequests DEF CancelLeave, DepartLeave, ReturnLeave
<1>2. /\ req'[u].op = "idle"
      /\ \A v \in Users : v # u => req'[v] = req[v]
  BY <1>1, PutDown
<1>3. /\ UNCHANGED <<form, review>>
      /\ departed \subseteq departed' /\ returned \subseteq returned'
      /\ \A k \in Leaves : k # l => status'[k] = status[k]
      /\ status'[l] \notin {"NONE", "PENDING", "APPROVED", "REJECTED"}
  BY <1>1 DEF CancelLeave, DepartLeave, ReturnLeave, TypeOK
<1>4. /\ departed' # departed => review[l] = "approved" /\ departed' = departed \cup {l}
      /\ returned' # returned => l \in departed /\ returned' = returned \cup {l}
      /\ status'[l] \in {"ACTIVE", "OVERDUE"} => l \in departed'
      /\ status'[l] = "COMPLETED" => l \in returned'
  BY <1>1 DEF CancelLeave, DepartLeave, ReturnLeave, TypeOK, DecisionsStayTrue
<1>5. status[l] # "NONE"
  BY DEF SubmittedForms, CancelLeave, DepartLeave, ReturnLeave
<1>6. SubmittedForms' /\ StatusIsEarned' /\ DepartureNeedsApproval'
  BY <1>2, <1>3, <1>4, <1>5, BusyRequests DEF SubmittedForms, StatusIsEarned, DepartureNeedsApproval, TypeOK
<1>7. DecisionsStayTrue'
  BY <1>1, <1>2, <1>3, BusyRequests DEF DecisionsStayTrue, Reviewing, LeaveRowFree
<1>8. ReviewsExclude'
  BY <1>2, <1>3 DEF ReviewsExclude, Reviewing, StudentOf
<1> QED
  BY <1>6, <1>7, <1>8

LEMMA OverdueKeepsCore ==
  ASSUME LeaveInv, DetectOverdueLeaves
  PROVE  Core'
<1> USE DEF LeaveInv, Core
<1>1. /\ \A l \in Leaves : status'[l] = IF IsLate(l) THEN "OVERDUE" ELSE status[l]
      /\ UNCHANGED <<form, review, departed, returned, req>>
  BY DEF DetectOverdueLeaves
<1>2. \A l \in Leaves : status'[l] # status[l] => status[l] = "ACTIVE" /\ status'[l] = "OVERDUE"
  BY <1>1 DEF IsLate
<1>3. SubmittedForms' /\ StatusIsEarned' /\ DepartureNeedsApproval'
  BY <1>1, <1>2, BusyRequests DEF SubmittedForms, StatusIsEarned, DepartureNeedsApproval
<1>4. DecisionsStayTrue'
  BY <1>1, <1>2, BusyRequests DEF DecisionsStayTrue, Reviewing
<1>5. ReviewsExclude'
  BY <1>1 DEF ReviewsExclude, Reviewing, StudentOf
<1> QED
  BY <1>3, <1>4, <1>5

LEMMA ApproveKeepsCore ==
  ASSUME LeaveInv, NEW u \in Users, ApproveLeave(u)
  PROVE  Core' /\ review[req[u].leave] = "none" /\ req[u].leave \in Leaves
<1>1. Reviewing(u)
  BY DEF ApproveLeave, Reviewing
<1>2. /\ status' = [status EXCEPT ![req[u].leave] = "APPROVED"]
      /\ review' = [review EXCEPT ![req[u].leave] = "approved"]
      /\ req' = [req EXCEPT ![u] = Idle]
      /\ UNCHANGED <<form, departed, returned>>
  BY DEF ApproveLeave
<1> QED
  BY <1>1, <1>2, ReviewKeepsCore

LEMMA RejectKeepsCore ==
  ASSUME LeaveInv, NEW u \in Users, RejectLeave(u)
  PROVE  Core' /\ review[req[u].leave] = "none" /\ req[u].leave \in Leaves
<1>1. Reviewing(u)
  BY DEF RejectLeave, Reviewing
<1>2. /\ status' = [status EXCEPT ![req[u].leave] = "REJECTED"]
      /\ review' = [review EXCEPT ![req[u].leave] = "rejected"]
      /\ req' = [req EXCEPT ![u] = Idle]
      /\ UNCHANGED <<form, departed, returned>>
  BY DEF RejectLeave
<1> QED
  BY <1>1, <1>2, ReviewKeepsCore

LEMMA LeaveNext ==
  ASSUME LeaveInv, [Next]_vars
  PROVE  LeaveInv'
<1> SUFFICES Core'
  BY TypeNext DEF LeaveInv
<1>1. ASSUME NEW u \in Users, AbortRequest(u)
      PROVE  Core'
  <2>1. \A v \in Users : req'[v] = req[v] \/ req'[v].op = "idle"
    BY <1>1, PutDown DEF AbortRequest, LeaveInv
  <2> QED
    BY <1>1, <2>1, FrameKeepsCore DEF AbortRequest
<1>2. ASSUME UNCHANGED <<leaveVars, req>>
      PROVE  Core'
  BY <1>2, FrameKeepsCore
<1>3. ASSUME NEW u \in Users, NEW s \in Students, NEW p \in Slots, NEW d \in Days,
             NEW st \in Marks,
             RecordAttendance(u, s, p, d, st) \/ CorrectAttendance(u, s, p, d, st)
      PROVE  Core'
  BY <1>2, <1>3 DEF RecordAttendance, CorrectAttendance
<1>4. ASSUME NEW u \in Users, NEW s \in Students, NEW d \in ExamDays, NEW absent \in BOOLEAN,
             EnterMarks(u, s, d, absent)
      PROVE  Core'
  BY <1>2, <1>4 DEF EnterMarks
<1>5. ASSUME (\E l \in Leaves : AnnounceOverdue(l)) \/ Tick \/ UNCHANGED vars
      PROVE  Core'
  BY <1>2, <1>5 DEF AnnounceOverdue, Tick, vars
<1>6. ASSUME Crash
      PROVE  Core'
  <2>1. UNCHANGED leaveVars /\ \A v \in Users : req'[v].op = "idle"
    BY <1>6 DEF Crash, Idle
  <2> QED
    BY <2>1, FrameKeepsCore
<1> QED
  BY <1>1, <1>3, <1>4, <1>5, <1>6, SubmitKeepsCore, StartReviewKeepsCore, ReadKeepsCore,
     ApproveKeepsCore, RejectKeepsCore, LateWriteKeepsCore, OverdueKeepsCore
  DEF Next, Handler

LEMMA LeaveInvariant == Spec => []LeaveInv
<1>1. LeaveInv /\ [Next]_vars => LeaveInv'
  BY LeaveNext
<1> QED
  BY LeaveInit, <1>1, PTL DEF Spec

(* However requests interleave, the status of a leave never says more than *)
(* what happened to it.                                                    *)
THEOREM StatusIsEarnedHolds == Spec => []StatusIsEarned
<1>1. LeaveInv => StatusIsEarned
  BY DEF LeaveInv, Core
<1> QED
  BY LeaveInvariant, <1>1, PTL

(* Nobody leaves without an approval, and nobody returns who did not leave.*)
THEOREM DepartureNeedsApprovalHolds == Spec => []DepartureNeedsApproval
<1>1. LeaveInv => DepartureNeedsApproval
  BY DEF LeaveInv, Core
<1> QED
  BY LeaveInvariant, <1>1, PTL

(* The row locks keep reviews apart, and what a request decided on is true *)
(* when it writes.                                                         *)
THEOREM ReviewDiscipline == Spec => [](ReviewsExclude /\ DecisionsStayTrue)
<1>1. LeaveInv => ReviewsExclude /\ DecisionsStayTrue
  BY DEF LeaveInv, Core
<1> QED
  BY LeaveInvariant, <1>1, PTL

-----------------------------------------------------------------------------
(* The steps that write a milestone, a form or an attendance record, each  *)
(* named; the others leave these alone.                                    *)
Untouched == UNCHANGED <<review, departed, returned, form, mark>>

LEMMA MilestoneWriters ==
  ASSUME [Next]_vars
  PROVE  \/ \E u \in Users : \/ ApproveLeave(u) \/ RejectLeave(u)
                             \/ DepartLeave(u) \/ ReturnLeave(u)
         \/ \E u \in Users, l \in Leaves, f \in Forms : SubmitLeave(u, l, f)
         \/ \E u \in Users, s \in Students, p \in Slots, d \in Days, st \in Marks :
              RecordAttendance(u, s, p, d, st) \/ CorrectAttendance(u, s, p, d, st)
         \/ Untouched
<1> USE DEF Untouched, leaveVars, effectVars
<1>1. ASSUME NEW u \in Users, NEW l \in Leaves, NEW op \in {"approve", "reject"},
             StartReview(u, l, op)
      PROVE  Untouched
  BY <1>1 DEF StartReview
<1>2. ASSUME NEW u \in Users, NEW l \in Leaves, NEW op \in {"cancel", "depart", "return"},
             ReadLeave(u, l, op)
      PROVE  Untouched
  BY <1>2 DEF ReadLeave
<1>3. ASSUME NEW u \in Users, CancelLeave(u) \/ AbortRequest(u)
      PROVE  Untouched
  BY <1>3 DEF CancelLeave, AbortRequest
<1>4. ASSUME NEW u \in Users, NEW s \in Students, NEW d \in ExamDays, NEW absent \in BOOLEAN,
             EnterMarks(u, s, d, absent)
      PROVE  Untouched
  BY <1>4 DEF EnterMarks
<1>5. ASSUME \/ DetectOverdueLeaves \/ \E l \in Leaves : AnnounceOverdue(l)
             \/ Tick \/ Crash \/ UNCHANGED vars
      PROVE  Untouched
  BY <1>5 DEF DetectOverdueLeaves, AnnounceOverdue, Tick, Crash, vars
<1> QED
  BY <1>1, <1>2, <1>3, <1>4, <1>5 DEF Next, Handler

(* A step reaches at most one milestone of one leave.                      *)
LEMMA MilestoneSteps ==
  ASSUME LeaveInv, [Next]_vars
  PROVE  Milestones!Next \/ UNCHANGED <<review, departed, returned>>
<1>1. ASSUME NEW u \in Users, ApproveLeave(u)
      PROVE  Milestones!Next
  <2>1. Milestones!Review(req[u].leave, "approved") /\ req[u].leave \in Leaves
    BY <1>1, ApproveKeepsCore DEF ApproveLeave, Milestones!Review
  <2> QED
    BY <2>1 DEF Milestones!Next
<1>2. ASSUME NEW u \in Users, RejectLeave(u)
      PROVE  Milestones!Next
  <2>1. Milestones!Review(req[u].leave, "rejected") /\ req[u].leave \in Leaves
    BY <1>2, RejectKeepsCore DEF RejectLeave, Milestones!Review
  <2> QED
    BY <2>1 DEF Milestones!Next
<1>3. ASSUME NEW u \in Users, DepartLeave(u)
      PROVE  Milestones!Next
  <2>1. Milestones!Depart(req[u].leave) /\ req[u].leave \in Leaves
    BY <1>3, BusyRequests
    DEF DepartLeave, Milestones!Depart, LeaveInv, Core, DecisionsStayTrue
  <2> QED
    BY <2>1 DEF Milestones!Next
<1>4. ASSUME NEW u \in Users, ReturnLeave(u)
      PROVE  Milestones!Next
  <2>1. Milestones!Return(req[u].leave) /\ req[u].leave \in Leaves
    BY <1>4, BusyRequests
    DEF ReturnLeave, Milestones!Return, LeaveInv, Core, DecisionsStayTrue
  <2> QED
    BY <2>1 DEF Milestones!Next
<1>5. ASSUME NEW u \in Users, NEW l \in Leaves, NEW f \in Forms, SubmitLeave(u, l, f)
      PROVE  UNCHANGED <<review, departed, returned>>
  BY <1>5 DEF SubmitLeave
<1>6. ASSUME NEW u \in Users, NEW s \in Students, NEW p \in Slots, NEW d \in Days,
             NEW st \in Marks,
             RecordAttendance(u, s, p, d, st) \/ CorrectAttendance(u, s, p, d, st)
      PROVE  UNCHANGED <<review, departed, returned>>
  BY <1>6 DEF RecordAttendance, CorrectAttendance, leaveVars
<1>7. Untouched => UNCHANGED <<review, departed, returned>>
  BY DEF Untouched
<1> QED
  BY <1>1, <1>2, <1>3, <1>4, <1>5, <1>6, <1>7, MilestoneWriters

(* Every behaviour of the handlers reaches the milestones in order, each   *)
(* once, and never takes one back.                                         *)
THEOREM KeepsMilestonesHolds == Spec => KeepsMilestones
<1>1. Init => Milestones!Init
  BY DEF Init, Milestones!Init
<1>2. LeaveInv /\ [Next]_vars => [Milestones!Next]_(Milestones!vars)
  BY MilestoneSteps DEF Milestones!vars
<1> QED
  BY LeaveInvariant, <1>1, <1>2, PTL DEF Spec, KeepsMilestones, Milestones!Spec

(* The first review of a leave is its only one.                            *)
THEOREM FirstReviewWinsHolds == Spec => FirstReviewWins
<1> DEFINE A == \A l \in Leaves : review[l] # "none" => review'[l] = review[l]
<1>1. ASSUME LeaveInv, [Next]_vars
      PROVE  A
  <2>1. CASE Milestones!Next
    BY <1>1, <2>1
    DEF Milestones!Next, Milestones!Review, Milestones!Depart, Milestones!Return,
        LeaveInv, TypeOK
  <2>2. CASE UNCHANGED <<review, departed, returned>>
    BY <2>2
  <2> QED
    BY <1>1, <2>1, <2>2, MilestoneSteps
<1>2. LeaveInv /\ [Next]_vars => [A]_vars
  BY <1>1
<1> QED
  BY LeaveInvariant, <1>2, PTL DEF Spec, FirstReviewWins

-----------------------------------------------------------------------------
(* What an approval covers does not change afterwards, nor is an           *)
(* attendance record ever removed.                                         *)
LEMMA RegisterGrows ==
  ASSUME LeaveInv, [Next]_vars
  PROVE  /\ \A l \in Leaves : status[l] # "NONE" => form'[l] = form[l]
         /\ \A m \in Students \X Slots \X Days : mark[m] # "none" => mark'[m] # "none"
<1> USE DEF LeaveInv, TypeOK
<1>1. ASSUME NEW u \in Users, NEW s \in Students, NEW p \in Slots, NEW d \in Days,
             NEW st \in Marks,
             RecordAttendance(u, s, p, d, st) \/ CorrectAttendance(u, s, p, d, st)
      PROVE  /\ form' = form
             /\ \A m \in Students \X Slots \X Days : mark[m] # "none" => mark'[m] # "none"
  BY <1>1 DEF RecordAttendance, CorrectAttendance, Marks, leaveVars
<1>2. ASSUME NEW u \in Users, ApproveLeave(u)
      PROVE  /\ form' = form
             /\ \A m \in Students \X Slots \X Days : mark[m] # "none" => mark'[m] # "none"
  BY <1>2 DEF ApproveLeave, MarksAfterApproval, Upsert
<1>3. ASSUME NEW u \in Users, NEW l \in Leaves, NEW f \in Forms, SubmitLeave(u, l, f)
      PROVE  /\ \A k \in Leaves : status[k] # "NONE" => form'[k] = form[k]
             /\ mark' = mark
  BY <1>3 DEF SubmitLeave, effectVars
<1>4. ASSUME NEW u \in Users, RejectLeave(u) \/ DepartLeave(u) \/ ReturnLeave(u)
      PROVE  form' = form /\ mark' = mark
  BY <1>4 DEF RejectLeave, DepartLeave, ReturnLeave, effectVars
<1> QED
  BY <1>1, <1>2, <1>3, <1>4, MilestoneWriters DEF Untouched

(* Every lesson an approved leave covers has an attendance record, from    *)
(* the approval on.                                                        *)
THEOREM ApprovedDaysAreMarkedHolds == Spec => []ApprovedDaysAreMarked
<1>1. Init => ApprovedDaysAreMarked
  BY DEF Init, ApprovedDaysAreMarked
<1>2. ASSUME LeaveInv, ApprovedDaysAreMarked, [Next]_vars
      PROVE  ApprovedDaysAreMarked'
  <2> SUFFICES ASSUME NEW l \in Leaves, review'[l] = "approved",
                      NEW m \in CoveredMarks(l)'
               PROVE  mark'[m] # "none"
    BY DEF ApprovedDaysAreMarked
  <2>1. m \in Students \X Slots \X Days
    BY DEF CoveredMarks
  <2>2. CASE review[l] = "approved"
    <3>1. status[l] # "NONE"
      BY <1>2, <2>2 DEF LeaveInv, Core, StatusIsEarned
    <3>2. form'[l] = form[l]
      BY <1>2, <3>1, RegisterGrows
    <3>3. m \in CoveredMarks(l)
      BY <3>2 DEF CoveredMarks, StudentOf
    <3> QED
      BY <1>2, <2>1, <2>2, <3>3, RegisterGrows DEF ApprovedDaysAreMarked
  <2>3. CASE review[l] # "approved"
    <3>1. PICK u \in Users : ApproveLeave(u) /\ req[u].leave = l
      <4>1. ASSUME NEW u \in Users, RejectLeave(u)
            PROVE  review'[l] # "approved"
        BY <1>2, <2>3, <4>1 DEF RejectLeave, LeaveInv, TypeOK
      <4>2. ASSUME NEW u \in Users, ApproveLeave(u)
            PROVE  req[u].leave = l
        BY <1>2, <2>3, <4>2 DEF ApproveLeave, LeaveInv, TypeOK
      <4>3. ASSUME NEW u \in Users, DepartLeave(u) \/ ReturnLeave(u)
            PROVE  review' = review
        BY <4>3 DEF DepartLeave, ReturnLeave
      <4>4. ASSUME NEW u \in Users, NEW k \in Leaves, NEW f \in Forms, SubmitLeave(u, k, f)
            PROVE  review' = review
        BY <4>4 DEF SubmitLeave
      <4>5. ASSUME NEW u \in Users, NEW s \in Students, NEW p \in Slots, NEW d \in Days,
                   NEW st \in Marks,
                   RecordAttendance(u, s, p, d, st) \/ CorrectAttendance(u, s, p, d, st)
            PROVE  review' = review
        BY <4>5 DEF RecordAttendance, CorrectAttendance, leaveVars
      <4>6. review' # review
        BY <2>3
      <4>7. Untouched => review' = review
        BY DEF Untouched
      <4> QED
        BY <1>2, <4>1, <4>2, <4>3, <4>4, <4>5, <4>6, <4>7, MilestoneWriters
    <3>2. m \in CoveredMarks(l)
      BY <3>1 DEF ApproveLeave, CoveredMarks, StudentOf
    <3> QED
      BY <2>1, <3>1, <3>2 DEF ApproveLeave, MarksAfterApproval, Upsert
  <2> QED
    BY <2>2, <2>3
<1>3. ApprovedDaysAreMarked /\ LeaveInv /\ [Next]_vars => ApprovedDaysAreMarked'
  BY <1>2
<1> QED
  BY LeaveInvariant, <1>1, <1>3, PTL DEF Spec

-----------------------------------------------------------------------------
(* Only an approval and the two attendance handlers write the register.    *)
LEMMA ApprovalWrites ==
  ASSUME LeaveInv, NEW u \in Users, ApproveLeave(u)
  PROVE  /\ req[u].leave \in Leaves
         /\ review[req[u].leave] = "none" /\ review'[req[u].leave] = "approved"
         /\ \A l \in Leaves : l # req[u].leave => review'[l] = review[l]
         /\ \A m \in Students \X Slots \X Days :
              mark'[m] = IF m \in CoveredMarks(req[u].leave) THEN Upsert(m) ELSE mark[m]
<1>1. req[u].leave \in Leaves
  BY BusyRequests DEF ApproveLeave, LeaveInv
<1>2. review[req[u].leave] = "none"
  <2>1. status[req[u].leave] = "PENDING"
    BY DEF ApproveLeave, LeaveInv, Core, DecisionsStayTrue, Reviewing
  <2> QED
    BY <1>1, <2>1 DEF LeaveInv, Core, StatusIsEarned
<1>3. \A m \in Students \X Slots \X Days :
        mark'[m] = IF m \in CoveredMarks(req[u].leave) THEN Upsert(m) ELSE mark[m]
  BY DEF ApproveLeave, MarksAfterApproval
<1>4. /\ review'[req[u].leave] = "approved"
      /\ \A l \in Leaves : l # req[u].leave => review'[l] = review[l]
  BY <1>1 DEF ApproveLeave, LeaveInv, TypeOK
<1> QED
  BY <1>1, <1>2, <1>3, <1>4

LEMMA RegisterWriters ==
  ASSUME LeaveInv, [Next]_vars
  PROVE  \/ \E u \in Users : ApproveLeave(u)
         \/ /\ UNCHANGED review
            /\ \E u \in Users, s \in Students, p \in Slots, d \in Days, st \in Marks :
                 RecordAttendance(u, s, p, d, st) \/ CorrectAttendance(u, s, p, d, st)
         \/ /\ UNCHANGED mark
            /\ \A l \in Leaves : review'[l] = "approved" => review[l] = "approved"
<1>1. ASSUME NEW u \in Users, NEW l \in Leaves, NEW f \in Forms, SubmitLeave(u, l, f)
      PROVE  UNCHANGED <<mark, review>>
  BY <1>1 DEF SubmitLeave, effectVars
<1>2. ASSUME NEW u \in Users, RejectLeave(u)
      PROVE  /\ UNCHANGED mark
             /\ \A l \in Leaves : review'[l] = "approved" => review[l] = "approved"
  BY <1>2 DEF RejectLeave, effectVars, LeaveInv, TypeOK
<1>3. ASSUME NEW u \in Users, DepartLeave(u) \/ ReturnLeave(u)
      PROVE  UNCHANGED <<mark, review>>
  BY <1>3 DEF DepartLeave, ReturnLeave, effectVars
<1>4. ASSUME NEW u \in Users, NEW s \in Students, NEW p \in Slots, NEW d \in Days,
             NEW st \in Marks,
             RecordAttendance(u, s, p, d, st) \/ CorrectAttendance(u, s, p, d, st)
      PROVE  UNCHANGED review
  BY <1>4 DEF RecordAttendance, CorrectAttendance, leaveVars
<1>5. CASE Untouched
  BY <1>5 DEF Untouched
<1> QED
  BY <1>1, <1>2, <1>3, <1>4, <1>5, MilestoneWriters

(* A lesson becomes Excused only with the approval of a leave that covers  *)
(* it, or by the hand of an Admin: no teacher excuses anybody.             *)
THEOREM ExcusedByApprovalOrAdminHolds == Spec => ExcusedByApprovalOrAdmin
<1> DEFINE A == \A m \in Students \X Slots \X Days :
                  mark[m] # "Excused" /\ mark'[m] = "Excused" =>
                    \/ \E l \in Leaves : /\ review[l] = "none" /\ review'[l] = "approved"
                                        /\ m \in CoveredMarks(l)
                    \/ \E u \in Users : Role[u] = "Admin" /\ req[u] = Idle
<1>1. ASSUME LeaveInv, [Next]_vars
      PROVE  A
  <2> SUFFICES ASSUME NEW m \in Students \X Slots \X Days,
                      mark[m] # "Excused", mark'[m] = "Excused"
               PROVE  \/ \E l \in Leaves : /\ review[l] = "none" /\ review'[l] = "approved"
                                          /\ m \in CoveredMarks(l)
                      \/ \E u \in Users : Role[u] = "Admin" /\ req[u] = Idle
    OBVIOUS
  <2>1. ASSUME NEW u \in Users, ApproveLeave(u)
        PROVE  \E l \in Leaves : /\ review[l] = "none" /\ review'[l] = "approved"
                                 /\ m \in CoveredMarks(l)
    BY <1>1, <2>1, ApprovalWrites
  <2>2. ASSUME NEW u \in Users, NEW s \in Students, NEW p \in Slots, NEW d \in Days,
               NEW st \in Marks,
               RecordAttendance(u, s, p, d, st) \/ CorrectAttendance(u, s, p, d, st)
        PROVE  Role[u] = "Admin" /\ req[u] = Idle
    <3>1. /\ req[u] = Idle /\ MayMark(u, p) /\ (Role[u] = "Teacher" => st # "Excused")
          /\ mark' = [mark EXCEPT ![<<s, p, d>>] = st]
      BY <2>2 DEF RecordAttendance, CorrectAttendance
    <3>2. st = "Excused"
      BY <1>1, <3>1 DEF LeaveInv, TypeOK
    <3> QED
      BY <3>1, <3>2 DEF MayMark
  <2> QED
    BY <1>1, <2>1, <2>2, RegisterWriters
<1>2. LeaveInv /\ [Next]_vars => [A]_vars
  BY <1>1
<1> QED
  BY LeaveInvariant, <1>2, PTL DEF Spec, ExcusedByApprovalOrAdmin

(* Whoever was seen in class stays seen when a leave is approved.          *)
THEOREM PresentSurvivesApprovalHolds == Spec => PresentSurvivesApproval
<1> DEFINE A == \A l \in Leaves : review[l] = "none" /\ review'[l] = "approved" =>
                  \A m \in Students \X Slots \X Days :
                    mark[m] = "Present" => mark'[m] = "Present"
<1>1. ASSUME LeaveInv, [Next]_vars
      PROVE  A
  <2>1. ASSUME NEW u \in Users, ApproveLeave(u)
        PROVE  A
    BY <1>1, <2>1, ApprovalWrites DEF Upsert
  <2> QED
    BY <1>1, <2>1, RegisterWriters
<1>2. LeaveInv /\ [Next]_vars => [A]_vars
  BY <1>1
<1> QED
  BY LeaveInvariant, <1>2, PTL DEF Spec, PresentSurvivesApproval

-----------------------------------------------------------------------------
(* The overdue job and its alerts: a departure is never taken back, and a  *)
(* leave somebody departed on is not submitted again.                      *)
LEMMA AlertsNext ==
  ASSUME LeaveInv, AlertsAreEarned, [Next]_vars
  PROVE  AlertsAreEarned'
<1>1. /\ \A l \in departed : l \in Leaves /\ status[l] # "NONE"
      /\ departed \subseteq departed'
  <2>1. \A l \in departed : l \in Leaves /\ status[l] # "NONE"
    BY DEF LeaveInv, TypeOK, Core, DepartureNeedsApproval, StatusIsEarned
  <2>2. departed \subseteq departed'
    <3>1. CASE Milestones!Next
      BY <3>1 DEF Milestones!Next, Milestones!Review, Milestones!Depart, Milestones!Return
    <3> QED
      BY <3>1, MilestoneSteps
  <2> QED
    BY <2>1, <2>2
<1>2. \A l \in alerted \cup unannounced : form'[l] = form[l]
  BY <1>1, RegisterGrows DEF AlertsAreEarned
<1>3. today \in Int /\ \A l \in Leaves : status[l] # "NONE" => form[l].due \in Int
  BY DEF LeaveInv, TypeOK, Core, SubmittedForms, Forms, Days
<1>4. ASSUME (alerted \cup unannounced)' \subseteq alerted \cup unannounced, today' >= today,
             today' \in Int
      PROVE  AlertsAreEarned'
  <2> SUFFICES ASSUME NEW l \in (alerted \cup unannounced)'
               PROVE  l \in departed' /\ form'[l].due < today'
    BY DEF AlertsAreEarned
  <2>1. l \in departed /\ form[l].due < today /\ form'[l] = form[l]
    BY <1>2, <1>4 DEF AlertsAreEarned
  <2>2. form[l].due \in Int
    BY <1>1, <1>3, <2>1
  <2> QED
    BY <1>1, <1>3, <1>4, <2>1, <2>2
<1>5. ASSUME UNCHANGED <<jobVars, today>>
      PROVE  AlertsAreEarned'
  BY <1>3, <1>4, <1>5 DEF jobVars
<1>6. CASE DetectOverdueLeaves
  <2> SUFFICES ASSUME NEW l \in (alerted \cup unannounced)'
               PROVE  l \in departed' /\ form'[l].due < today'
    BY DEF AlertsAreEarned
  <2>1. CASE l \in alerted \cup unannounced
    BY <1>6, <2>1 DEF DetectOverdueLeaves, AlertsAreEarned
  <2>2. CASE l \in Leaves /\ IsLate(l)
    BY <1>6, <2>2 DEF DetectOverdueLeaves, IsLate, LeaveInv, Core, StatusIsEarned
  <2> QED
    BY <1>6, <2>1, <2>2 DEF DetectOverdueLeaves
<1>7. ASSUME NEW l \in Leaves, AnnounceOverdue(l)
      PROVE  AlertsAreEarned'
  BY <1>3, <1>4, <1>7 DEF AnnounceOverdue
<1>8. CASE Tick
  BY <1>3, <1>4, <1>8 DEF Tick, jobVars
<1>9. CASE Crash
  BY <1>3, <1>4, <1>9 DEF Crash
<1>10. ASSUME NEW u \in Users, Handler(u)
       PROVE  AlertsAreEarned'
  BY <1>5, <1>10
  DEF Handler, SubmitLeave, StartReview, ReadLeave, ApproveLeave, RejectLeave, CancelLeave,
      DepartLeave, ReturnLeave, AbortRequest, RecordAttendance, CorrectAttendance, EnterMarks
<1>11. CASE UNCHANGED vars
  BY <1>5, <1>11 DEF vars
<1> QED
  BY <1>6, <1>7, <1>8, <1>9, <1>10, <1>11 DEF Next

(* The Admins are alerted only about a student who did leave the campus    *)
(* and was due back before today.                                          *)
THEOREM AlertsAreEarnedHolds == Spec => []AlertsAreEarned
<1>1. Init => AlertsAreEarned
  BY DEF Init, AlertsAreEarned
<1>2. LeaveInv /\ AlertsAreEarned /\ [Next]_vars => AlertsAreEarned'
  BY AlertsNext
<1> QED
  BY LeaveInvariant, <1>1, <1>2, PTL DEF Spec

-----------------------------------------------------------------------------
(* One request at a time follows the documented state machine: what a      *)
(* request read of a leave is still so when it writes, but for the overdue *)
(* job, which no request has to look out for.                              *)
ReadsAreCurrent ==
  \A u \in Users :
    /\ req[u].op = "cancel" => status[req[u].leave] = "PENDING"
    /\ req[u].op = "depart" => status[req[u].leave] = "APPROVED"
    /\ req[u].op = "return" => status[req[u].leave] \in {"ACTIVE", "OVERDUE"}

SerialInv == LeaveInv /\ ReadsAreCurrent

LEMMA OpOfBusy ==
  ASSUME TypeOK, NEW u \in Users
  PROVE  req[u] = Idle <=> req[u].op = "idle"
  BY DEF TypeOK, Requests, Idle

(* How a request in flight came to be there, and what its leave went       *)
(* through meanwhile.                                                      *)
LEMMA InFlight ==
  ASSUME LeaveInv, OneRequest, OneRequest', [Next]_vars, NEW u \in Users,
         req'[u].op \in {"cancel", "depart", "return"}
  PROVE  \/ /\ Allowed(u, req'[u].leave, req'[u].op)
            /\ UNCHANGED status
         \/ /\ req'[u] = req[u]
            /\ \/ status'[req[u].leave] = status[req[u].leave]
               \/ status[req[u].leave] = "ACTIVE" /\ status'[req[u].leave] = "OVERDUE"
<1> DEFINE Goal == \/ /\ Allowed(u, req'[u].leave, req'[u].op)
                      /\ UNCHANGED status
                   \/ /\ req'[u] = req[u]
                      /\ \/ status'[req[u].leave] = status[req[u].leave]
                         \/ status[req[u].leave] = "ACTIVE" /\ status'[req[u].leave] = "OVERDUE"
<1> USE DEF leaveVars, effectVars, jobVars
<1>0. TypeOK /\ TypeOK' /\ req' # [v \in Users |-> Idle]
  BY TypeNext DEF LeaveInv, Idle
<1>1. req'[u] # Idle /\ \A v \in Users : v # u => req'[v] = Idle
  BY DEF OneRequest, Idle
<1>2. UNCHANGED <<req, status>> => Goal
  OBVIOUS
<1>3. ASSUME NEW v \in Users, req' = [req EXCEPT ![v] = Idle], req[v] # Idle
      PROVE  FALSE
  <2>1. req'[v] = Idle
    BY <1>0, <1>3 DEF TypeOK
  <2>2. v # u /\ req'[u] = req[u]
    BY <1>0, <1>1, <1>3, <2>1 DEF TypeOK
  <2> QED
    BY <1>1, <1>3, <2>2 DEF OneRequest
<1>4. ASSUME NEW v \in Users, NEW l \in Leaves, NEW op \in Ops,
             req' = [req EXCEPT ![v] = [op |-> op, leave |-> l]]
      PROVE  v = u /\ req'[u].op = op /\ req'[u].leave = l
  <2>1. req'[v].op = op /\ req'[v].leave = l /\ op # "idle"
    BY <1>0, <1>4, TakeUp DEF Ops
  <2> QED
    BY <1>1, <2>1 DEF Idle
<1>5. ASSUME NEW v \in Users, NEW l \in Leaves, NEW op \in {"cancel", "depart", "return"},
             ReadLeave(v, l, op)
      PROVE  Goal
  BY <1>4, <1>5 DEF ReadLeave, Ops
<1>6. ASSUME NEW v \in Users, NEW l \in Leaves, NEW op \in {"approve", "reject"},
             StartReview(v, l, op)
      PROVE  Goal
  BY <1>4, <1>6 DEF StartReview, Ops
<1>7. ASSUME NEW v \in Users,
             \/ ApproveLeave(v) \/ RejectLeave(v) \/ CancelLeave(v)
             \/ DepartLeave(v) \/ ReturnLeave(v) \/ AbortRequest(v)
      PROVE  FALSE
  BY <1>3, <1>7
  DEF ApproveLeave, RejectLeave, CancelLeave, DepartLeave, ReturnLeave, AbortRequest, Idle
<1>8. ASSUME NEW v \in Users, NEW l \in Leaves, NEW f \in Forms, SubmitLeave(v, l, f)
      PROVE  Goal
  <2>1. req' = req /\ status' = [status EXCEPT ![l] = "PENDING"] /\ status[l] = "NONE"
    BY <1>8 DEF SubmitLeave
  <2>2. req[u].op # "idle" /\ status[req[u].leave] # "NONE"
    BY <2>1 DEF LeaveInv, Core, SubmittedForms
  <2>3. req[u].leave \in Leaves
    BY <1>0, <2>2, BusyRequests
  <2> QED
    BY <1>0, <2>1, <2>2, <2>3 DEF TypeOK
<1>9. ASSUME DetectOverdueLeaves
      PROVE  Goal
  <2>1. req' = req /\ status' = [l \in Leaves |-> IF IsLate(l) THEN "OVERDUE" ELSE status[l]]
    BY <1>9 DEF DetectOverdueLeaves
  <2>2. req[u].leave \in Leaves
    BY <1>0, <2>1, BusyRequests
  <2> QED
    BY <2>1, <2>2 DEF IsLate
<1>10. ASSUME NEW v \in Users, NEW s \in Students, NEW p \in Slots, NEW d \in Days, NEW st \in Marks,
              RecordAttendance(v, s, p, d, st) \/ CorrectAttendance(v, s, p, d, st)
       PROVE  Goal
  BY <1>2, <1>10 DEF RecordAttendance, CorrectAttendance
<1>11. ASSUME NEW v \in Users, NEW s \in Students, NEW d \in ExamDays, NEW absent \in BOOLEAN,
              EnterMarks(v, s, d, absent)
       PROVE  Goal
  BY <1>2, <1>11 DEF EnterMarks
<1>12. ASSUME NEW l \in Leaves, AnnounceOverdue(l)
       PROVE  Goal
  BY <1>2, <1>12 DEF AnnounceOverdue
<1>13. ASSUME Tick \/ UNCHANGED vars
       PROVE  Goal
  BY <1>2, <1>13 DEF Tick, vars
<1>14. ~ Crash
  BY <1>0 DEF Crash
<1> HIDE DEF Goal
<1>15. ASSUME NEW v \in Users, Handler(v)
       PROVE  Goal
  BY <1>5, <1>6, <1>7, <1>8, <1>10, <1>11, <1>15 DEF Handler
<1>16. ASSUME Next
       PROVE  Goal
  BY <1>9, <1>12, <1>13, <1>14, <1>15, <1>16 DEF Next
<1>17. Goal
  BY <1>13, <1>16
<1> QED
  BY <1>17 DEF Goal

LEMMA SerialNext ==
  ASSUME SerialInv, OneRequest, OneRequest', [Next]_vars
  PROVE  SerialInv'
<1>1. LeaveInv'
  BY LeaveNext DEF SerialInv
<1>2. ReadsAreCurrent'
  <2> SUFFICES ASSUME NEW u \in Users, req'[u].op \in {"cancel", "depart", "return"}
               PROVE  /\ req'[u].op = "cancel" => status'[req'[u].leave] = "PENDING"
                      /\ req'[u].op = "depart" => status'[req'[u].leave] = "APPROVED"
                      /\ req'[u].op = "return" => status'[req'[u].leave] \in {"ACTIVE", "OVERDUE"}
    BY DEF ReadsAreCurrent
  <2>1. CASE Allowed(u, req'[u].leave, req'[u].op) /\ UNCHANGED status
    BY <2>1 DEF Allowed
  <2>2. CASE /\ req'[u] = req[u]
             /\ \/ status'[req[u].leave] = status[req[u].leave]
                \/ status[req[u].leave] = "ACTIVE" /\ status'[req[u].leave] = "OVERDUE"
    BY <2>2 DEF SerialInv, ReadsAreCurrent
  <2> QED
    BY <2>1, <2>2, InFlight DEF SerialInv
<1> QED
  BY <1>1, <1>2 DEF SerialInv

(* What one step does to the status of the leaves is one transition.       *)
LEMMA OneTransition ==
  ASSUME TypeOK, NEW l \in Leaves, NEW a \in StateMachine!Actions \ {"mark_overdue"},
         status[l] # "NONE", a \in StateMachine!ValidTransitions[status[l]],
         status' = [status EXCEPT ![l] = StateMachine!ActionTarget[a]]
  PROVE  StateMachine!Next
<1>1. status' = [k \in Leaves |-> IF k \in {l} THEN StateMachine!ActionTarget[a] ELSE status[k]]
  BY DEF TypeOK
<1>2. StateMachine!Transition(a, {l})
  BY <1>1 DEF StateMachine!Transition
<1> QED
  BY <1>2 DEF StateMachine!Next

LEMMA MachineStep ==
  ASSUME SerialInv, [Next]_vars
  PROVE  StateMachine!Next \/ UNCHANGED status
<1> USE DEF leaveVars, effectVars, jobVars
<1>0. TypeOK /\ LeaveInv /\ ReadsAreCurrent
  BY DEF SerialInv, LeaveInv
<1> DEFINE Machine(l, a) ==
      /\ a \in StateMachine!Actions \ {"mark_overdue"}
      /\ a \in StateMachine!ValidTransitions[status[l]]
<1>a. ASSUME NEW l \in Leaves
      PROVE  /\ status[l] = "PENDING" =>
                  Machine(l, "approve") /\ Machine(l, "reject") /\ Machine(l, "cancel")
             /\ status[l] = "APPROVED" => Machine(l, "depart")
             /\ status[l] \in {"ACTIVE", "OVERDUE"} => Machine(l, "return")
  BY DEF StateMachine!Actions, StateMachine!ValidTransitions
<1>1. ASSUME NEW u \in Users, ApproveLeave(u) \/ RejectLeave(u)
      PROVE  StateMachine!Next
  <2>1. req[u].leave \in Leaves /\ status[req[u].leave] = "PENDING"
    BY <1>0, <1>1, BusyRequests
    DEF ApproveLeave, RejectLeave, LeaveInv, Core, DecisionsStayTrue, Reviewing
  <2>2. CASE ApproveLeave(u)
    <3>1. status' = [status EXCEPT ![req[u].leave] = StateMachine!ActionTarget["approve"]]
      BY <2>2 DEF ApproveLeave, StateMachine!ActionTarget
    <3> QED
      BY <1>0, <1>a, <2>1, <3>1, OneTransition
  <2>3. CASE RejectLeave(u)
    <3>1. status' = [status EXCEPT ![req[u].leave] = StateMachine!ActionTarget["reject"]]
      BY <2>3 DEF RejectLeave, StateMachine!ActionTarget
    <3> QED
      BY <1>0, <1>a, <2>1, <3>1, OneTransition
  <2> QED
    BY <1>1, <2>2, <2>3
<1>2. ASSUME NEW u \in Users, CancelLeave(u)
      PROVE  StateMachine!Next
  <2>1. req[u].leave \in Leaves /\ status[req[u].leave] = "PENDING"
    BY <1>0, <1>2, BusyRequests DEF CancelLeave, ReadsAreCurrent
  <2>2. status' = [status EXCEPT ![req[u].leave] = StateMachine!ActionTarget["cancel"]]
    BY <1>2 DEF CancelLeave, StateMachine!ActionTarget
  <2> QED
    BY <1>0, <1>a, <2>1, <2>2, OneTransition
<1>3. ASSUME NEW u \in Users, DepartLeave(u)
      PROVE  StateMachine!Next
  <2>1. req[u].leave \in Leaves /\ status[req[u].leave] = "APPROVED"
    BY <1>0, <1>3, BusyRequests DEF DepartLeave, ReadsAreCurrent
  <2>2. status' = [status EXCEPT ![req[u].leave] = StateMachine!ActionTarget["depart"]]
    BY <1>3 DEF DepartLeave, StateMachine!ActionTarget
  <2> QED
    BY <1>0, <1>a, <2>1, <2>2, OneTransition
<1>4. ASSUME NEW u \in Users, ReturnLeave(u)
      PROVE  StateMachine!Next
  <2>1. req[u].leave \in Leaves /\ status[req[u].leave] \in {"ACTIVE", "OVERDUE"}
    BY <1>0, <1>4, BusyRequests DEF ReturnLeave, ReadsAreCurrent
  <2>2. status' = [status EXCEPT ![req[u].leave] = StateMachine!ActionTarget["return"]]
    BY <1>4 DEF ReturnLeave, StateMachine!ActionTarget
  <2> QED
    BY <1>0, <1>a, <2>1, <2>2, OneTransition
<1>5. ASSUME NEW u \in Users, NEW l \in Leaves, NEW f \in Forms, SubmitLeave(u, l, f)
      PROVE  StateMachine!Next
  BY <1>5 DEF SubmitLeave, StateMachine!Next, StateMachine!Submit
<1>6. CASE DetectOverdueLeaves
  <2> DEFINE late == {l \in Leaves : IsLate(l)}
  <2>1. \A l \in late : status[l] = "ACTIVE"
    BY DEF IsLate
  <2>2. status' = [l \in Leaves |-> IF l \in late THEN "OVERDUE" ELSE status[l]]
    BY <1>6 DEF DetectOverdueLeaves
  <2>3. late \in SUBSET Leaves
    OBVIOUS
  <2> HIDE DEF late
  <2>4. StateMachine!Transition("mark_overdue", late)
    BY <2>1, <2>2
    DEF StateMachine!Transition, StateMachine!ValidTransitions, StateMachine!ActionTarget
  <2> QED
    BY <2>3, <2>4 DEF StateMachine!Next
<1>7. ASSUME NEW u \in Users, NEW l \in Leaves, NEW op \in {"approve", "reject"},
             StartReview(u, l, op)
      PROVE  UNCHANGED status
  BY <1>7 DEF StartReview
<1>8. ASSUME NEW u \in Users, NEW l \in Leaves, NEW op \in {"cancel", "depart", "return"},
             ReadLeave(u, l, op)
      PROVE  UNCHANGED status
  BY <1>8 DEF ReadLeave
<1>9. ASSUME NEW u \in Users, NEW s \in Students, NEW p \in Slots, NEW d \in Days, NEW st \in Marks,
             RecordAttendance(u, s, p, d, st) \/ CorrectAttendance(u, s, p, d, st)
      PROVE  UNCHANGED status
  BY <1>9 DEF RecordAttendance, CorrectAttendance
<1>10. ASSUME NEW u \in Users, NEW s \in Students, NEW d \in ExamDays, NEW absent \in BOOLEAN,
              EnterMarks(u, s, d, absent)
       PROVE  UNCHANGED status
  BY <1>10 DEF EnterMarks
<1>11. ASSUME NEW u \in Users, AbortRequest(u)
       PROVE  UNCHANGED status
  BY <1>11 DEF AbortRequest
<1>12. ASSUME NEW l \in Leaves, AnnounceOverdue(l)
       PROVE  UNCHANGED status
  BY <1>12 DEF AnnounceOverdue
<1>13. Tick \/ Crash \/ UNCHANGED vars => UNCHANGED status
  BY DEF Tick, Crash, vars
<1> DEFINE Goal == StateMachine!Next \/ UNCHANGED status
<1>14. ASSUME NEW u \in Users, Handler(u)
       PROVE  Goal
  <2> HIDE DEF Goal
  <2>1. (StateMachine!Next \/ UNCHANGED status) => Goal
    BY DEF Goal
  <2> QED
    BY <1>1, <1>2, <1>3, <1>4, <1>5, <1>7, <1>8, <1>9, <1>10, <1>11, <1>14, <2>1 DEF Handler
<1> QED
  BY <1>6, <1>12, <1>13, <1>14 DEF Next

(* While at most one request on leaves is in flight, next to the overdue   *)
(* job, the calendar, the attendance, the marks and crashes, the status of *)
(* each leave goes the documented ways only (utils/leaveStateMachine.ts);  *)
(* two requests may leave them.                                            *)
THEOREM FollowsStateMachineForOneRequest ==
  Spec /\ []OneRequest => FollowsStateMachine
<1>1. Init => SerialInv
  <2>1. Init => ReadsAreCurrent
    BY DEF Init, ReadsAreCurrent, Idle
  <2> QED
    BY <2>1, LeaveInit DEF SerialInv
<1>2. SerialInv /\ OneRequest /\ OneRequest' /\ [Next]_vars => SerialInv'
  BY SerialNext
<1>3. Init => StateMachine!Init
  BY DEF Init, StateMachine!Init
<1>4. SerialInv /\ [Next]_vars => [StateMachine!Next]_status
  BY MachineStep
<1> QED
  BY <1>1, <1>2, <1>3, <1>4, PTL DEF Spec, FollowsStateMachine, StateMachine!Spec
=============================================================================
