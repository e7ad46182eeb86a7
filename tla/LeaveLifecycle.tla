--------------------------- MODULE LeaveLifecycle ---------------------------
(***************************************************************************)
(* Leave requests: the handlers of modules/leave, the overdue job of       *)
(* services/cron.service.ts, and the tables an approval writes besides its *)
(* own (attendance records, exam results), shared with the attendance and  *)
(* the marks handlers.                                                     *)
(*                                                                         *)
(* A handler is a sequence of database statements, and other handlers run  *)
(* between two of them.  approve and reject hold row locks from SELECT ... *)
(* FOR UPDATE to COMMIT; cancel, depart and return read the row without a  *)
(* lock, decide, and write later whatever the row holds by then.  So each  *)
(* of these operations is two actions: one that reads and decides, leaving *)
(* the decision in req[u], and one that writes.                            *)
(***************************************************************************)
EXTENDS Integers

CONSTANTS
  Leaves,        \* leave request ids
  Users,         \* signed-in users; each has at most one request in flight
  Students,
  Classes,
  Slots,         \* the timeslots of the timetable
  Role,          \* [Users -> {"Admin", "Teacher", "Guardian"}]
  TeacherClass,  \* the class a user is class teacher of (JWT), or NoClass
  Ward,          \* the students a guardian is linked to
  MaySubmit,     \* guardians.can_submit_leave
  ClassOf,       \* students.class_id, or NoClass
  SlotClass,     \* timeslots.class_id
  SlotTeacher,   \* timeslots.teacher_id
  ExamDays,      \* the days that have an exam subject
  MaxDay,        \* bound on the calendar
  NoClass,
  NoLeave,
  NoForm

Days == 1..MaxDay

ASSUME RolesAssumption == Role \in [Users -> {"Admin", "Teacher", "Guardian"}]

ASSUME DirectoryAssumption ==
  /\ ClassOf \in [Students -> Classes \cup {NoClass}]
  /\ TeacherClass \in [Users -> Classes \cup {NoClass}]
  /\ Ward \in [Users -> SUBSET Students]
  /\ MaySubmit \in [Users -> BOOLEAN]
  /\ SlotClass \in [Slots -> Classes]
  /\ SlotTeacher \in [Slots -> Users]
  /\ ExamDays \subseteq Days

ASSUME BoundAssumption == MaxDay \in Nat \ {0}

Forms == [student : Students, first : Days, last : Days, due : Days]

ASSUME NullAssumption == NoLeave \notin Leaves /\ NoForm \notin Forms

VARIABLES
  status,        \* leave_requests.status; "NONE" while there is no row
  form,          \* what was submitted: student, start and end date, expected return
  review,        \* reviewed_by and rejection_reason: none, approved or rejected
  departed,      \* the leaves whose departed_at is set
  returned,      \* the leaves whose returned_at is set
  mark,          \* attendance_records.status by student, timeslot and day
  result,        \* exam_results by student and exam day: none, sat or absent
  req,           \* the request each user has in flight
  unannounced,   \* overdue leaves the running job has still to announce
  alerted,       \* leaves the admins have a LEAVE_OVERDUE notification about
  today          \* the date

leaveVars == <<status, form, review, departed, returned>>
effectVars == <<mark, result>>
jobVars == <<unannounced, alerted>>
vars == <<leaveVars, effectVars, req, jobVars, today>>

LeaveStatuses == {"PENDING", "APPROVED", "REJECTED", "CANCELLED",
                  "ACTIVE", "OVERDUE", "COMPLETED"}

Marks == {"Present", "Absent", "Late", "Excused"}

Idle == [op |-> "idle", leave |-> NoLeave]

Requests == {Idle} \cup
  [op : {"approve", "reject", "cancel", "depart", "return"}, leave : Leaves]

TypeOK ==
  /\ status \in [Leaves -> LeaveStatuses \cup {"NONE"}]
  /\ form \in [Leaves -> Forms \cup {NoForm}]
  /\ review \in [Leaves -> {"none", "approved", "rejected"}]
  /\ departed \in SUBSET Leaves
  /\ returned \in SUBSET Leaves
  /\ mark \in [Students \X Slots \X Days -> Marks \cup {"none"}]
  /\ result \in [Students \X ExamDays -> {"none", "sat", "absent"}]
  /\ req \in [Users -> Requests]
  /\ unannounced \in SUBSET Leaves
  /\ alerted \in SUBSET Leaves
  /\ today \in Days

-----------------------------------------------------------------------------
(* Who may do what.                                                        *)

StudentOf(l) == form[l].student

(* A teacher who is nobody's class teacher may review any leave.           *)
MayReview(u, l) ==
  \/ Role[u] = "Admin"
  \/ /\ Role[u] = "Teacher"
     /\ TeacherClass[u] \in {NoClass, ClassOf[StudentOf(l)]}

(* null = null in the code too: a teacher without a class may record the   *)
(* departure of a student without one.                                     *)
MayEscort(u, l) ==
  \/ Role[u] = "Admin"
  \/ Role[u] = "Teacher" /\ TeacherClass[u] = ClassOf[StudentOf(l)]

MayCancel(u, l) ==
  \/ Role[u] = "Admin"
  \/ Role[u] = "Guardian" /\ StudentOf(l) \in Ward[u]

MayMark(u, p) ==
  \/ Role[u] = "Admin"
  \/ Role[u] = "Teacher" /\ SlotTeacher[p] = u

-----------------------------------------------------------------------------
(* Row locks.  A review in flight holds the row of its leave and, the      *)
(* SELECT being a join, the row of the student.                            *)
Reviewing(u) == req[u].op \in {"approve", "reject"}

(* A bug to detect: SELECT without FOR UPDATE.                             *)
LeaveRowUnlocked(l) == TRUE

LeaveRowFree(l) == \A u \in Users : Reviewing(u) => req[u].leave # l

StudentRowFree(s) == \A u \in Users : Reviewing(u) => StudentOf(req[u].leave) # s

-----------------------------------------------------------------------------
Init ==
  /\ status = [l \in Leaves |-> "NONE"]
  /\ form = [l \in Leaves |-> NoForm]
  /\ review = [l \in Leaves |-> "none"]
  /\ departed = {}
  /\ returned = {}
  /\ mark = [m \in Students \X Slots \X Days |-> "none"]
  /\ result = [e \in Students \X ExamDays |-> "none"]
  /\ req = [u \in Users |-> Idle]
  /\ unannounced = {}
  /\ alerted = {}
  /\ today = 1

(* POST /leave.  The dates of a request are checked against each other     *)
(* only: they may lie in the past, and the expected return anywhere.  The  *)
(* INSERT takes a key lock on the student.                                 *)
SubmitLeave(u, l, f) ==
  /\ req[u] = Idle
  /\ status[l] = "NONE"
  /\ f.first <= f.last
  /\ Role[u] = "Guardian" => f.student \in Ward[u] /\ MaySubmit[u]
  /\ StudentRowFree(f.student)
  /\ status' = [status EXCEPT ![l] = "PENDING"]
  /\ form' = [form EXCEPT ![l] = f]
  /\ UNCHANGED <<review, departed, returned, effectVars, req, jobVars, today>>

(* A bug to detect: the status is not looked at again under the lock.      *)
StartReviewOfAny(u, l, op) ==
  /\ req[u] = Idle
  /\ status[l] # "NONE"
  /\ LeaveRowFree(l)
  /\ StudentRowFree(StudentOf(l))
  /\ MayReview(u, l)
  /\ req' = [req EXCEPT ![u] = [op |-> op, leave |-> l]]
  /\ UNCHANGED <<leaveVars, effectVars, jobVars, today>>

(* PUT /leave/:id/approve and /reject, up to the locked read and its       *)
(* checks.  A check that fails rolls back and leaves no trace.             *)
StartReview(u, l, op) ==
  /\ req[u] = Idle
  /\ status[l] = "PENDING"
  /\ LeaveRowFree(l)
  /\ StudentRowFree(StudentOf(l))
  /\ MayReview(u, l)
  /\ req' = [req EXCEPT ![u] = [op |-> op, leave |-> l]]
  /\ UNCHANGED <<leaveVars, effectVars, jobVars, today>>

(* The attendance records and the exam results an approval covers.         *)
CoveredMarks(l) ==
  {m \in Students \X Slots \X Days :
     /\ m[1] = StudentOf(l)
     /\ SlotClass[m[2]] = ClassOf[StudentOf(l)]
     /\ m[3] \in form[l].first .. form[l].last}

CoveredResults(l) ==
  {e \in Students \X ExamDays :
     /\ e[1] = StudentOf(l)
     /\ e[2] \in form[l].first .. form[l].last
     /\ result[e] # "none"}

(* The upsert per date and timeslot, which spares a student seen present.  *)
Upsert(m) == IF mark[m] = "Present" THEN "Present" ELSE "Excused"

(* Two bugs to detect: no conflict clause, and a loop that stops before    *)
(* the last date.                                                          *)
MarksOverwritten(l) ==
  [m \in Students \X Slots \X Days |->
     IF m \in CoveredMarks(l) THEN "Excused" ELSE mark[m]]

MarksButTheLastDay(l) ==
  [m \in Students \X Slots \X Days |->
     IF m \in CoveredMarks(l) /\ m[3] # form[l].last THEN Upsert(m) ELSE mark[m]]

MarksAfterApproval(l) ==
  [m \in Students \X Slots \X Days |->
     IF m \in CoveredMarks(l) THEN Upsert(m) ELSE mark[m]]

(* The rest of the approval, which COMMIT makes visible at once.           *)
ApproveLeave(u) ==
  /\ req[u].op = "approve"
  /\ LET l == req[u].leave IN
     /\ status' = [status EXCEPT ![l] = "APPROVED"]
     /\ review' = [review EXCEPT ![l] = "approved"]
     /\ mark' = MarksAfterApproval(l)
     /\ result' = [e \in Students \X ExamDays |->
                     IF e \in CoveredResults(l) THEN "absent" ELSE result[e]]
  /\ req' = [req EXCEPT ![u] = Idle]
  /\ UNCHANGED <<form, departed, returned, jobVars, today>>

RejectLeave(u) ==
  /\ req[u].op = "reject"
  /\ status' = [status EXCEPT ![req[u].leave] = "REJECTED"]
  /\ review' = [review EXCEPT ![req[u].leave] = "rejected"]
  /\ req' = [req EXCEPT ![u] = Idle]
  /\ UNCHANGED <<form, departed, returned, effectVars, jobVars, today>>

(* Bugs to detect: a return before the departure, and the cancellation of  *)
(* an approved leave.                                                      *)
AllowedEarlyReturn(u, l, op) ==
  \/ op = "cancel" /\ status[l] = "PENDING" /\ MayCancel(u, l)
  \/ op = "depart" /\ status[l] = "APPROVED" /\ MayEscort(u, l)
  \/ op = "return" /\ status[l] \in {"APPROVED", "ACTIVE", "OVERDUE"} /\ MayEscort(u, l)

AllowedLateCancel(u, l, op) ==
  \/ op = "cancel" /\ status[l] \in {"PENDING", "APPROVED"} /\ MayCancel(u, l)
  \/ op = "depart" /\ status[l] = "APPROVED" /\ MayEscort(u, l)
  \/ op = "return" /\ status[l] \in {"ACTIVE", "OVERDUE"} /\ MayEscort(u, l)

(* The checks of cancel, depart and return.                                *)
Allowed(u, l, op) ==
  \/ op = "cancel" /\ status[l] = "PENDING" /\ MayCancel(u, l)
  \/ op = "depart" /\ status[l] = "APPROVED" /\ MayEscort(u, l)
  \/ op = "return" /\ status[l] \in {"ACTIVE", "OVERDUE"} /\ MayEscort(u, l)

(* Their unlocked read.                                                    *)
ReadLeave(u, l, op) ==
  /\ req[u] = Idle
  /\ Allowed(u, l, op)
  /\ req' = [req EXCEPT ![u] = [op |-> op, leave |-> l]]
  /\ UNCHANGED <<leaveVars, effectVars, jobVars, today>>

(* Their UPDATEs, WHERE id = ... only.  They wait for a review that holds  *)
(* the row, and then overwrite what it wrote.                              *)
CancelLeave(u) ==
  /\ req[u].op = "cancel"
  /\ LeaveRowFree(req[u].leave)
  /\ status' = [status EXCEPT ![req[u].leave] = "CANCELLED"]
  /\ req' = [req EXCEPT ![u] = Idle]
  /\ UNCHANGED <<form, review, departed, returned, effectVars, jobVars, today>>

(* A bug to detect: the departure is not stamped.                          *)
DepartLeaveUnstamped(u) ==
  /\ req[u].op = "depart"
  /\ LeaveRowFree(req[u].leave)
  /\ status' = [status EXCEPT ![req[u].leave] = "ACTIVE"]
  /\ req' = [req EXCEPT ![u] = Idle]
  /\ UNCHANGED <<form, review, departed, returned, effectVars, jobVars, today>>

DepartLeave(u) ==
  /\ req[u].op = "depart"
  /\ LeaveRowFree(req[u].leave)
  /\ status' = [status EXCEPT ![req[u].leave] = "ACTIVE"]
  /\ departed' = departed \cup {req[u].leave}
  /\ req' = [req EXCEPT ![u] = Idle]
  /\ UNCHANGED <<form, review, returned, effectVars, jobVars, today>>

(* A bug to detect: a status the column does not allow.                    *)
ReturnLeaveMisspelt(u) ==
  /\ req[u].op = "return"
  /\ LeaveRowFree(req[u].leave)
  /\ status' = [status EXCEPT ![req[u].leave] = "RETURNED"]
  /\ returned' = returned \cup {req[u].leave}
  /\ req' = [req EXCEPT ![u] = Idle]
  /\ UNCHANGED <<form, review, departed, effectVars, jobVars, today>>

ReturnLeave(u) ==
  /\ req[u].op = "return"
  /\ LeaveRowFree(req[u].leave)
  /\ status' = [status EXCEPT ![req[u].leave] = "COMPLETED"]
  /\ returned' = returned \cup {req[u].leave}
  /\ req' = [req EXCEPT ![u] = Idle]
  /\ UNCHANGED <<form, review, departed, effectVars, jobVars, today>>

(* A statement fails or times out: the handler answers with an error, and  *)
(* a transaction is rolled back.                                           *)
AbortRequest(u) ==
  /\ req[u] # Idle
  /\ req' = [req EXCEPT ![u] = Idle]
  /\ UNCHANGED <<leaveVars, effectVars, jobVars, today>>

-----------------------------------------------------------------------------
(* The attendance and the marks handlers that write the same tables.       *)

(* A bug to detect: the list of statuses does not depend on the role.      *)
RecordAttendanceAnyStatus(u, s, p, d, st) ==
  /\ req[u] = Idle
  /\ MayMark(u, p)
  /\ Role[u] = "Teacher" => d >= today
  /\ mark[<<s, p, d>>] = "none" => StudentRowFree(s)
  /\ mark' = [mark EXCEPT ![<<s, p, d>>] = st]
  /\ UNCHANGED <<leaveVars, result, req, jobVars, today>>

(* POST /attendance/record-class for one student; teachers may not         *)
(* backdate, and may not excuse.  A new record takes a key lock on the     *)
(* student and so waits for a review of a leave of that student; the       *)
(* upsert of an old one does not.                                          *)
RecordAttendance(u, s, p, d, st) ==
  /\ req[u] = Idle
  /\ MayMark(u, p)
  /\ Role[u] = "Teacher" => d >= today /\ st # "Excused"
  /\ mark[<<s, p, d>>] = "none" => StudentRowFree(s)
  /\ mark' = [mark EXCEPT ![<<s, p, d>>] = st]
  /\ UNCHANGED <<leaveVars, result, req, jobVars, today>>

(* PUT /attendance/:recordId: an existing record of a day that has begun.  *)
(* The check that the status differs is made on an earlier read; writing   *)
(* the same status again changes nothing modelled here.                    *)
CorrectAttendance(u, s, p, d, st) ==
  /\ req[u] = Idle
  /\ MayMark(u, p)
  /\ Role[u] = "Teacher" => st # "Excused"
  /\ mark[<<s, p, d>>] # "none"
  /\ d <= today
  /\ mark' = [mark EXCEPT ![<<s, p, d>>] = st]
  /\ UNCHANGED <<leaveVars, result, req, jobVars, today>>

(* POST /exams/:id/subjects/:sid/marks for one student: the upsert sets    *)
(* is_absent to what the teacher sent, whatever a leave had put there.     *)
(* The state of the exam is left out: marks may be entered until it is     *)
(* published, and again after it is unpublished.                           *)
EnterMarks(u, s, d, absent) ==
  /\ req[u] = Idle
  /\ Role[u] \in {"Teacher", "Admin"}
  /\ result[<<s, d>>] = "none" => StudentRowFree(s)
  /\ result' = [result EXCEPT ![<<s, d>>] = IF absent THEN "absent" ELSE "sat"]
  /\ UNCHANGED <<leaveVars, mark, req, jobVars, today>>

-----------------------------------------------------------------------------
(* The overdue job: one UPDATE ... RETURNING, then a notification for each *)
(* row it returned, whose failure is logged and forgotten.                 *)

(* A bug to detect: a leave that ends today counts as late.                *)
IsLateToday(l) == status[l] = "ACTIVE" /\ form[l].due <= today

IsLate(l) == status[l] = "ACTIVE" /\ form[l].due < today

(* A bug to detect: no new run while the last one has leaves to announce.  *)
DetectOverdueOnce ==
  /\ unannounced = {}
  /\ \E l \in Leaves : IsLate(l)
  /\ status' = [l \in Leaves |-> IF IsLate(l) THEN "OVERDUE" ELSE status[l]]
  /\ unannounced' = {l \in Leaves : IsLate(l)}
  /\ UNCHANGED <<form, review, departed, returned, effectVars, req, alerted, today>>

DetectOverdueLeaves ==
  /\ \E l \in Leaves : IsLate(l)
  /\ status' = [l \in Leaves |-> IF IsLate(l) THEN "OVERDUE" ELSE status[l]]
  /\ unannounced' = unannounced \cup {l \in Leaves : IsLate(l)}
  /\ UNCHANGED <<form, review, departed, returned, effectVars, req, alerted, today>>

AnnounceOverdue(l) ==
  /\ l \in unannounced
  /\ unannounced' = unannounced \ {l}
  /\ alerted' \in {alerted, alerted \cup {l}}
  /\ UNCHANGED <<leaveVars, effectVars, req, today>>

Tick ==
  /\ today < MaxDay
  /\ today' = today + 1
  /\ UNCHANGED <<leaveVars, effectVars, req, jobVars>>

(* The server process dies and is started again: every request in flight   *)
(* is lost and its transaction rolled back, and so is what the job had in  *)
(* memory.                                                                 *)
Crash ==
  /\ req' = [u \in Users |-> Idle]
  /\ unannounced' = {}
  /\ UNCHANGED <<leaveVars, effectVars, alerted, today>>

-----------------------------------------------------------------------------
Handler(u) ==
  \/ \E l \in Leaves, f \in Forms : SubmitLeave(u, l, f)
  \/ \E l \in Leaves, op \in {"approve", "reject"} : StartReview(u, l, op)
  \/ \E l \in Leaves, op \in {"cancel", "depart", "return"} : ReadLeave(u, l, op)
  \/ ApproveLeave(u)
  \/ RejectLeave(u)
  \/ CancelLeave(u)
  \/ DepartLeave(u)
  \/ ReturnLeave(u)
  \/ AbortRequest(u)
  \/ \E s \in Students, p \in Slots, d \in Days, st \in Marks :
       \/ RecordAttendance(u, s, p, d, st)
       \/ CorrectAttendance(u, s, p, d, st)
  \/ \E s \in Students, d \in ExamDays, absent \in BOOLEAN : EnterMarks(u, s, d, absent)

Next ==
  \/ \E u \in Users : Handler(u)
  \/ DetectOverdueLeaves
  \/ \E l \in Leaves : AnnounceOverdue(l)
  \/ Tick
  \/ Crash

Spec == Init /\ [][Next]_vars

(* setInterval calls the job for as long as the server runs, and it is     *)
(* started again with the server; a run that fails is logged and the next  *)
(* one is a new try.  The clock is that of the machine.                    *)
FairSpec == Spec /\ WF_vars(DetectOverdueLeaves) /\ WF_vars(Tick)

-----------------------------------------------------------------------------
(* Safety.                                                                 *)

(* The status never runs ahead of the milestones: a row says APPROVED or   *)
(* REJECTED only after that review, ACTIVE or OVERDUE only of a student    *)
(* whose departure was recorded, and COMPLETED only after a return; the    *)
(* handlers that write the row without looking at it again cannot make it  *)
(* say more than what happened.                                            *)
StatusIsEarned ==
  \A l \in Leaves :
    /\ status[l] \in {"NONE", "PENDING"} => review[l] = "none"
    /\ status[l] = "APPROVED" => review[l] = "approved"
    /\ status[l] = "REJECTED" => review[l] = "rejected"
    /\ status[l] \in {"ACTIVE", "OVERDUE"} => l \in departed
    /\ status[l] = "COMPLETED" => l \in returned

(* No student leaves on a leave that was not approved, and none returns    *)
(* from one they never left on, however late a departLeave or returnLeave  *)
(* request writes what it decided.                                         *)
DepartureNeedsApproval ==
  /\ \A l \in departed : review[l] = "approved"
  /\ returned \subseteq departed

(* What a request has decided on stays true until it writes.  A review     *)
(* relies on its lock: nobody changes a PENDING row under it.  A departure *)
(* or a return relies on nothing but what is never undone.  A cancellation *)
(* is not here: the row it read as PENDING may be anything when it writes. *)
DecisionsStayTrue ==
  \A u \in Users :
    /\ Reviewing(u) => status[req[u].leave] = "PENDING"
    /\ req[u].op = "depart" => review[req[u].leave] = "approved"
    /\ req[u].op = "return" => req[u].leave \in departed

(* Two reviews of one leave, or of two leaves of one student, are never    *)
(* under way together: what FOR UPDATE in approveLeave and rejectLeave is  *)
(* for.                                                                    *)
ReviewsExclude ==
  \A u, v \in Users :
    Reviewing(u) /\ Reviewing(v) /\ u # v =>
      StudentOf(req[u].leave) # StudentOf(req[v].leave)

(* An approved leave leaves no hole in the register: each lesson of each   *)
(* day of it has an attendance record.                                     *)
ApprovedDaysAreMarked ==
  \A l \in Leaves : review[l] = "approved" =>
    \A m \in CoveredMarks(l) : mark[m] # "none"

(* The job alerts the admins only about a student who did leave the campus *)
(* and was due before today.                                               *)
AlertsAreEarned ==
  \A l \in alerted \cup unannounced : l \in departed /\ form[l].due < today

(* The first review wins: it is never followed by another (invariant 11 of *)
(* the backend freeze document, the 409 LEAVE_ALREADY_REVIEWED answer).    *)
FirstReviewWins ==
  [][\A l \in Leaves : review[l] # "none" => review'[l] = review[l]]_vars

(* A lesson becomes Excused only when a leave that covers it is approved,  *)
(* or when an Admin who has nothing else in flight says so (invariants 7   *)
(* and 8 of the freeze document).                                          *)
ExcusedByApprovalOrAdmin ==
  [][\A m \in Students \X Slots \X Days :
       mark[m] # "Excused" /\ mark'[m] = "Excused" =>
         \/ \E l \in Leaves : /\ review[l] = "none" /\ review'[l] = "approved"
                             /\ m \in CoveredMarks(l)
         \/ \E u \in Users : Role[u] = "Admin" /\ req[u] = Idle]_vars

(* An approval never rewrites the record of a student who was seen in      *)
(* class: the conflict clause of the upsert in approveLeave.               *)
PresentSurvivesApproval ==
  [][\A l \in Leaves : review[l] = "none" /\ review'[l] = "approved" =>
       \A m \in Students \X Slots \X Days :
         mark[m] = "Present" => mark'[m] = "Present"]_vars

-----------------------------------------------------------------------------
(* Liveness.                                                               *)

(* A student who is away past the expected return does not stay ACTIVE:    *)
(* the job marks the leave, unless somebody records the return first.      *)
LateLeavesAreFlagged ==
  \A l \in Leaves : IsLate(l) ~> status[l] # "ACTIVE"

-----------------------------------------------------------------------------
(* Refinement.                                                             *)

(* Every interleaving keeps the order of the milestones.                   *)
Milestones == INSTANCE LeaveMilestones

KeepsMilestones == Milestones!Spec

(* The state machine documented at the head of utils/leaveStateMachine.ts. *)
(* One request at a time (OneRequest) follows it; two that interleave need *)
(* not.                                                                    *)
OneRequest == \A u, v \in Users : req[u] # Idle /\ req[v] # Idle => u = v

StateMachine == INSTANCE LeaveStateMachine

FollowsStateMachine == StateMachine!Spec

(* Section 4.4 of the freeze document: an approval sets every lesson it    *)
(* covers to Excused.                                                      *)
ApprovalExcusesEveryLesson ==
  [][\A l \in Leaves : review[l] = "none" /\ review'[l] = "approved" =>
       \A m \in CoveredMarks(l) : mark'[m] = "Excused"]_vars
=============================================================================
