---------------------------- MODULE Assignments ----------------------------
(***************************************************************************)
(* Assignments and their submissions: modules/assignments, on top of the   *)
(* records of a school.  An assignment is created together with one        *)
(* submission for each student of its class; marks are written later, row  *)
(* by row and without a transaction, by its teachers and the office.       *)
(* Titles, descriptions, types and grading are left out, so what an update *)
(* writes back is the due date.                                            *)
(***************************************************************************)
EXTENDS SchoolRecords

CONSTANTS
  Works,         \* assignment ids
  Markers,       \* callers, one request in flight each
  UserOf,        \* whose session a caller is: a teacher, or Office
  Office,        \* an Admin
  ClassTeacherOf,\* token.classTeacherOf of a teacher, or Nowhere
  Marks,         \* what a submission may say, PENDING included
  MaxEntries,    \* bound of the students one request marks
  LastDay        \* bound of today

ASSUME MarkersAssumption ==
  /\ UserOf \in [Markers -> Teachers \cup {Office}] /\ Office \notin Teachers
  /\ ClassTeacherOf \in [Teachers -> Classes \cup {Nowhere}]
  /\ "PENDING" \in Marks /\ "none" \notin Marks /\ Nothing \notin Markers
  /\ MaxEntries \in Nat /\ LastDay \in Nat

VARIABLES
  works,         \* assignments
  submissions,   \* assignment_submissions, by assignment and student
  today,
  work           \* the request of each marker

workVars == <<works, submissions, today, work>>
allVars == <<vars, workVars>>

Days0 == 0..LastDay
NoWork == [row |-> "none"]
Work == [row : {"live", "deleted"}, class : Classes, subject : Subjects,
         by : Teachers \cup {Office}, due : Days0, status : {"ACTIVE", "CLOSED"}]
NoRow == [mark |-> "none", by |-> Nothing]
Row == [mark : Marks, by : Markers \cup {Nothing}]

InitWork ==
  /\ works = [w \in Works |-> NoWork]
  /\ submissions = [w \in Works |-> [s \in Students |-> NoRow]]
  /\ today = 0
  /\ work = [c \in Markers |-> Idle]

IsAdmin(c) == UserOf[c] = Office
Exists(w) == works[w].row = "live"

(* The class teacher, or whom a lesson of the class in the subject has.    *)
TeachesIt(c, class, subject) ==
  \/ ~IsAdmin(c) /\ ClassTeacherOf[UserOf[c]] = class
  \/ \E l \in slots : l.teacher = UserOf[c] /\ l.class = class /\ l.subject = subject

BeginWork(c, r) == /\ work[c] = Idle /\ work' = [work EXCEPT ![c] = r]
                   /\ UNCHANGED <<vars, works, submissions, today>>
EndWork(c) == work' = [work EXCEPT ![c] = Idle]
AbortWork(c) == work[c] # Idle /\ EndWork(c) /\ UNCHANGED <<vars, works, submissions, today>>

StartCreateAssignment(c, w, class, subject, due) ==
  /\ works[w] = NoWork
  /\ Live(class) /\ Live(subject)
  /\ IsAdmin(c) \/ TeachesIt(c, class, subject)
  /\ BeginWork(c, [op |-> "create", work |-> w, class |-> class, subject |-> subject, due |-> due])

CreateAssignment(c) ==
  /\ work[c].op = "create"
  /\ works[work[c].work] = NoWork
  /\ works' = [works EXCEPT ![work[c].work] =
       [row |-> "live", class |-> work[c].class, subject |-> work[c].subject,
        by |-> UserOf[c], due |-> work[c].due, status |-> "ACTIVE"]]
  /\ submissions' = [submissions EXCEPT ![work[c].work] = [s \in Students |->
       IF s \in LiveStudentsOf(work[c].class) THEN [mark |-> "PENDING", by |-> Nothing] ELSE NoRow]]
  /\ EndWork(c)
  /\ UNCHANGED <<vars, today>>

(* An update writes the due date it was asked for or the one it read.      *)
StartUpdateAssignment(c, w, due) ==
  /\ Exists(w)
  /\ IsAdmin(c) \/ works[w].by = UserOf[c]
  /\ works[w].due >= today
  /\ \E d \in {due, works[w].due} : BeginWork(c, [op |-> "update", work |-> w, due |-> d])

UpdateAssignment(c) ==
  /\ work[c].op = "update"
  /\ works' = [works EXCEPT ![work[c].work].due = work[c].due]
  /\ EndWork(c)
  /\ UNCHANGED <<vars, submissions, today>>

StartDeleteAssignment(c, w) ==
  /\ Exists(w)
  /\ IsAdmin(c) \/ works[w].by = UserOf[c]
  /\ BeginWork(c, [op |-> "delete", work |-> w])

DeleteAssignment(c) ==
  /\ work[c].op = "delete"
  /\ works' = [works EXCEPT ![work[c].work].row = "deleted"]
  /\ EndWork(c)
  /\ UNCHANGED <<vars, submissions, today>>

StartCloseAssignment(c, w) ==
  /\ Exists(w) /\ IsAdmin(c)
  /\ BeginWork(c, [op |-> "close", work |-> w])

CloseAssignment(c) ==
  /\ work[c].op = "close"
  /\ works' = [works EXCEPT ![work[c].work].status = "CLOSED"]
  /\ EndWork(c)
  /\ UNCHANGED <<vars, submissions, today>>

(* The list of a request: it may name a student twice, and take a mark     *)
(* back to PENDING.                                                        *)
Entries == UNION {[1..n -> [student : Students, mark : Marks]] : n \in 1..MaxEntries}

(* bulkMark asks neither for the status nor for the due date, and takes    *)
(* students of any class.                                                  *)
StartMark(c, w, entries) ==
  /\ Exists(w)
  /\ IsAdmin(c) \/ works[w].by = UserOf[c] \/ TeachesIt(c, works[w].class, works[w].subject)
  /\ BeginWork(c, [op |-> "mark", work |-> w, entries |-> entries, next |-> 1, counted |-> {}])

InLoop(c) == work[c].op = "mark" /\ work[c].next \in DOMAIN work[c].entries
Current(c) == work[c].entries[work[c].next]
PassedOver(r) == [r EXCEPT !.next = r.next + 1]
Counted(r) == [r EXCEPT !.next = r.next + 1, !.counted = r.counted \cup {r.next}]

(* A row that is missing is inserted.                                      *)
MarkedIfThere(c, s) == [submissions EXCEPT ![work[c].work][s] =
  IF @ = NoRow THEN NoRow ELSE [mark |-> Current(c).mark, by |-> c]]
Marked(c, s) == [submissions EXCEPT ![work[c].work][s] = [mark |-> Current(c).mark, by |-> c]]

(* The list is gone through in its order.                                  *)
MarkSubmission(c, s) ==
  /\ InLoop(c) /\ s = Current(c).student
  /\ state[s] # "none"
  /\ submissions' = Marked(c, s)
  /\ work' = [work EXCEPT ![c] = Counted(work[c])]
  /\ UNCHANGED <<vars, works, today>>

(* An insertion that fails, as that of an unknown student does, is logged  *)
(* and not counted in the answer.                                          *)
FailSubmission(c, s) ==
  /\ InLoop(c) /\ s = Current(c).student
  /\ submissions[work[c].work][s] = NoRow
  /\ work' = [work EXCEPT ![c] = PassedOver(work[c])]
  /\ UNCHANGED <<vars, works, submissions, today>>

AnswerMark(c) ==
  /\ work[c].op = "mark" /\ ~InLoop(c)
  /\ EndWork(c)
  /\ UNCHANGED <<vars, works, submissions, today>>

NextDay == /\ today < LastDay /\ today' = today + 1
           /\ UNCHANGED <<vars, works, submissions, work>>

WorkStep(c) ==
  \/ AbortWork(c)
  \/ \E w \in Works, class \in Classes, subject \in Subjects, due \in Days0 :
       StartCreateAssignment(c, w, class, subject, due)
  \/ CreateAssignment(c)
  \/ \E w \in Works, due \in Days0 : StartUpdateAssignment(c, w, due)
  \/ UpdateAssignment(c)
  \/ \E w \in Works : StartDeleteAssignment(c, w)
  \/ DeleteAssignment(c)
  \/ \E w \in Works : StartCloseAssignment(c, w)
  \/ CloseAssignment(c)
  \/ \E w \in Works, e \in Entries : StartMark(c, w, e)
  \/ \E s \in Students : MarkSubmission(c, s) \/ FailSubmission(c, s)
  \/ AnswerMark(c)

WorkNext == (\E c \in Markers : WorkStep(c)) \/ NextDay

WorkSpec == Init /\ InitWork /\ [][(Next /\ UNCHANGED workVars) \/ WorkNext]_allVars

(***************************************************************************)
(* Properties                                                              *)
(***************************************************************************)
WorkRequests ==
  {Idle}
  \cup [op : {"create"}, work : Works, class : Classes, subject : Subjects, due : Days0]
  \cup [op : {"update"}, work : Works, due : Days0]
  \cup [op : {"delete", "close"}, work : Works]
  \cup [op : {"mark"}, work : Works, entries : Entries, next : Nat, counted : SUBSET Nat]

(* Every assignment, submission and request is within its type.            *)
WorkTypeOK ==
  /\ works \in [Works -> Work \cup {NoWork}]
  /\ submissions \in [Works -> [Students -> Row \cup {NoRow}]]
  /\ today \in Days0
  /\ work \in [Markers -> WorkRequests]

(* When bulkMark answers, each entry it counts is a submission, and of     *)
(* what it asked for a student the last entry counts: a submission that    *)
(* nobody else has marked since says that, also for a student who joined   *)
(* the class after the assignment was made.  If that entry is not counted, *)
(* what there is of the student is not its work.                           *)
LastOfStudent(list, i) ==
  \A j \in DOMAIN list : list[j].student = list[i].student => j <= i

AnsweredIsWritten ==
  [][\A c \in Markers :
       work[c].op = "mark" /\ ~InLoop(c) /\ work'[c] = Idle =>
         LET r == work[c] IN
         \A i \in DOMAIN r.entries :
           LET row == submissions[r.work][r.entries[i].student] IN
             /\ i \in r.counted => row # NoRow
             /\ LastOfStudent(r.entries, i) /\ row.by = c =>
                  i \in r.counted /\ row.mark = r.entries[i].mark]_allVars
=============================================================================
