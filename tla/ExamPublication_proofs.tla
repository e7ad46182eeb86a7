----------------------- MODULE ExamPublication_proofs -----------------------
(***************************************************************************)
(* Proofs about ExamPublication, for any number of users, papers, students *)
(* and marks.  ExamInv is the inductive invariant.  A failed paper fails   *)
(* the exam because a publication rewrites every verdict there is: a       *)
(* verdict has a row of results, the sheet of a publication in flight has  *)
(* every row that has a verdict, and no other publication adds one.        *)
(* What a publication leaves is undone by a write decided before it, so    *)
(* that the grades follow the marks only for users who make one request at *)
(* a time: SerialInv is inductive for the steps OneRequest allows.         *)
(***************************************************************************)
EXTENDS ExamViews, FiniteSetTheorems, TLAPS

Rows == Papers \X Students

(* The lookup finds a grade of the scale, or none.                         *)
LEMMA LookupIsOfScale ==
  ASSUME NEW score, NEW total, NEW scale
  PROVE  LookupGrade(score, total, scale) \in GradesOf(scale) \cup {"N/A"}
<1> DEFINE First(i) == /\ Covers(scale[i], score, total)
                       /\ \A j \in 1..(i - 1) : ~ Covers(scale[j], score, total)
           chosen == CHOOSE i \in DOMAIN scale : First(i)
<1>1. CASE \E i \in DOMAIN scale : First(i)
  <2>1. LookupGrade(score, total, scale) = scale[chosen].grade
    BY <1>1 DEF LookupGrade
  <2>2. chosen \in DOMAIN scale
    <3> HIDE DEF First
    <3> QED
      BY <1>1
  <2> HIDE DEF chosen
  <2> QED
    BY <2>1, <2>2 DEF GradesOf
<1>2. CASE ~ \E i \in DOMAIN scale : First(i)
  BY <1>2 DEF LookupGrade
<1> QED
  BY <1>1, <1>2

LEMMA GradeIsVerdict ==
  ASSUME NEW r, NEW b \in Tables
  PROVE  /\ Grade(r, b) \in Verdicts
         /\ Grade(r, b) # Ungraded
<1>1. ASSUME NEW score, NEW total
      PROVE  GradeOf(score, total, b) \in Grades
  <2> DEFINE scale == IF b = <<>> THEN DefaultBoundaries ELSE b
  <2>1. GradesOf(scale) \subseteq Grades
    BY DEF Grades
  <2>2. /\ LookupGrade(score, total, scale) \in GradesOf(scale) \cup {"N/A"}
        /\ LookupGrade(0, 1, scale) \in GradesOf(scale) \cup {"N/A"}
    BY LookupIsOfScale
  <2>3. GradeOf(score, total, b) \in GradesOf(scale) \cup {"N/A"}
    BY <2>2 DEF GradeOf
  <2>4. "N/A" \in Grades
    BY DEF Grades
  <2> QED
    BY <2>1, <2>3, <2>4
<1>2. CASE mark[r] = Absent
  BY <1>2 DEF Grade, Verdicts, Ungraded, Grades
<1>3. CASE mark[r] # Absent
  BY <1>1, <1>3 DEF Grade, Verdicts, Ungraded
<1> QED
  BY <1>2, <1>3

LEMMA UngradedIsVerdict == Ungraded \in Verdicts
  BY DEF Ungraded, Verdicts, Grades

(* What a request in flight carries.                                       *)
LEMMA RequestFields ==
  ASSUME TypeOK, NEW u \in Users
  PROVE  /\ req[u].op \in {"update", "publish"} => req[u].table \in Tables
         /\ req[u].op \in {"add", "edit"} => req[u].paper \in Papers /\ req[u].terms \in Terms
         /\ req[u].op = "remove" => req[u].paper \in Papers
         /\ req[u].op = "enter" => req[u].paper \in Papers /\ req[u].entries \in Entries
         /\ req[u].op = "publishing" => req[u].sheet \in Sheets
  BY DEF TypeOK, Requests, Idle

LEMMA AskedAreRequests == Asked \subseteq Requests
  BY DEF Asked, Requests

(* The type invariant.                                                     *)
LEMMA TypeInit == Init => TypeOK
  BY UngradedIsVerdict DEF Init, TypeOK, Requests

LEMMA TypeNext ==
  ASSUME TypeOK, [Next]_vars
  PROVE  TypeOK'
<1> USE DEF exam, papers, results
<1>1. ASSUME NEW u \in Users, NEW r \in Requests, req' = [req EXCEPT ![u] = r],
             UNCHANGED <<exam, papers, results>>
      PROVE  TypeOK'
  BY <1>1 DEF TypeOK
<1>2. ASSUME NEW u \in Users, Done(u)
      PROVE  req' \in [Users -> Requests]
  BY <1>2 DEF TypeOK, Done, Requests
<1>3. ASSUME NEW u \in Users, NEW b \in Tables, CreateExam(u, b)
      PROVE  TypeOK'
  BY <1>3 DEF TypeOK, CreateExam
<1>4. ASSUME NEW u \in Users, NEW r \in Asked, Decide(u, r)
      PROVE  TypeOK'
  BY <1>1, <1>4, AskedAreRequests DEF Decide
<1>5. ASSUME NEW u \in Users, UpdateExam(u) \/ DeleteExam(u)
      PROVE  TypeOK'
  BY <1>2, <1>5, RequestFields DEF TypeOK, UpdateExam, DeleteExam
<1>6. ASSUME NEW u \in Users, AddExamSubject(u) \/ UpdateExamSubject(u)
      PROVE  TypeOK'
  BY <1>2, <1>6, RequestFields DEF TypeOK, AddExamSubject, UpdateExamSubject
<1>7. ASSUME NEW u \in Users, RemoveExamSubject(u)
      PROVE  TypeOK'
  BY <1>2, <1>7, RequestFields, UngradedIsVerdict DEF TypeOK, RemoveExamSubject
<1>8. ASSUME NEW u \in Users, NEW s \in Students, EnterMark(u, s)
      PROVE  TypeOK'
  <2>1. /\ req[u].paper \in Papers
        /\ req[u].entries \in Entries
        /\ req[u].entries[s] \in Marks \cup {NoRow}
    BY <1>8, RequestFields DEF EnterMark, Entries
  <2>2. [op |-> "enter", paper |-> req[u].paper,
         entries |-> [req[u].entries EXCEPT ![s] = NoRow]] \in Requests
    BY <2>1 DEF Requests, Entries
  <2> QED
    BY <1>8, <2>1, <2>2 DEF TypeOK, EnterMark
<1>9. ASSUME NEW u \in Users, FinishMarks(u)
      PROVE  TypeOK'
  BY <1>2, <1>9, RequestFields DEF TypeOK, FinishMarks
<1>10. ASSUME NEW u \in Users, StartPublication(u)
       PROVE  TypeOK'
  <2> DEFINE sheet == [r \in Papers \X Students |->
                         IF mark[r] = NoRow THEN Ungraded ELSE Grade(r, req[u].table)]
  <2>1. req[u].table \in Tables
    BY <1>10, RequestFields DEF StartPublication
  <2>2. sheet \in Sheets
    BY <2>1, UngradedIsVerdict, GradeIsVerdict DEF Sheets
  <2>3. [op |-> "publishing", sheet |-> sheet] \in Requests
    BY <2>2 DEF Requests
  <2> QED
    BY <1>1, <1>10, <2>3 DEF StartPublication
<1>11. ASSUME NEW u \in Users, PublishExam(u)
       PROVE  TypeOK'
  <2>1. req[u].sheet \in Sheets
    BY <1>11, RequestFields DEF PublishExam, Publishing
  <2>2. verdict' \in [Papers \X Students -> Verdicts]
    BY <1>11, <2>1 DEF PublishExam, Sheets, TypeOK
  <2>3. summary' \in [Students -> {"none", "PASS", "FAIL"}]
    BY <1>11 DEF PublishExam, Overall, TypeOK
  <2> QED
    BY <1>2, <1>11, <2>2, <2>3 DEF TypeOK, PublishExam
<1>12. ASSUME NEW u \in Users, UnpublishExam(u) \/ UnlockPapers(u)
       PROVE  TypeOK'
  BY <1>2, <1>12 DEF TypeOK, UnpublishExam, UnlockPapers, Requests
<1>13. ASSUME NEW u \in Users, AbortRequest(u)
       PROVE  TypeOK'
  BY <1>2, <1>13 DEF TypeOK, AbortRequest
<1>14. ASSUME NEW s \in Students, NEW ps \in SUBSET Papers, ExcuseStudent(s, ps)
       PROVE  TypeOK'
  BY <1>14 DEF TypeOK, ExcuseStudent, Marks
<1>15. CASE Crash
  BY <1>15 DEF TypeOK, Crash, Requests
<1>16. CASE UNCHANGED vars
  BY <1>16 DEF vars, TypeOK
<1> QED
  BY <1>3, <1>4, <1>5, <1>6, <1>7, <1>8, <1>9, <1>10, <1>11, <1>12, <1>13, <1>14,
     <1>15, <1>16
  DEF Next, Handler

(* ExamPublication keeps its types: exam, papers, results and the requests *)
(* of modules/exams are always what the tables and the handlers declare.   *)
THEOREM TypeCorrect == Spec => []TypeOK
<1>1. Init => TypeOK
  BY TypeInit
<1>2. TypeOK /\ [Next]_vars => TypeOK'
  BY TypeNext
<1> QED
  BY <1>1, <1>2, PTL DEF Spec

-----------------------------------------------------------------------------
(* Verdicts are given to rows of results only.                             *)
VerdictsHaveRows == \A r \in Rows : verdict[r] # Ungraded => mark[r] # NoRow

(* A publication in flight has seen every row that has a verdict.          *)
VerdictsAreSeen ==
  \A u \in Users : Publishing(u) =>
    \A r \in Rows : verdict[r] # Ungraded => req[u].sheet[r] # Ungraded

ExamInv ==
  /\ TypeOK
  /\ PublicationsExclude
  /\ VerdictsHaveRows
  /\ VerdictsAreSeen
  /\ FailedPaperFailsExam
  /\ GradedAreSummarised

LEMMA InvInit == Init => ExamInv
<1> SUFFICES ASSUME Init PROVE ExamInv
  OBVIOUS
<1>1. \A r \in Rows : verdict[r] = Ungraded /\ verdict[r].pass = "none"
  BY DEF Init, Rows, Ungraded
<1>2. \A u \in Users : ~ Publishing(u)
  BY DEF Init, Publishing, Idle
<1> QED
  BY <1>1, <1>2, TypeInit
  DEF ExamInv, PublicationsExclude, VerdictsHaveRows, VerdictsAreSeen,
      FailedPaperFailsExam, GradedAreSummarised, Rows

(* Nothing of the invariant changes but which publications are in flight,  *)
(* and none is added.                                                      *)
LEMMA FewerPublications ==
  ASSUME ExamInv, TypeOK',
         UNCHANGED <<verdict, summary>>,
         \A r \in Rows : mark[r] # NoRow => mark'[r] # NoRow,
         \A v \in Users : Publishing(v)' => req'[v] = req[v]
  PROVE  ExamInv'
  BY DEF ExamInv, PublicationsExclude, VerdictsHaveRows, VerdictsAreSeen, Publishing,
         FailedPaperFailsExam, GradedAreSummarised, Rows

(* The first half of a publication: every row that has a verdict has a row *)
(* of results, so the sheet has it too.                                    *)
LEMMA StartKeepsInv ==
  ASSUME ExamInv, TypeOK', NEW u \in Users, StartPublication(u)
  PROVE  ExamInv'
<1>1. req[u].table \in Tables
  BY RequestFields DEF ExamInv, StartPublication
<1>2. \A v \in Users : ~ Publishing(v)
  BY DEF StartPublication, ExamRowFree
<1>3. \A r \in Rows : mark[r] # NoRow => req'[u].sheet[r] # Ungraded
  BY <1>1, GradeIsVerdict DEF StartPublication, Rows, ExamInv, TypeOK
<1>4. \A v \in Users : Publishing(v)' => v = u
  BY <1>2 DEF StartPublication, Publishing, ExamInv, TypeOK
<1>5. UNCHANGED <<mark, verdict, summary>>
  BY DEF StartPublication, results
<1>6. VerdictsHaveRows' /\ FailedPaperFailsExam' /\ GradedAreSummarised'
  BY <1>5 DEF ExamInv, VerdictsHaveRows, FailedPaperFailsExam, GradedAreSummarised
<1>7. VerdictsAreSeen'
  BY <1>3, <1>4, <1>5 DEF VerdictsAreSeen, ExamInv, VerdictsHaveRows
<1> QED
  BY <1>4, <1>6, <1>7 DEF ExamInv, PublicationsExclude

(* The second half: every verdict is rewritten, and every student who has  *)
(* one gets a summary from the same sheet.                                 *)
LEMMA PublishKeepsInv ==
  ASSUME ExamInv, TypeOK', NEW u \in Users, PublishExam(u)
  PROVE  ExamInv'
<1>1. \A v \in Users : ~ Publishing(v)'
  BY DEF PublishExam, Done, Idle, Publishing, ExamInv, PublicationsExclude, TypeOK
<1>2. \A r \in Rows : r \in Seen(u) /\ mark[r] # NoRow => verdict'[r] = req[u].sheet[r]
  BY DEF PublishExam, Rows
<1>3. \A r \in Rows : ~ (r \in Seen(u) /\ mark[r] # NoRow) => verdict'[r] = Ungraded
  BY DEF PublishExam, ExamInv, VerdictsAreSeen, VerdictsHaveRows, Seen, Rows
<1>4. \A r \in Rows : r \in Seen(u) => r[2] \in Students /\ summary'[r[2]] = Overall(u, r[2])
  BY DEF PublishExam, Seen, Rows
<1>5. VerdictsHaveRows'
  BY <1>3 DEF VerdictsHaveRows, PublishExam
<1>6. FailedPaperFailsExam'
  <2> SUFFICES ASSUME NEW r \in Rows, verdict'[r].pass = "fail"
               PROVE  summary'[r[2]] = "FAIL"
    BY DEF FailedPaperFailsExam, Rows
  <2>1. r \in Seen(u) /\ req[u].sheet[r].pass = "fail"
    BY <1>2, <1>3 DEF Ungraded
  <2> QED
    BY <1>4, <2>1 DEF Overall
<1>7. GradedAreSummarised'
  <2> SUFFICES ASSUME NEW r \in Rows, verdict'[r] # Ungraded
               PROVE  summary'[r[2]] # "none"
    BY DEF GradedAreSummarised, Rows
  <2>1. r \in Seen(u)
    BY <1>3
  <2> QED
    BY <1>4, <2>1 DEF Overall
<1> QED
  BY <1>1, <1>5, <1>6, <1>7 DEF ExamInv, PublicationsExclude, VerdictsAreSeen

LEMMA RemoveKeepsInv ==
  ASSUME ExamInv, TypeOK', NEW u \in Users, RemoveExamSubject(u)
  PROVE  ExamInv'
<1>1. \A r \in Rows : verdict'[r] # Ungraded =>
                         verdict'[r] = verdict[r] /\ mark'[r] = mark[r]
  BY DEF RemoveExamSubject, Rows
<1>2. \A r \in Rows : verdict'[r].pass = "fail" => verdict'[r] = verdict[r]
  BY <1>1 DEF Ungraded
<1>3. \A v \in Users : Publishing(v)' => req'[v] = req[v]
  BY DEF RemoveExamSubject, Done, Idle, Publishing, ExamInv, TypeOK
<1>4. UNCHANGED summary
  BY DEF RemoveExamSubject
<1> QED
  BY <1>1, <1>2, <1>3, <1>4
  DEF ExamInv, PublicationsExclude, VerdictsHaveRows, VerdictsAreSeen, Publishing,
      FailedPaperFailsExam, GradedAreSummarised, Rows

LEMMA InvNext ==
  ASSUME ExamInv, [Next]_vars
  PROVE  ExamInv'
<1>1. TypeOK'
  BY TypeNext DEF ExamInv
<1>2. ASSUME NEW u \in Users,
             \/ \E b \in Tables : CreateExam(u, b)
             \/ \E r \in Asked : Decide(u, r)
             \/ UpdateExam(u) \/ DeleteExam(u)
             \/ AddExamSubject(u) \/ UpdateExamSubject(u)
             \/ FinishMarks(u)
             \/ UnpublishExam(u) \/ UnlockPapers(u)
             \/ AbortRequest(u)
      PROVE  ExamInv'
  <2>1. UNCHANGED <<mark, verdict, summary>>
    BY <1>2 DEF CreateExam, Decide, UpdateExam, DeleteExam, AddExamSubject,
                UpdateExamSubject, FinishMarks, UnpublishExam, UnlockPapers,
                AbortRequest, results
  <2>2. \E r : r.op # "publishing" /\ req' \in {req, [req EXCEPT ![u] = r]}
    BY <1>2 DEF CreateExam, Decide, UpdateExam, DeleteExam, AddExamSubject,
                UpdateExamSubject, FinishMarks, UnpublishExam, UnlockPapers,
                AbortRequest, Done, Idle, Asked
  <2>3. \A v \in Users : Publishing(v)' => req'[v] = req[v]
    BY <2>2 DEF Publishing, ExamInv, TypeOK
  <2> QED
    BY <1>1, <2>1, <2>3, FewerPublications
<1>3. ASSUME NEW u \in Users, NEW s \in Students, EnterMark(u, s)
      PROVE  ExamInv'
  <2>1. \A r \in Rows : mark[r] # NoRow => mark'[r] # NoRow
    BY <1>3 DEF EnterMark, Rows, ExamInv, TypeOK
  <2>2. \A v \in Users : Publishing(v)' => req'[v] = req[v]
    BY <1>3 DEF EnterMark, Publishing, ExamInv, TypeOK
  <2> QED
    BY <1>1, <1>3, <2>1, <2>2, FewerPublications DEF EnterMark
<1>4. ASSUME NEW s \in Students, NEW ps \in SUBSET Papers, ExcuseStudent(s, ps)
      PROVE  ExamInv'
  <2>1. \A r \in Rows : mark[r] # NoRow => mark'[r] # NoRow
    BY <1>4, MarksAssumption DEF ExcuseStudent, Rows
  <2> QED
    BY <1>1, <1>4, <2>1
    DEF ExcuseStudent, ExamInv, PublicationsExclude, VerdictsHaveRows, VerdictsAreSeen,
        Publishing, FailedPaperFailsExam, GradedAreSummarised, Rows
<1>5. CASE Crash
  BY <1>1, <1>5
  DEF Crash, Idle, Publishing, exam, papers, results, ExamInv, PublicationsExclude,
      VerdictsHaveRows, VerdictsAreSeen, FailedPaperFailsExam, GradedAreSummarised
<1>6. CASE UNCHANGED vars
  BY <1>1, <1>6
  DEF vars, exam, papers, results, Publishing, ExamInv, PublicationsExclude,
      VerdictsHaveRows, VerdictsAreSeen, FailedPaperFailsExam, GradedAreSummarised
<1> QED
  BY <1>1, <1>2, <1>3, <1>4, <1>5, <1>6, StartKeepsInv, PublishKeepsInv, RemoveKeepsInv
  DEF Next, Handler

LEMMA InvHolds == Spec => []ExamInv
  BY InvInit, InvNext, PTL DEF Spec

(* A student who failed one paper of a published exam failed the exam,     *)
(* however publishExam, enterMarks, removeExamSubject and approveLeave     *)
(* interleave (invariant 17 of the freeze document).                       *)
THEOREM FailedPaperFailsExamHolds == Spec => []FailedPaperFailsExam
<1>1. ExamInv => FailedPaperFailsExam
  BY DEF ExamInv
<1> QED
  BY <1>1, InvHolds, PTL

(* publishExam leaves no student with a graded paper and no summary.       *)
THEOREM GradedAreSummarisedHolds == Spec => []GradedAreSummarised
<1>1. ExamInv => GradedAreSummarised
  BY DEF ExamInv
<1> QED
  BY <1>1, InvHolds, PTL

(* The row lock of publishExam: two publications never run together.       *)
THEOREM PublicationsExcludeHolds == Spec => []PublicationsExclude
<1>1. ExamInv => PublicationsExclude
  BY DEF ExamInv
<1> QED
  BY <1>1, InvHolds, PTL

-----------------------------------------------------------------------------
(* One request at a time: users take turns, leaves and crashes fall where  *)
(* they may.                                                               *)
MarksHavePapers == \A r \in Rows : mark[r] # NoRow => r[1] \in Live

(* What each request has looked at is still so.                            *)
RequestsFit ==
  \A u \in Users :
    /\ status = "NONE" => req[u] = Idle
    /\ req[u].op \in {"update", "delete", "remove"} => status = "DRAFT"
    /\ req[u].op \in {"publish", "publishing", "edit", "enter", "unlock"} => status # "PUBLISHED"
    /\ req[u].op = "publish" => req[u].table = table
    /\ req[u].op \in {"publish", "publishing"} => \A p \in Live : paper[p] # "PENDING"

SheetIsCurrent ==
  \A u \in Users : Publishing(u) =>
    /\ ~ deleted
    /\ \A r \in Rows :
         /\ req[u].sheet[r] # Ungraded <=> mark[r] # NoRow
         /\ mark[r] \in Scores => req[u].sheet[r] = Grade(r, table)

(* Summaries are of who has a result, and there are none before the first  *)
(* publication: a paper is removed only then.                              *)
SummariesHaveRows ==
  \A s \in Students : summary[s] # "none" =>
    /\ status \notin {"NONE", "DRAFT"}
    /\ \E r \in Rows : r[2] = s /\ mark[r] # NoRow

PublishedIsSettled ==
  status = "PUBLISHED" =>
    /\ ~ deleted
    /\ \A r \in Rows :
         /\ mark[r] # NoRow => verdict[r] # Ungraded
         /\ mark[r] \in Scores => verdict[r] = Grade(r, table)
    /\ \A p \in Live : paper[p] = "LOCKED" \/ \A s \in Students : mark[<<p, s>>] = NoRow
    /\ \A s \in Students : summary[s] = "FAIL" =>
         \E r \in Rows : r[2] = s /\ verdict[r].pass = "fail"

SerialInv ==
  /\ ExamInv
  /\ MarksHavePapers
  /\ RequestsFit
  /\ SheetIsCurrent
  /\ SummariesHaveRows
  /\ PublishedIsSettled

LEMMA SerialInit == Init => SerialInv
<1> SUFFICES ASSUME Init PROVE SerialInv
  OBVIOUS
<1>1. \A r \in Rows : mark[r] = NoRow
  BY DEF Init, Rows
<1>2. \A u \in Users : req[u] = Idle
  BY DEF Init
<1>3. \A s \in Students : summary[s] = "none"
  BY DEF Init
<1> QED
  BY <1>1, <1>2, <1>3, InvInit
  DEF SerialInv, MarksHavePapers, RequestsFit, SheetIsCurrent, SummariesHaveRows,
      PublishedIsSettled, Publishing, Idle, Init

(* When the only request ends nobody has one.                              *)
LEMMA OnlyRequestEnds ==
  ASSUME TypeOK, OneRequest, NEW u \in Users, req[u] # Idle, Done(u)
  PROVE  \A v \in Users : req'[v] = Idle
  BY DEF TypeOK, OneRequest, Done

LEMMA IdleRequestsFit ==
  ASSUME \A v \in Users : req'[v] = Idle
  PROVE  RequestsFit' /\ SheetIsCurrent'
  BY DEF RequestsFit, SheetIsCurrent, Publishing, Idle

LEMMA IdleHasNoOp ==
  ASSUME NEW u \in Users, req[u].op # "idle"
  PROVE  req[u] # Idle
  BY DEF Idle

LEMMA DecideKeepsSerial ==
  ASSUME SerialInv, ExamInv', NEW u \in Users, NEW r \in Asked, Decide(u, r)
  PROVE  SerialInv'
<1>1. UNCHANGED <<status, deleted, table, paper, terms, mark, verdict, summary>>
  BY DEF Decide, exam, papers, results
<1>2. \A v \in Users : req'[v] = IF v = u THEN r ELSE req[v]
  BY DEF Decide, SerialInv, ExamInv, TypeOK
<1>3. r.op # "publishing" /\ r.op # "unlock" /\ status # "NONE"
  BY DEF Asked, Decide
<1>4. /\ r.op \in {"update", "delete", "remove"} => status = "DRAFT"
      /\ r.op \in {"publish", "edit", "enter"} => status # "PUBLISHED"
      /\ r.op = "publish" => r.table = table /\ \A p \in Live : paper[p] # "PENDING"
  BY DEF Decide, Allowed, MayDrop, MayPublish, MayEnter
<1>5. Live' = Live
  BY <1>1 DEF Live
<1>6. RequestsFit'
  <2> SUFFICES ASSUME NEW v \in Users
               PROVE  /\ status' = "NONE" => req'[v] = Idle
                      /\ req'[v].op \in {"update", "delete", "remove"} => status' = "DRAFT"
                      /\ req'[v].op \in {"publish", "publishing", "edit", "enter", "unlock"}
                           => status' # "PUBLISHED"
                      /\ req'[v].op = "publish" => req'[v].table = table'
                      /\ req'[v].op \in {"publish", "publishing"}
                           => \A p \in Live' : paper'[p] # "PENDING"
    BY DEF RequestsFit
  <2>1. CASE v = u
    BY <1>1, <1>2, <1>3, <1>4, <1>5, <2>1
  <2>2. CASE v # u
    BY <1>1, <1>2, <1>5, <2>2 DEF SerialInv, RequestsFit
  <2> QED
    BY <2>1, <2>2
<1>7. SheetIsCurrent'
  <2> SUFFICES ASSUME NEW v \in Users, Publishing(v)'
               PROVE  /\ ~ deleted'
                      /\ \A x \in Rows :
                           /\ req'[v].sheet[x] # Ungraded <=> mark'[x] # NoRow
                           /\ mark'[x] \in Scores => req'[v].sheet[x] = Grade(x, table)'
    BY DEF SheetIsCurrent, Rows
  <2>1. req'[v] = req[v] /\ Publishing(v)
    BY <1>2, <1>3 DEF Publishing
  <2>2. \A x \in Rows : Grade(x, table)' = Grade(x, table)
    BY <1>1 DEF Grade, GradeOf
  <2> QED
    BY <1>1, <2>1, <2>2 DEF SerialInv, SheetIsCurrent
<1>8. \A x \in Rows : Grade(x, table)' = Grade(x, table)
  BY <1>1 DEF Grade, GradeOf
<1>9. PublishedIsSettled'
  BY <1>1, <1>5, <1>8 DEF SerialInv, PublishedIsSettled, Rows
<1> QED
  BY <1>1, <1>5, <1>6, <1>7, <1>9 DEF SerialInv, MarksHavePapers, SummariesHaveRows, Rows

(* A request that ends outside of a published exam.                        *)
LEMMA UnpublishedEnd ==
  ASSUME SerialInv, ExamInv', OneRequest, NEW u \in Users, req[u].op # "idle", Done(u),
         status' # "PUBLISHED", MarksHavePapers', SummariesHaveRows'
  PROVE  SerialInv'
<1>1. \A v \in Users : req'[v] = Idle
  BY IdleHasNoOp, OnlyRequestEnds DEF SerialInv, ExamInv
<1> QED
  BY <1>1, IdleRequestsFit DEF SerialInv, PublishedIsSettled

LEMMA CreateKeepsSerial ==
  ASSUME SerialInv, ExamInv', NEW u \in Users, NEW b \in Tables, CreateExam(u, b)
  PROVE  SerialInv'
<1>1. status = "NONE" /\ status' = "DRAFT"
  BY DEF CreateExam
<1>2. UNCHANGED <<deleted, paper, terms, mark, verdict, summary, req>>
  BY DEF CreateExam, papers, results
<1>3. \A v \in Users : req'[v] = Idle
  BY <1>1, <1>2 DEF SerialInv, RequestsFit
<1>4. SummariesHaveRows' /\ MarksHavePapers' /\ PublishedIsSettled'
  BY <1>1, <1>2 DEF SerialInv, SummariesHaveRows, MarksHavePapers, PublishedIsSettled, Live
<1> QED
  BY <1>3, <1>4, IdleRequestsFit DEF SerialInv

(* A draft is changed or deleted, a paper is edited, or its marks are      *)
(* counted, before the exam is published.                                  *)
LEMMA UnpublishedKeepsSerial ==
  ASSUME SerialInv, ExamInv', OneRequest, NEW u \in Users,
         \/ UpdateExam(u) \/ DeleteExam(u) \/ UpdateExamSubject(u)
         \/ FinishMarks(u) \/ UnlockPapers(u)
  PROVE  SerialInv'
<1>1. req[u].op \in {"update", "delete", "edit", "enter", "unlock"} /\ Done(u)
  BY DEF UpdateExam, DeleteExam, UpdateExamSubject, FinishMarks, UnlockPapers
<1>2. status # "PUBLISHED" /\ UNCHANGED <<status, mark, verdict, summary>>
  <2>1. UNCHANGED <<status, mark, verdict, summary>>
    BY DEF UpdateExam, DeleteExam, UpdateExamSubject, FinishMarks, UnlockPapers, exam, results
  <2> QED
    BY <1>1, <2>1 DEF SerialInv, RequestsFit
<1>3. Live' = Live
  BY DEF UpdateExam, DeleteExam, UpdateExamSubject, FinishMarks, UnlockPapers, papers, Live,
         SerialInv, ExamInv, TypeOK
<1>4. MarksHavePapers' /\ SummariesHaveRows'
  BY <1>2, <1>3 DEF SerialInv, MarksHavePapers, SummariesHaveRows
<1> QED
  BY <1>1, <1>2, <1>4, UnpublishedEnd

LEMMA RemoveKeepsSerial ==
  ASSUME SerialInv, ExamInv', OneRequest, NEW u \in Users, RemoveExamSubject(u)
  PROVE  SerialInv'
<1>1. req[u].op = "remove" /\ Done(u) /\ req[u].paper \in Papers
  BY RequestFields DEF RemoveExamSubject, SerialInv, ExamInv
<1>2. status = "DRAFT" /\ UNCHANGED <<status, summary>>
  BY <1>1 DEF RemoveExamSubject, exam, SerialInv, RequestsFit
<1>3. \A r \in Rows : mark'[r] # NoRow => mark[r] # NoRow /\ r[1] # req[u].paper
  BY DEF RemoveExamSubject, Rows
<1>4. Live' = Live \ {req[u].paper}
  BY <1>1 DEF RemoveExamSubject, Live, SerialInv, ExamInv, TypeOK
<1>5. MarksHavePapers' /\ SummariesHaveRows'
  BY <1>2, <1>3, <1>4 DEF SerialInv, MarksHavePapers, SummariesHaveRows
<1> QED
  BY <1>1, <1>2, <1>5, UnpublishedEnd

(* A paper added to a published exam has no marks.                         *)
LEMMA AddKeepsSerial ==
  ASSUME SerialInv, ExamInv', OneRequest, NEW u \in Users, AddExamSubject(u)
  PROVE  SerialInv'
<1> DEFINE p == req[u].paper
<1>1. req[u].op = "add" /\ Done(u) /\ p \in Papers /\ p \notin Live
  BY RequestFields DEF AddExamSubject, Live, SerialInv, ExamInv
<1>2. UNCHANGED <<status, deleted, table, mark, verdict, summary>>
  BY DEF AddExamSubject, exam, results
<1>3. \A v \in Users : req'[v] = Idle
  BY <1>1, IdleHasNoOp, OnlyRequestEnds DEF SerialInv, ExamInv
<1>4. /\ Live' = Live \cup {p}
      /\ \A q \in Live : paper'[q] = paper[q] /\ terms'[q] = terms[q]
  BY <1>1 DEF AddExamSubject, Live, SerialInv, ExamInv, TypeOK
<1>5. \A s \in Students : mark[<<p, s>>] = NoRow
  BY <1>1 DEF SerialInv, MarksHavePapers, Rows
<1>6. \A r \in Rows : mark[r] # NoRow => Grade(r, table)' = Grade(r, table)
  BY <1>2, <1>4 DEF Grade, GradeOf, SerialInv, MarksHavePapers
<1>7. PublishedIsSettled'
  <2> SUFFICES ASSUME status = "PUBLISHED"
               PROVE  PublishedIsSettled'
    BY <1>2 DEF PublishedIsSettled
  <2>1. \A r \in Rows : mark'[r] \in Scores => verdict'[r] = Grade(r, table)'
    BY <1>2, <1>6, MarksAssumption DEF SerialInv, PublishedIsSettled
  <2>2. \A q \in Live' : paper'[q] = "LOCKED" \/ \A s \in Students : mark'[<<q, s>>] = NoRow
    BY <1>2, <1>4, <1>5 DEF SerialInv, PublishedIsSettled
  <2> QED
    BY <1>2, <2>1, <2>2 DEF SerialInv, PublishedIsSettled, Rows
<1>8. MarksHavePapers' /\ SummariesHaveRows'
  BY <1>2, <1>4 DEF SerialInv, MarksHavePapers, SummariesHaveRows
<1> QED
  BY <1>3, <1>7, <1>8, IdleRequestsFit DEF SerialInv

LEMMA EnterKeepsSerial ==
  ASSUME SerialInv, ExamInv', OneRequest, NEW u \in Users, NEW s \in Students, EnterMark(u, s)
  PROVE  SerialInv'
<1> DEFINE p == req[u].paper
<1>1. req[u].op = "enter" /\ p \in Live /\ status # "PUBLISHED"
  BY DEF EnterMark, SerialInv, RequestsFit
<1>2. UNCHANGED <<status, deleted, table, paper, terms, verdict, summary>>
  BY DEF EnterMark, exam, papers
<1>3. \A r \in Rows : mark[r] # NoRow => mark'[r] # NoRow
  BY DEF EnterMark, Rows, SerialInv, ExamInv, TypeOK
<1>4. \A r \in Rows : mark'[r] # NoRow => mark[r] # NoRow \/ r[1] = p
  BY <1>1 DEF EnterMark, Rows, SerialInv, ExamInv, TypeOK, Live
<1>5. \A v \in Users : req'[v].op = req[v].op /\ (v # u => req'[v] = req[v])
  BY <1>1 DEF EnterMark, SerialInv, ExamInv, TypeOK
<1>6. \A v \in Users : v # u => req[v] = Idle
  BY <1>1, IdleHasNoOp DEF OneRequest
<1>7. Live' = Live
  BY <1>2 DEF Live
<1>8. RequestsFit'
  BY <1>1, <1>2, <1>5, <1>6 DEF RequestsFit, Idle, SerialInv
<1>9. SheetIsCurrent'
  BY <1>1, <1>5, <1>6 DEF SheetIsCurrent, Publishing, Idle
<1>10. MarksHavePapers' /\ SummariesHaveRows' /\ PublishedIsSettled'
  BY <1>1, <1>2, <1>3, <1>4, <1>7
  DEF SerialInv, MarksHavePapers, SummariesHaveRows, PublishedIsSettled
<1> QED
  BY <1>8, <1>9, <1>10 DEF SerialInv

LEMMA StartKeepsSerial ==
  ASSUME SerialInv, ExamInv', OneRequest, NEW u \in Users, StartPublication(u)
  PROVE  SerialInv'
<1>1. /\ req[u].op = "publish" /\ ~ deleted
      /\ UNCHANGED <<status, deleted, table, paper, terms, mark, verdict, summary>>
  BY DEF StartPublication, exam, papers, results
<1>2. /\ status \notin {"NONE", "PUBLISHED"} /\ req[u].table = table
      /\ \A p \in Live : paper[p] # "PENDING"
  BY <1>1 DEF SerialInv, RequestsFit, Idle
<1>3. \A v \in Users : v # u => req'[v] = Idle
  BY <1>1, IdleHasNoOp DEF OneRequest, StartPublication, SerialInv, ExamInv, TypeOK
<1>4. /\ req'[u].op = "publishing"
      /\ \A r \in Rows : req'[u].sheet[r] = IF mark[r] = NoRow THEN Ungraded ELSE Grade(r, table)
  BY <1>2 DEF StartPublication, SerialInv, ExamInv, TypeOK, Rows
<1>5. \A r \in Rows : Grade(r, table)' = Grade(r, table) /\ Grade(r, table) # Ungraded
  BY <1>1, GradeIsVerdict DEF Grade, GradeOf, SerialInv, ExamInv, TypeOK
<1>6. Live' = Live
  BY <1>1 DEF Live
<1>7. RequestsFit'
  BY <1>1, <1>2, <1>3, <1>4, <1>6 DEF RequestsFit, Idle
<1>8. SheetIsCurrent'
  BY <1>1, <1>3, <1>4, <1>5, MarksAssumption DEF SheetIsCurrent, Publishing, Idle, Rows
<1>9. MarksHavePapers' /\ SummariesHaveRows' /\ PublishedIsSettled'
  BY <1>1, <1>2, <1>6 DEF SerialInv, MarksHavePapers, SummariesHaveRows, PublishedIsSettled
<1> QED
  BY <1>7, <1>8, <1>9 DEF SerialInv

(* A publication gives each row that is there the grade of its mark, and   *)
(* each student with a row a summary of these.                             *)
LEMMA PublishKeepsSerial ==
  ASSUME SerialInv, ExamInv', OneRequest, NEW u \in Users, PublishExam(u)
  PROVE  SerialInv'
<1>1. /\ req[u].op = "publishing" /\ Publishing(u) /\ Done(u) /\ status' = "PUBLISHED"
      /\ UNCHANGED <<deleted, table, terms, mark>>
  BY DEF PublishExam, Publishing
<1>2. \A v \in Users : req'[v] = Idle
  BY <1>1, IdleHasNoOp, OnlyRequestEnds DEF SerialInv, ExamInv
<1>3. ~ deleted /\ \A r \in Rows : r \in Seen(u) <=> mark[r] # NoRow
  BY <1>1 DEF SerialInv, SheetIsCurrent, Seen, Rows
<1>4. \A r \in Rows : mark[r] # NoRow => verdict'[r] = req[u].sheet[r] /\ verdict'[r] # Ungraded
  BY <1>3 DEF PublishExam, Seen, Rows
<1>5. /\ Live' = Live
      /\ \A p \in Live : paper'[p] = "LOCKED"
  BY DEF PublishExam, Live, SerialInv, ExamInv, TypeOK
<1>6. \A r \in Rows : mark[r] \in Scores => verdict'[r] = Grade(r, table)'
  <2>1. \A r \in Rows : Grade(r, table)' = Grade(r, table)
    BY <1>1 DEF Grade, GradeOf
  <2> QED
    BY <1>1, <1>4, <2>1, MarksAssumption DEF SerialInv, SheetIsCurrent
<1>7. \A s \in Students : summary'[s] # "none" =>
        (\E r \in Rows : r[2] = s /\ mark[r] # NoRow) /\ summary'[s] = Overall(u, s)
  <2> SUFFICES ASSUME NEW s \in Students, summary'[s] # "none"
               PROVE  (\E r \in Seen(u) : r[2] = s) /\ summary'[s] = Overall(u, s)
    BY <1>3 DEF Seen, Rows
  <2>1. summary'[s] = IF \E r \in Seen(u) : r[2] = s THEN Overall(u, s) ELSE summary[s]
    BY DEF PublishExam
  <2>2. CASE summary[s] = "none"
    BY <2>1, <2>2
  <2>3. CASE summary[s] # "none"
    BY <1>3, <2>1, <2>3 DEF SerialInv, SummariesHaveRows
  <2> QED
    BY <2>2, <2>3
<1>8. \A s \in Students : summary'[s] = "FAIL" =>
        \E r \in Rows : r[2] = s /\ verdict'[r].pass = "fail"
  <2> SUFFICES ASSUME NEW s \in Students, summary'[s] = "FAIL"
               PROVE  \E r \in Rows : r[2] = s /\ verdict'[r].pass = "fail"
    OBVIOUS
  <2>1. Overall(u, s) = "FAIL"
    BY <1>7
  <2>2. PICK r \in Seen(u) : r[2] = s /\ req[u].sheet[r].pass = "fail"
    BY <2>1 DEF Overall
  <2> QED
    BY <1>3, <1>4, <2>2 DEF Seen, Rows
<1>9. MarksHavePapers'
  BY <1>1, <1>5 DEF SerialInv, MarksHavePapers
<1>10. SummariesHaveRows'
  BY <1>1, <1>7 DEF SummariesHaveRows
<1>11. PublishedIsSettled'
  BY <1>1, <1>3, <1>4, <1>5, <1>6, <1>8 DEF PublishedIsSettled, Rows
<1> QED
  BY <1>2, <1>9, <1>10, <1>11, IdleRequestsFit DEF SerialInv

LEMMA UnpublishKeepsSerial ==
  ASSUME SerialInv, ExamInv', OneRequest, NEW u \in Users, UnpublishExam(u)
  PROVE  SerialInv'
<1>1. /\ req[u].op = "unpublish" /\ status' = "UNPUBLISHED"
      /\ UNCHANGED <<deleted, table, paper, terms, mark, verdict, summary>>
  BY DEF UnpublishExam, papers, results
<1>2. \A v \in Users : req'[v] = IF v = u THEN [op |-> "unlock"] ELSE Idle
  BY <1>1, IdleHasNoOp DEF OneRequest, UnpublishExam, SerialInv, ExamInv, TypeOK
<1>3. RequestsFit' /\ SheetIsCurrent'
  BY <1>1, <1>2 DEF RequestsFit, SheetIsCurrent, Publishing, Idle
<1>4. MarksHavePapers' /\ SummariesHaveRows' /\ PublishedIsSettled'
  BY <1>1 DEF SerialInv, MarksHavePapers, SummariesHaveRows, PublishedIsSettled, Live
<1> QED
  BY <1>3, <1>4 DEF SerialInv

(* A request that is given up, and a crash: nothing but requests change.   *)
LEMMA EndKeepsSerial ==
  ASSUME SerialInv, ExamInv', UNCHANGED <<exam, papers, results>>,
         \A v \in Users : req'[v] \in {req[v], Idle}
  PROVE  SerialInv'
<1>1. UNCHANGED <<status, deleted, table, paper, terms, mark, verdict, summary>>
  BY DEF exam, papers, results
<1>2. Live' = Live
  BY <1>1 DEF Live
<1>3. \A r \in Rows : Grade(r, table)' = Grade(r, table)
  BY <1>1 DEF Grade, GradeOf
<1>4. RequestsFit'
  BY <1>1, <1>2 DEF RequestsFit, Idle, SerialInv
<1>5. SheetIsCurrent'
  BY <1>1, <1>3 DEF SheetIsCurrent, Publishing, Idle, SerialInv
<1>6. MarksHavePapers' /\ SummariesHaveRows' /\ PublishedIsSettled'
  BY <1>1, <1>2, <1>3
  DEF SerialInv, MarksHavePapers, SummariesHaveRows, PublishedIsSettled
<1> QED
  BY <1>4, <1>5, <1>6 DEF SerialInv

(* A leave makes marks absences, never the other way round.                *)
LEMMA ExcuseKeepsSerial ==
  ASSUME SerialInv, ExamInv', NEW s \in Students, NEW ps \in SUBSET Papers, ExcuseStudent(s, ps)
  PROVE  SerialInv'
<1>1. UNCHANGED <<status, deleted, table, paper, terms, verdict, summary, req>>
  BY DEF ExcuseStudent, exam, papers
<1>2. \A r \in Rows : mark'[r] = mark[r] \/ (mark[r] # NoRow /\ mark'[r] = Absent)
  BY DEF ExcuseStudent, Rows
<1>3. \A r \in Rows : /\ mark'[r] # NoRow <=> mark[r] # NoRow
                      /\ mark'[r] \in Scores => mark'[r] = mark[r]
  BY <1>2, MarksAssumption
<1>4. \A r \in Rows : mark'[r] \in Scores => Grade(r, table)' = Grade(r, table)
  BY <1>1, <1>3, MarksAssumption DEF Grade, GradeOf
<1>5. Live' = Live
  BY <1>1 DEF Live
<1>6. RequestsFit'
  BY <1>1, <1>5 DEF RequestsFit, SerialInv
<1>7. SheetIsCurrent'
  BY <1>1, <1>3, <1>4 DEF SheetIsCurrent, Publishing, SerialInv
<1>8. MarksHavePapers' /\ SummariesHaveRows'
  BY <1>1, <1>3, <1>5 DEF SerialInv, MarksHavePapers, SummariesHaveRows
<1>9. PublishedIsSettled'
  <2> SUFFICES ASSUME status = "PUBLISHED"
               PROVE  PublishedIsSettled'
    BY <1>1 DEF PublishedIsSettled
  <2>1. \A r \in Rows : /\ mark'[r] # NoRow => verdict'[r] # Ungraded
                        /\ mark'[r] \in Scores => verdict'[r] = Grade(r, table)'
    BY <1>1, <1>3, <1>4 DEF SerialInv, PublishedIsSettled
  <2>2. \A p \in Live', x \in Students : mark[<<p, x>>] = NoRow => mark'[<<p, x>>] = NoRow
    BY <1>3, <1>5 DEF Rows, Live
  <2>3. \A p \in Live' :
          paper'[p] = "LOCKED" \/ \A x \in Students : mark'[<<p, x>>] = NoRow
    BY <1>1, <1>5, <2>2 DEF SerialInv, PublishedIsSettled
  <2> QED
    BY <1>1, <2>1, <2>3 DEF SerialInv, PublishedIsSettled
<1> QED
  BY <1>6, <1>7, <1>8, <1>9 DEF SerialInv

LEMMA SerialNext ==
  ASSUME SerialInv, OneRequest, [Next]_vars
  PROVE  SerialInv'
<1>1. ExamInv'
  BY InvNext DEF SerialInv
<1>2. ASSUME NEW u \in Users, AbortRequest(u)
      PROVE  SerialInv'
  BY <1>1, <1>2, EndKeepsSerial DEF AbortRequest, Done, SerialInv, ExamInv, TypeOK
<1>3. CASE Crash
  BY <1>1, <1>3, EndKeepsSerial DEF Crash
<1>4. CASE UNCHANGED vars
  BY <1>1, <1>4, EndKeepsSerial DEF vars
<1> QED
  BY <1>1, <1>2, <1>3, <1>4, CreateKeepsSerial, DecideKeepsSerial, UnpublishedKeepsSerial,
     AddKeepsSerial, RemoveKeepsSerial, EnterKeepsSerial, StartKeepsSerial,
     PublishKeepsSerial, UnpublishKeepsSerial, ExcuseKeepsSerial
  DEF Next, Handler

LEMMA SerialHolds == Spec /\ []OneRequest => []SerialInv
  BY SerialInit, SerialNext, PTL DEF Spec

(* The grades of a published exam are those of its marks, papers and       *)
(* boundaries as they are (publishExam, enterMarks, updateExamSubject and  *)
(* updateExam), for any number of users who make one request at a time,    *)
(* with leaves and crashes at any point.                                   *)
THEOREM GradesFollowMarksHolds == Spec /\ []OneRequest => []GradesFollowMarks
<1>1. SerialInv => GradesFollowMarks
  BY DEF SerialInv, PublishedIsSettled, GradesFollowMarks, Rows
<1> QED
  BY <1>1, SerialHolds, PTL

(* What publishExam locked stays locked, and a paper added to a published  *)
(* exam has no marks, for users who make one request at a time.            *)
THEOREM PublishedIsLockedHolds == Spec /\ []OneRequest => []PublishedIsLocked
<1>1. SerialInv => PublishedIsLocked
  BY DEF SerialInv, PublishedIsSettled, PublishedIsLocked
<1> QED
  BY <1>1, SerialHolds, PTL

(* SerialInv is all that the four reads of a published exam need to agree. *)
LEMMA SettledIsAgreed ==
  ASSUME SerialInv
  PROVE  ResultsAgree
<1> SUFFICES ASSUME NEW s \in Students
    PROVE  LET told == {r.overall : r \in {r \in GetResults : r.student = s}} IN
        /\ ChildResults(s) = told
        /\ told = {r.overall : r \in GetStudentResult(s)} \ {"none"}
        /\ \A r \in GetStudentResult(s) :
             /\ r.overall = "none" <=> r.results = {}
             /\ r.overall = "FAIL" <=> \E x \in r.results : x.verdict.pass = "fail"
             /\ s \in Classmates => \A x \in r.results, u \in Admins :
                  <<s, x.mark, x.verdict>> \in GetMarks(u, x.paper)
  BY DEF ResultsAgree
<1> DEFINE told == {r.overall : r \in {r \in GetResults : r.student = s}}
           own == [student |-> s, results |-> ShownPapers(s), overall |-> summary[s]]
<1>1. status = "PUBLISHED" => Readable
  BY DEF SerialInv, PublishedIsSettled, Readable
<1>2. told = {o \in {summary[s]} : status = "PUBLISHED" /\ o # "none"}
  <2>1. ASSUME NEW o \in told
        PROVE  o = summary[s] /\ status = "PUBLISHED" /\ o # "none"
    BY DEF GetResults
  <2>2. ASSUME status = "PUBLISHED", summary[s] # "none"
        PROVE  summary[s] \in told
    <3>1. own \in GetResults
      BY <1>1, <2>2 DEF GetResults
    <3>2. own.student = s /\ own.overall = summary[s]
      OBVIOUS
    <3> HIDE DEF own
    <3> QED
      BY <3>1, <3>2
  <2> HIDE DEF told, own
  <2> QED
    BY <2>1, <2>2
<1>3. ChildResults(s) = told
  BY <1>2 DEF ChildResults
<1>4. GetStudentResult(s) = {r \in {own} : status = "PUBLISHED"}
  BY <1>1 DEF GetStudentResult
<1>5. told = {r.overall : r \in GetStudentResult(s)} \ {"none"}
  <2>1. {r.overall : r \in GetStudentResult(s)} = {o \in {summary[s]} : status = "PUBLISHED"}
    <3>1. own.overall = summary[s]
      OBVIOUS
    <3> HIDE DEF own
    <3> QED
      BY <1>4, <3>1
  <2> HIDE DEF told, own
  <2> QED
    BY <1>2, <2>1
<1>6. ASSUME status = "PUBLISHED"
      PROVE  /\ summary[s] = "none" <=> ShownPapers(s) = {}
             /\ summary[s] = "FAIL" <=> \E x \in ShownPapers(s) : x.verdict.pass = "fail"
             /\ s \in Classmates => \A x \in ShownPapers(s), u \in Admins :
                  <<s, x.mark, x.verdict>> \in GetMarks(u, x.paper)
  <2>1. \A p \in Live : mark[<<p, s>>] # NoRow => summary[s] # "none"
    BY <1>6 DEF SerialInv, PublishedIsSettled, ExamInv, GradedAreSummarised, Rows, Live
  <2>2. summary[s] # "none" => \E p \in Live : mark[<<p, s>>] # NoRow
    BY DEF SerialInv, SummariesHaveRows, MarksHavePapers, Rows
  <2>3. summary[s] = "none" <=> ShownPapers(s) = {}
    BY <2>1, <2>2 DEF ShownPapers
  <2>4. summary[s] = "FAIL" => \E x \in ShownPapers(s) : x.verdict.pass = "fail"
    <3> SUFFICES ASSUME summary[s] = "FAIL"
                 PROVE  \E x \in ShownPapers(s) : x.verdict.pass = "fail"
      OBVIOUS
    <3>1. PICK r \in Rows : r[2] = s /\ verdict[r].pass = "fail"
      BY <1>6 DEF SerialInv, PublishedIsSettled
    <3>2. mark[r] # NoRow /\ r[1] \in Live /\ r = <<r[1], s>>
      BY <3>1 DEF SerialInv, ExamInv, VerdictsHaveRows, MarksHavePapers, Ungraded, Rows
    <3>3. [paper |-> r[1], mark |-> mark[r], verdict |-> verdict[r]] \in ShownPapers(s)
      BY <3>2 DEF ShownPapers
    <3> QED
      BY <3>1, <3>3
  <2>5. (\E x \in ShownPapers(s) : x.verdict.pass = "fail") => summary[s] = "FAIL"
    <3> SUFFICES ASSUME NEW x \in ShownPapers(s), x.verdict.pass = "fail"
                 PROVE  summary[s] = "FAIL"
      OBVIOUS
    <3>1. PICK p \in Live : x = [paper |-> p, mark |-> mark[<<p, s>>], verdict |-> verdict[<<p, s>>]]
      BY DEF ShownPapers
    <3>2. x.verdict = verdict[<<p, s>>]
      BY <3>1
    <3> QED
      BY <3>2 DEF SerialInv, ExamInv, FailedPaperFailsExam, Live
  <2>6. s \in Classmates => \A x \in ShownPapers(s), u \in Admins :
          <<s, x.mark, x.verdict>> \in GetMarks(u, x.paper)
    <3> SUFFICES ASSUME s \in Classmates, NEW x \in ShownPapers(s), NEW u \in Admins
                 PROVE  <<s, x.mark, x.verdict>> \in GetMarks(u, x.paper)
      OBVIOUS
    <3>1. PICK p \in Live : x = [paper |-> p, mark |-> mark[<<p, s>>], verdict |-> verdict[<<p, s>>]]
      BY DEF ShownPapers
    <3>2. x.paper = p /\ x.mark = mark[<<p, s>>] /\ x.verdict = verdict[<<p, s>>]
      BY <3>1
    <3>3. <<s, mark[<<p, s>>], verdict[<<p, s>>]>> \in GetMarks(u, p)
      BY <1>1, <1>6, <3>1 DEF GetMarks
    <3> QED
      BY <3>2, <3>3
  <2> QED
    BY <2>3, <2>4, <2>5, <2>6
<1>7. \A r \in GetStudentResult(s) :
        /\ r.overall = "none" <=> r.results = {}
        /\ r.overall = "FAIL" <=> \E x \in r.results : x.verdict.pass = "fail"
        /\ s \in Classmates => \A x \in r.results, u \in Admins :
             <<s, x.mark, x.verdict>> \in GetMarks(u, x.paper)
  <2> SUFFICES ASSUME NEW r \in GetStudentResult(s)
      PROVE  /\ r.overall = "none" <=> r.results = {}
             /\ r.overall = "FAIL" <=> \E x \in r.results : x.verdict.pass = "fail"
             /\ s \in Classmates => \A x \in r.results, u \in Admins :
                  <<s, x.mark, x.verdict>> \in GetMarks(u, x.paper)
    OBVIOUS
  <2>1. status = "PUBLISHED" /\ r.overall = summary[s] /\ r.results = ShownPapers(s)
    BY <1>4
  <2> QED
    BY <1>6, <2>1
<1> QED
  BY <1>3, <1>5, <1>7

(* The school, the student and the guardian are told the same of a         *)
(* published exam (getResults, getStudentResult, getMarks and the          *)
(* guardian's children), for users who make one request at a time.         *)
THEOREM ResultsAgreeHolds == Spec /\ []OneRequest => []ResultsAgree
  BY SerialHolds, SettledIsAgreed, PTL

-----------------------------------------------------------------------------
(* What counts as marked is: as many results as classmates, of classmates  *)
(* only, are results of them all.                                          *)
LEMMA MarkedByCount ==
  ASSUME IsFiniteSet(Classmates), NEW p, Marked(p) \subseteq Classmates,
         Cardinality(Marked(p)) >= Cardinality(Classmates)
  PROVE  Classmates \subseteq Marked(p)
<1>1. /\ IsFiniteSet(Marked(p)) /\ Cardinality(Marked(p)) <= Cardinality(Classmates)
      /\ Cardinality(Classmates) = Cardinality(Marked(p)) => Classmates = Marked(p)
  BY FS_Subset
<1>2. Cardinality(Marked(p)) \in Nat /\ Cardinality(Classmates) \in Nat
  BY <1>1, FS_CardinalityType
<1> QED
  BY <1>1, <1>2

LEMMA MarkedNext ==
  ASSUME IsFiniteSet(Classmates), SerialInv, OneRequest, ClassMarked, MarkedIsComplete, [Next]_vars
  PROVE  MarkedIsComplete'
<1> DEFINE Complete(p) == paper[p] \in {"ENTERED", "LOCKED"}
<1>1. ASSUME \A p \in Papers, s \in Students : mark'[<<p, s>>] = NoRow /\ Complete(p)'
               => mark[<<p, s>>] = NoRow,
             \A p \in Papers : Complete(p)' => Complete(p)
      PROVE  MarkedIsComplete'
  BY <1>1, PeopleAssumption DEF MarkedIsComplete, Marked
<1>2. ASSUME UNCHANGED <<paper, mark>>
      PROVE  MarkedIsComplete'
  BY <1>1, <1>2
<1>3. ASSUME NEW u \in Users,
             \/ \E b \in Tables : CreateExam(u, b)
             \/ \E r \in Asked : Decide(u, r)
             \/ UpdateExam(u) \/ DeleteExam(u) \/ UpdateExamSubject(u)
             \/ StartPublication(u) \/ UnpublishExam(u) \/ AbortRequest(u)
      PROVE  MarkedIsComplete'
  BY <1>2, <1>3 DEF CreateExam, Decide, UpdateExam, DeleteExam, UpdateExamSubject,
                    StartPublication, UnpublishExam, AbortRequest, papers, results
<1>4. ASSUME NEW u \in Users, AddExamSubject(u) \/ RemoveExamSubject(u)
      PROVE  MarkedIsComplete'
  BY <1>1, <1>4, RequestFields
  DEF AddExamSubject, RemoveExamSubject, results, SerialInv, ExamInv, TypeOK
<1>5. ASSUME NEW u \in Users, NEW s \in Students, EnterMark(u, s)
      PROVE  MarkedIsComplete'
  BY <1>1, <1>5 DEF EnterMark, papers, SerialInv, ExamInv, TypeOK
<1>6. ASSUME NEW u \in Users, FinishMarks(u)
      PROVE  MarkedIsComplete'
  <2>1. mark' = mark /\ req[u].paper \in Papers
    BY <1>6, RequestFields DEF FinishMarks, results, SerialInv, ExamInv
  <2>2. \A p \in Papers : Complete(p)' =>
          Complete(p) \/ Cardinality(Marked(p)) >= Cardinality(Classmates)
    BY <1>6 DEF FinishMarks, SerialInv, ExamInv, TypeOK
  <2>3. \A p \in Papers : Marked(p)' = Marked(p)
    BY <2>1 DEF Marked
  <2> QED
    BY <2>2, <2>3, MarkedByCount DEF MarkedIsComplete, ClassMarked
<1>7. ASSUME NEW u \in Users, PublishExam(u)
      PROVE  MarkedIsComplete'
  <2>1. \A p \in Live : Complete(p)
    BY <1>7 DEF PublishExam, Publishing, SerialInv, RequestsFit, Live, ExamInv, TypeOK
  <2> QED
    BY <1>1, <1>7, <2>1 DEF PublishExam, Live
<1>8. ASSUME NEW u \in Users, UnlockPapers(u)
      PROVE  MarkedIsComplete'
  BY <1>1, <1>8 DEF UnlockPapers, results, SerialInv, ExamInv, TypeOK
<1>9. ASSUME NEW s \in Students, NEW ps \in SUBSET Papers, ExcuseStudent(s, ps)
      PROVE  MarkedIsComplete'
  BY <1>1, <1>9, MarksAssumption DEF ExcuseStudent, papers
<1>10. CASE Crash
  BY <1>2, <1>10 DEF Crash, papers, results
<1>11. CASE UNCHANGED vars
  BY <1>2, <1>11 DEF vars, papers, results
<1> QED
  BY <1>3, <1>4, <1>5, <1>6, <1>7, <1>8, <1>9, <1>10, <1>11 DEF Next, Handler

(* A paper that counts as marked has a result of every active student of   *)
(* the class (enterMarks compares two counts), and none is published half  *)
(* marked: for classes of any size, users who make one request at a time   *)
(* and marks that name students of the class only.                         *)
THEOREM MarkedIsCompleteHolds ==
  ASSUME IsFiniteSet(Classmates)
  PROVE  Spec /\ []OneRequest /\ []ClassMarked => []MarkedIsComplete
<1>1. Init => MarkedIsComplete
  BY DEF Init, MarkedIsComplete
<1>2. SerialInv /\ OneRequest /\ ClassMarked /\ MarkedIsComplete /\ [Next]_vars => MarkedIsComplete'
  BY MarkedNext
<1> QED
  BY <1>1, <1>2, SerialHolds, PTL DEF Spec
=============================================================================
