-------------------------- MODULE ExamPublication --------------------------
(***************************************************************************)
(* One exam of a class: the handlers of modules/exams that write.          *)
(*                                                                         *)
(* Every handler first reads the exam without a lock and decides.  Only    *)
(* publishExam opens a transaction afterwards and locks the row of the     *)
(* exam; the others write with single statements what they decided, and    *)
(* none of them looks again.  The decision in flight is req[u].            *)
(*                                                                         *)
(* A paper is a row of exam_subjects, a mark one of exam_results.  Of a    *)
(* student's summary the overall result is kept.                           *)
(***************************************************************************)
EXTENDS GradeScale, FiniteSets

CONSTANTS
  Users,         \* signed-in Admins and Teachers, one request in flight each
  Admins,
  Papers,        \* exam_subjects ids
  SubjectOf,     \* exam_subjects.subject_id
  Students,      \* those marks may name; the handler takes any student
  Classmates,    \* the active students of the class
  Scores,        \* marks_obtained; the handler accepts negative ones
  Terms,         \* what a paper is set up with: total, pass and teacher
  Tables,        \* grade boundaries; <<>> stands for the default ones
  Absent,
  NoRow          \* no row of exam_results

ASSUME PeopleAssumption == Admins \subseteq Users /\ Classmates \subseteq Students

ASSUME MarksAssumption ==
  /\ Scores \subseteq Int
  /\ Absent \notin Scores
  /\ NoRow \notin Scores \cup {Absent}

ASSUME TermsAssumption ==
  /\ Terms \subseteq [total : Int, pass : Int, teacher : Users]
  /\ \A t \in Terms : t.pass <= t.total

VARIABLES
  status,        \* exams.status; NONE before the exam is created
  deleted,       \* exams.deleted_at is set
  table,         \* exams.grade_boundaries
  paper,         \* exam_subjects.marks_status; none and removed are no rows
  terms,         \* total_marks, pass_marks and teacher_id of each paper
  mark,          \* exam_results: marks_obtained and is_absent
  verdict,       \* exam_results: grade and is_pass
  summary,       \* exam_student_summaries.overall_result
  req

exam == <<status, deleted, table>>
papers == <<paper, terms>>
results == <<mark, verdict, summary>>
vars == <<exam, papers, results, req>>

Live == {p \in Papers : paper[p] \notin {"none", "removed"}}

Marks == Scores \cup {Absent}

GradesOf(scale) == {scale[i].grade : i \in DOMAIN scale}

Grades ==
  {"none", "AB", "N/A"} \cup GradesOf(DefaultBoundaries) \cup UNION {GradesOf(b) : b \in Tables}

Verdicts == [grade : Grades, pass : {"none", "pass", "fail"}]

Ungraded == [grade |-> "none", pass |-> "none"]

Idle == [op |-> "idle"]

(* What publishExam computes from the rows it read: a verdict for each, or *)
(* Ungraded where there was no row.                                        *)
Sheets == [Papers \X Students -> Verdicts]

(* What is left to enter: NoRow for a student who is not in the list, or   *)
(* whose mark is written already.                                          *)
Entries == [Students -> Marks \cup {NoRow}]

Requests ==
  {Idle}
  \cup [op : {"update", "publish"}, table : Tables]
  \cup [op : {"delete", "unpublish", "unlock"}]
  \cup [op : {"add", "edit"}, paper : Papers, terms : Terms]
  \cup [op : {"remove"}, paper : Papers]
  \cup [op : {"enter"}, paper : Papers, entries : Entries]
  \cup [op : {"publishing"}, sheet : Sheets]

TypeOK ==
  /\ status \in {"NONE", "DRAFT", "PUBLISHED", "UNPUBLISHED"}
  /\ deleted \in BOOLEAN
  /\ table \in Tables
  /\ paper \in [Papers -> {"none", "PENDING", "ENTERED", "LOCKED", "removed"}]
  /\ terms \in [Papers -> Terms]
  /\ mark \in [Papers \X Students -> Marks \cup {NoRow}]
  /\ verdict \in [Papers \X Students -> Verdicts]
  /\ summary \in [Students -> {"none", "PASS", "FAIL"}]
  /\ req \in [Users -> Requests]

Init ==
  /\ status = "NONE"
  /\ deleted = FALSE
  /\ table \in Tables
  /\ paper = [p \in Papers |-> "none"]
  /\ terms \in [Papers -> Terms]
  /\ mark = [r \in Papers \X Students |-> NoRow]
  /\ verdict = [r \in Papers \X Students |-> Ungraded]
  /\ summary = [s \in Students |-> "none"]
  /\ req = [u \in Users |-> Idle]

-----------------------------------------------------------------------------
(* The row of the exam is locked from the locked read of a publication to  *)
(* its commit.                                                             *)
Publishing(u) == req[u].op = "publishing"

ExamRowFree == \A u \in Users : ~ Publishing(u)

(* POST /exams.                                                            *)
CreateExam(u, b) ==
  /\ req[u] = Idle
  /\ u \in Admins
  /\ status = "NONE"
  /\ status' = "DRAFT"
  /\ table' = b
  /\ UNCHANGED <<deleted, papers, results, req>>

(* The checks of the handlers, each on its unlocked read of the exam.      *)
(* A bug to detect: an exam is published while marks are missing.          *)
MayPublishIncomplete(u, r) ==
  /\ u \in Admins /\ status # "PUBLISHED" /\ r.table = table
  /\ Live # {}

MayPublish(u, r) ==
  /\ u \in Admins /\ status # "PUBLISHED" /\ r.table = table
  /\ Live # {} /\ \A p \in Live : paper[p] # "PENDING"

(* A bug to detect: marks may be entered whatever the status.              *)
MayEnterAnyTime(u, r) ==
  /\ r.paper \in Live
  /\ u \in Admins \/ terms[r.paper].teacher = u
  /\ \E s \in Students : r.entries[s] # NoRow
  /\ \A s \in Students : r.entries[s] \in Scores => r.entries[s] <= terms[r.paper].total

MayEnter(u, r) ==
  /\ status # "PUBLISHED" /\ r.paper \in Live
  /\ u \in Admins \/ terms[r.paper].teacher = u
  /\ \E s \in Students : r.entries[s] # NoRow
  /\ \A s \in Students : r.entries[s] \in Scores => r.entries[s] <= terms[r.paper].total

MayDrop(u) == u \in Admins /\ status = "DRAFT"

(* addExamSubject does not look at the status, updateExamSubject not at the *)
(* sign of the marks.                                                      *)
Allowed(u, r) ==
  \/ r.op = "publish" /\ MayPublish(u, r)
  \/ r.op = "unpublish" /\ u \in Admins /\ status = "PUBLISHED"
  \/ r.op = "update" /\ u \in Admins /\ status = "DRAFT"
  \/ r.op = "delete" /\ MayDrop(u)
  \/ /\ r.op = "add" /\ u \in Admins
     /\ r.terms.total > 0 /\ r.terms.pass >= 0
     /\ \A p \in Live : SubjectOf[p] # SubjectOf[r.paper]
  \/ r.op = "edit" /\ u \in Admins /\ status # "PUBLISHED" /\ r.paper \in Live
  \/ r.op = "remove" /\ u \in Admins /\ status = "DRAFT" /\ r.paper \in Live
  \/ r.op = "enter" /\ MayEnter(u, r)

Decide(u, r) ==
  /\ req[u] = Idle
  /\ status # "NONE" /\ ~ deleted
  /\ Allowed(u, r)
  /\ req' = [req EXCEPT ![u] = r]
  /\ UNCHANGED <<exam, papers, results>>

Done(u) == req' = [req EXCEPT ![u] = Idle]

-----------------------------------------------------------------------------
(* PUT and DELETE /exams/:id, the write.                                   *)
UpdateExam(u) ==
  /\ req[u].op = "update"
  /\ ExamRowFree
  /\ table' = req[u].table
  /\ Done(u)
  /\ UNCHANGED <<status, deleted, papers, results>>

DeleteExam(u) ==
  /\ req[u].op = "delete"
  /\ ExamRowFree
  /\ deleted' = TRUE
  /\ Done(u)
  /\ UNCHANGED <<status, table, papers, results>>

(* POST /exams/:id/subjects, the insert, which takes a key lock on the     *)
(* exam; the table has no second row for a subject.                        *)
AddExamSubject(u) ==
  /\ req[u].op = "add"
  /\ paper[req[u].paper] = "none"
  /\ ExamRowFree
  /\ \A p \in Live : SubjectOf[p] # SubjectOf[req[u].paper]
  /\ paper' = [paper EXCEPT ![req[u].paper] = "PENDING"]
  /\ terms' = [terms EXCEPT ![req[u].paper] = req[u].terms]
  /\ Done(u)
  /\ UNCHANGED <<exam, results>>

(* PUT /exams/:id/subjects/:subjectId, the write; no row, no effect.       *)
UpdateExamSubject(u) ==
  /\ req[u].op = "edit"
  /\ terms' = IF req[u].paper \in Live
              THEN [terms EXCEPT ![req[u].paper] = req[u].terms] ELSE terms
  /\ Done(u)
  /\ UNCHANGED <<exam, paper, results>>

(* DELETE /exams/:id/subjects/:subjectId, the write, and its cascade.      *)
RemoveExamSubject(u) ==
  /\ req[u].op = "remove"
  /\ paper' = [paper EXCEPT ![req[u].paper] = "removed"]
  /\ mark' = [r \in Papers \X Students |->
                IF r[1] = req[u].paper THEN NoRow ELSE mark[r]]
  /\ verdict' = [r \in Papers \X Students |->
                   IF r[1] = req[u].paper THEN Ungraded ELSE verdict[r]]
  /\ Done(u)
  /\ UNCHANGED <<exam, terms, summary>>

(* PUT /exams/:id/subjects/:subjectId/marks: one upsert per student of the *)
(* list, each a transaction; the reference to the paper must hold.         *)
EnterMark(u, s) ==
  /\ req[u].op = "enter"
  /\ req[u].entries[s] # NoRow
  /\ req[u].paper \in Live
  /\ mark' = [mark EXCEPT ![<<req[u].paper, s>>] = req[u].entries[s]]
  /\ req' = [req EXCEPT ![u] = [op |-> "enter", paper |-> req[u].paper,
                                entries |-> [req[u].entries EXCEPT ![s] = NoRow]]]
  /\ UNCHANGED <<exam, papers, verdict, summary>>

(* Then the paper is ENTERED when it has as many results as the class has  *)
(* active students, of whoever they are.                                   *)
Marked(p) == {s \in Students : mark[<<p, s>>] # NoRow}

(* A bug to detect: ENTERED after the first batch of marks.                *)
FinishMarksEarly(u) ==
  /\ req[u].op = "enter"
  /\ \A s \in Students : req[u].entries[s] = NoRow
  /\ paper' = IF req[u].paper \in Live
              THEN [paper EXCEPT ![req[u].paper] = "ENTERED"] ELSE paper
  /\ Done(u)
  /\ UNCHANGED <<exam, terms, results>>

FinishMarks(u) ==
  /\ req[u].op = "enter"
  /\ \A s \in Students : req[u].entries[s] = NoRow
  /\ paper' = IF /\ req[u].paper \in Live
                 /\ Classmates # {}
                 /\ Cardinality(Marked(req[u].paper)) >= Cardinality(Classmates)
              THEN [paper EXCEPT ![req[u].paper] = "ENTERED"] ELSE paper
  /\ Done(u)
  /\ UNCHANGED <<exam, terms, results>>

(* approveLeave: the student's results on the days of the leave.           *)
ExcuseStudent(s, ps) ==
  /\ \E p \in ps : mark[<<p, s>>] \in Scores
  /\ mark' = [r \in Papers \X Students |->
                IF r[1] \in ps /\ r[2] = s /\ mark[r] # NoRow THEN Absent ELSE mark[r]]
  /\ UNCHANGED <<exam, papers, verdict, summary, req>>

-----------------------------------------------------------------------------
(* PUT /exams/:id/publish.  The percentage of a paper of no marks is 0.    *)
GradeOf(score, total, boundaries) ==
  LET scale == IF boundaries = <<>> THEN DefaultBoundaries ELSE boundaries
  IN IF total > 0 THEN LookupGrade(score, total, scale) ELSE LookupGrade(0, 1, scale)

(* Grade and pass of one row.                                              *)
Grade(r, boundaries) ==
  IF mark[r] = Absent
  THEN [grade |-> "AB", pass |-> "none"]
  ELSE [grade |-> GradeOf(mark[r], terms[r[1]].total, boundaries),
        pass |-> IF mark[r] >= terms[r[1]].pass THEN "pass" ELSE "fail"]

(* The transaction: lock the row, if the exam is not deleted, and read the *)
(* results.  The status is not looked at again, and the boundaries are     *)
(* those of the first read.                                                *)
StartPublication(u) ==
  /\ req[u].op = "publish"
  /\ ExamRowFree
  /\ ~ deleted
  /\ req' = [req EXCEPT ![u] =
       [op |-> "publishing",
        sheet |-> [r \in Papers \X Students |->
                     IF mark[r] = NoRow THEN Ungraded ELSE Grade(r, req[u].table)]]]
  /\ UNCHANGED <<exam, papers, results>>

Seen(u) == {r \in Papers \X Students : req[u].sheet[r] # Ungraded}

(* A bug to detect: a student passes who passed one paper.                 *)
OverallOfBest(u, s) ==
  IF \A r \in Seen(u) : r[2] = s => req[u].sheet[r].pass = "fail" THEN "FAIL" ELSE "PASS"

(* One failed paper fails the exam; an absence does not.                   *)
Overall(u, s) ==
  IF \E r \in Seen(u) : r[2] = s /\ req[u].sheet[r].pass = "fail" THEN "FAIL" ELSE "PASS"

(* A bug to detect: papers are not locked.                                 *)
PublishExamUnlocked(u) ==
  /\ Publishing(u)
  /\ verdict' = [r \in Papers \X Students |->
                   IF r \in Seen(u) /\ mark[r] # NoRow THEN req[u].sheet[r] ELSE verdict[r]]
  /\ summary' = [s \in Students |->
                   IF \E r \in Seen(u) : r[2] = s THEN Overall(u, s) ELSE summary[s]]
  /\ status' = "PUBLISHED"
  /\ Done(u)
  /\ UNCHANGED <<deleted, table, papers, mark>>

(* A bug to detect: an absence on every paper leaves no summary.           *)
PublishExamOfPresent(u) ==
  /\ Publishing(u)
  /\ verdict' = [r \in Papers \X Students |->
                   IF r \in Seen(u) /\ mark[r] # NoRow THEN req[u].sheet[r] ELSE verdict[r]]
  /\ summary' = [s \in Students |->
                   IF \E r \in Seen(u) : r[2] = s /\ req[u].sheet[r].pass # "none"
                   THEN Overall(u, s) ELSE summary[s]]
  /\ status' = "PUBLISHED"
  /\ paper' = [p \in Papers |-> IF p \in Live THEN "LOCKED" ELSE paper[p]]
  /\ Done(u)
  /\ UNCHANGED <<deleted, table, terms, mark>>

PublishExam(u) ==
  /\ Publishing(u)
  /\ verdict' = [r \in Papers \X Students |->
                   IF r \in Seen(u) /\ mark[r] # NoRow THEN req[u].sheet[r] ELSE verdict[r]]
  /\ summary' = [s \in Students |->
                   IF \E r \in Seen(u) : r[2] = s THEN Overall(u, s) ELSE summary[s]]
  /\ status' = "PUBLISHED"
  /\ paper' = [p \in Papers |-> IF p \in Live THEN "LOCKED" ELSE paper[p]]
  /\ Done(u)
  /\ UNCHANGED <<deleted, table, terms, mark>>

(* PUT /exams/:id/unpublish, its two updates.                              *)
UnpublishExam(u) ==
  /\ req[u].op = "unpublish"
  /\ ExamRowFree
  /\ status' = "UNPUBLISHED"
  /\ req' = [req EXCEPT ![u] = [op |-> "unlock"]]
  /\ UNCHANGED <<deleted, table, papers, results>>

UnlockPapers(u) ==
  /\ req[u].op = "unlock"
  /\ paper' = [p \in Papers |-> IF paper[p] = "LOCKED" THEN "ENTERED" ELSE paper[p]]
  /\ Done(u)
  /\ UNCHANGED <<exam, terms, results>>

(* A statement fails: what it and its transaction did is undone, what was  *)
(* committed before stays.                                                 *)
AbortRequest(u) ==
  /\ req[u] # Idle
  /\ Done(u)
  /\ UNCHANGED <<exam, papers, results>>

Crash ==
  /\ req' = [u \in Users |-> Idle]
  /\ UNCHANGED <<exam, papers, results>>

-----------------------------------------------------------------------------
(* The requests that can be made.                                          *)
Asked ==
  [op : {"update", "publish"}, table : Tables]
  \cup [op : {"delete", "unpublish"}]
  \cup [op : {"add", "edit"}, paper : Papers, terms : Terms]
  \cup [op : {"remove"}, paper : Papers]
  \cup [op : {"enter"}, paper : Papers, entries : Entries]

Handler(u) ==
  \/ \E b \in Tables : CreateExam(u, b)
  \/ \E r \in Asked : Decide(u, r)
  \/ UpdateExam(u)
  \/ DeleteExam(u)
  \/ AddExamSubject(u)
  \/ UpdateExamSubject(u)
  \/ RemoveExamSubject(u)
  \/ \E s \in Students : EnterMark(u, s)
  \/ FinishMarks(u)
  \/ StartPublication(u)
  \/ PublishExam(u)
  \/ UnpublishExam(u)
  \/ UnlockPapers(u)
  \/ AbortRequest(u)

Next ==
  \/ \E u \in Users : Handler(u)
  \/ \E s \in Students, ps \in SUBSET Papers : ExcuseStudent(s, ps)
  \/ Crash

Spec == Init /\ [][Next]_vars

-----------------------------------------------------------------------------
(* What holds however requests interleave.                                 *)

(* Invariant 17 of the backend freeze document: a student who failed one   *)
(* paper failed the exam.  The verdicts of the papers and the summary are  *)
(* written by different statements, and papers, marks and absences change  *)
(* while a publication runs and between two of them.                       *)
FailedPaperFailsExam ==
  \A r \in Papers \X Students : verdict[r].pass = "fail" => summary[r[2]] = "FAIL"

(* No student has a graded paper without a summary.                        *)
GradedAreSummarised ==
  \A r \in Papers \X Students : verdict[r] # Ungraded => summary[r[2]] # "none"

(* Two publications of an exam never run together: the row lock.           *)
PublicationsExclude ==
  \A u, v \in Users : Publishing(u) /\ Publishing(v) => u = v

-----------------------------------------------------------------------------
(* What holds while one request runs at a time.                            *)
Quiet == \A u \in Users : req[u] = Idle

OneRequest == \A u, v \in Users : req[u] # Idle /\ req[v] # Idle => u = v

(* Marks name students of the class only, as the page that enters them     *)
(* does.                                                                   *)
ClassMarked == \A p \in Papers : Marked(p) \subseteq Classmates

(* The grades of a published exam are those of its marks, its papers and   *)
(* its boundaries as they are: nothing that goes into a grade changes      *)
(* under a published exam, except that a leave makes a student absent.     *)
GradesFollowMarks ==
  Quiet /\ status = "PUBLISHED" =>
    \A r \in Papers \X Students : mark[r] \in Scores => verdict[r] = Grade(r, table)

(* A paper counts as marked only when every active student of the class    *)
(* has a result ("Check if all active students now have results", says the *)
(* comment of enterMarks), so none is published half marked.  It holds     *)
(* while marks name students of the class only.                            *)
MarkedIsComplete ==
  \A p \in Papers : paper[p] \in {"ENTERED", "LOCKED"} => Classmates \subseteq Marked(p)

(* The papers of a published exam are locked, or were added later and have *)
(* no marks.                                                               *)
PublishedIsLocked ==
  Quiet /\ status = "PUBLISHED" =>
    \A p \in Live :
      paper[p] = "LOCKED" \/ \A s \in Students : mark[<<p, s>>] = NoRow

-----------------------------------------------------------------------------
(* What the documents say and the code does not do.                        *)

(* Invariant 15: a failed paper always gets grade F.                       *)
FailedGetsF ==
  \A r \in Papers \X Students : verdict[r].pass = "fail" => verdict[r].grade = "F"

(* Invariant 16: an absent student always gets grade AB.                   *)
AbsentGetsAB ==
  Quiet /\ status = "PUBLISHED" =>
    \A r \in Papers \X Students : mark[r] = Absent => verdict[r].grade = "AB"

(* The grades of the interface (GradeValue in openapi.yaml): every mark is  *)
(* on the scale, 89.99 per cent is an A.                                   *)
GradedOnScale ==
  \A r \in Papers \X Students :
    verdict[r].grade \in {"none", "AB"} \cup GradesOf(DefaultBoundaries)

(* Section 4.5: a published exam is not published again before it is       *)
(* unpublished (409 ALREADY_PUBLISHED).                                    *)
PublishedOnce ==
  [][\A u \in Users : PublishExam(u) => status # "PUBLISHED"]_vars

(* No mark is entered for a published exam (409 EXAM_PUBLISHED).           *)
PublishedTakesNoMarks ==
  [][status = "PUBLISHED" => \A r \in Papers \X Students :
       mark'[r] \in Scores => mark'[r] = mark[r]]_vars
=============================================================================
