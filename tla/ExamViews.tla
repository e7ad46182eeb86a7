----------------------------- MODULE ExamViews -----------------------------
(***************************************************************************)
(* What is read of an exam: the marks a teacher enters into, the results   *)
(* of the class, those of one student, and what a guardian sees of a       *)
(* child.  A refused read is {}.  Names, sums, percentages and ranks are   *)
(* left out, and so is who may read whom, which Accounts has.              *)
(***************************************************************************)
EXTENDS ExamPublication

Readable == status # "NONE" /\ ~ deleted

(* GET /exams/:id/subjects/:subjectId/marks, by an Admin or the teacher of *)
(* the paper: the active students of the class, with a mark or without.    *)
GetMarks(u, p) ==
  {<<s, mark[<<p, s>>], verdict[<<p, s>>]>> :
     s \in {s \in Classmates : /\ Readable /\ p \in Live
                               /\ u \in Admins \/ terms[p].teacher = u}}

ShownPapers(s) ==
  {[paper |-> p, mark |-> mark[<<p, s>>], verdict |-> verdict[<<p, s>>]] :
     p \in {p \in Live : mark[<<p, s>>] # NoRow}}

(* GET /exams/:id/results: a row for each summary.                         *)
GetResults ==
  {[student |-> s, results |-> ShownPapers(s), overall |-> summary[s]] :
     s \in {s \in Students : Readable /\ status = "PUBLISHED" /\ summary[s] # "none"}}

(* GET /exams/:id/results/:studentId: with or without a summary.           *)
GetStudentResult(s) ==
  {r \in {[student |-> s, results |-> ShownPapers(s), overall |-> summary[s]]} :
     Readable /\ status = "PUBLISHED"}

(* GET /guardian/children/:studentId/results: the summary, of an exam that *)
(* may be deleted.                                                         *)
(* A bug to detect: the summaries of an exam no longer published.          *)
ChildResultsOfAll(s) == {summary[s]} \ {"none"}
ChildResults(s) == {o \in {summary[s]} \ {"none"} : status = "PUBLISHED"}

(* The school, the student and the guardian are told the same result of an *)
(* exam: a result is there for one when it is there for the others, and it *)
(* is a failure when a paper shown with it is failed.  The rows of papers  *)
(* and the summary are written apart, four handlers read them, and each    *)
(* has its own conditions (exams/controller.ts:1314, 1418, 1102 and        *)
(* guardian-portal/controller.ts:245).                                     *)
ResultsAgree ==
  Quiet =>
    \A s \in Students :
      LET told == {r.overall : r \in {r \in GetResults : r.student = s}} IN
        /\ ChildResults(s) = told
        /\ told = {r.overall : r \in GetStudentResult(s)} \ {"none"}
        /\ \A r \in GetStudentResult(s) :
             /\ r.overall = "none" <=> r.results = {}
             /\ r.overall = "FAIL" <=> \E x \in r.results : x.verdict.pass = "fail"
             /\ s \in Classmates => \A x \in r.results, u \in Admins :
                  <<s, x.mark, x.verdict>> \in GetMarks(u, x.paper)
=============================================================================
