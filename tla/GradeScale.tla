----------------------------- MODULE GradeScale -----------------------------
(***************************************************************************)
(* Grades: the default scale and the lookup of utils/gradeComputation.ts,  *)
(* which modules/exams/controller.ts has a copy of.  A percentage is the   *)
(* fraction score/total, compared exactly.                                 *)
(***************************************************************************)
EXTENDS Integers, Sequences

Boundary(grade, min, max) == [grade |-> grade, min |-> min, max |-> max]

DefaultBoundaries ==
  << Boundary("A+", 90, 100), Boundary("A", 80, 89), Boundary("B+", 70, 79),
     Boundary("B", 60, 69), Boundary("C+", 50, 59), Boundary("C", 40, 49),
     Boundary("D", 30, 39), Boundary("F", 0, 29) >>

Covers(b, score, total) ==
  /\ b.min * total <= 100 * score
  /\ 100 * score <= b.max * total

(* Array.find: the first boundary that covers the percentage.              *)
LookupGrade(score, total, boundaries) ==
  LET First(i) == /\ Covers(boundaries[i], score, total)
                  /\ \A j \in 1..(i - 1) : ~ Covers(boundaries[j], score, total)
  IN IF \E i \in DOMAIN boundaries : First(i)
     THEN boundaries[CHOOSE i \in DOMAIN boundaries : First(i)].grade
     ELSE "N/A"
=============================================================================
