------------------------------ MODULE MCLeave ------------------------------
(***************************************************************************)
(* Instances of LeaveLifecycle for TLC.  One student of one class with one *)
(* timeslot; an Admin, the class teacher (who also teaches the timeslot)   *)
(* and a guardian of the student.                                          *)
(***************************************************************************)
EXTENDS LeaveLifecycle

CONSTANTS admin, teacher, guardian, s1, c1, p1, l1, l2

MCRole == [u \in Users |-> CASE u = admin   -> "Admin"
                             [] u = teacher -> "Teacher"
                             [] OTHER       -> "Guardian"]
MCTeacherClass == [u \in Users |-> IF u = teacher THEN c1 ELSE NoClass]
MCWard == [u \in Users |-> IF u = guardian THEN {s1} ELSE {}]
MCMaySubmit == [u \in Users |-> TRUE]
MCClassOf == [s \in Students |-> c1]
MCSlotClass == [p \in Slots |-> c1]
MCSlotTeacher == [p \in Slots |-> IF teacher \in Users THEN teacher ELSE admin]
=============================================================================
