------------------------------ MODULE MCSchool ------------------------------
(***************************************************************************)
(* Instances of SchoolRecords, Assignments and AttendanceReports for TLC,  *)
(* four in one run: the office builds and takes apart the records and the  *)
(* timetable; or, without lessons, enrols students and moves them, of whom *)
(* one preview is kept; or the records stand and a teacher and the office  *)
(* work with assignments while a student joins the class and lessons are   *)
(* dropped; or the register of one student is kept, who moves between two  *)
(* classes of one lesson each and is deleted, while lessons are dropped.   *)
(***************************************************************************)
EXTENDS Assignments, AttendanceReports, TLC

VARIABLE scope

OneBatch == [c \in Classes |-> CHOOSE b \in Batches : TRUE]
TwoSessions == [c \in Classes |-> c]
OneShape == [c \in Classes |-> "1A"]
OfficeAndTeacher == [c \in Markers |->
  IF c = CHOOSE x \in Markers : TRUE THEN Office ELSE CHOOSE t \in Teachers : TRUE]
NobodysTeacher == [t \in Teachers |-> Nowhere]
EveryDayTheSame == [d \in Dates |-> CHOOSE w \in Days : TRUE]

(* All rows are there but one student, whose classmates have a lesson.     *)
Newcomer == CHOOSE s \in Students : TRUE
Standing ==
  /\ state = [x \in Rows |-> IF x = Newcomer THEN "none" ELSE "live"]
  /\ LET k == CHOOSE k \in Slot : TRUE IN
       /\ slots = {k}
       /\ classOf = [s \in Students |-> IF s = Newcomer THEN Nowhere ELSE k.class]
  /\ snapshots = {}
  /\ teaches = Teachers
  /\ periods = [n \in Numbers |-> CHOOSE t \in Spans : TRUE]
  /\ req = [a \in Admins |-> Idle]

Enrolled ==
  /\ state = [x \in Rows |-> "live"]
  /\ slots = {k \in Slot : k.subject = CHOOSE x \in Subjects : TRUE}
  /\ \E c \in Classes : classOf = [s \in Students |-> c]
  /\ snapshots = {}
  /\ teaches = Teachers
  /\ periods = [n \in Numbers |-> CHOOSE t \in Spans : TRUE]
  /\ req = [a \in Admins |-> Idle]

MCInit ==
  /\ InitWork
  /\ InitRegister
  /\ \/ scope \in {"records", "moves"} /\ Init
     \/ scope = "work" /\ Standing
     \/ scope = "reports" /\ Enrolled

ClassOfWork == (CHOOSE k \in Slot : TRUE).class
Bystanders ==
  \E a \in Admins :
    \/ state[Newcomer] = "none" /\ StartSeat(a, Newcomer, ClassOfWork)
    \/ Seat(a)
    \/ \E l \in slots : DeleteTimeslot(a, l)

(* The first marker's list may repeat a student, the marks of which then   *)
(* differ, or says the same of two; the second's is of one and COMPLETED.  *)
Telling(c, list) ==
  IF c = CHOOSE x \in Markers : TRUE
    THEN \A i, j \in DOMAIN list :
           i # j => (list[i].student = list[j].student <=> list[i].mark # list[j].mark)
    ELSE DOMAIN list = {1} /\ list[1].mark = "COMPLETED"
ShortLists == \A c \in Markers : work'[c].op = "mark" => Telling(c, work'[c].entries)

Movements ==
  \E a \in Admins :
    \/ \E c \in Classes : StartSeat(a, Newcomer, c)
    \/ Seat(a)
    \/ StartDelete(a, {Newcomer})
    \/ PickRow(a, Newcomer)
    \/ DeleteRow(a)
    \/ \E l \in slots : DeleteTimeslot(a, l)

(* Present counts as Late does.                                            *)
Noted == {"Late", "Absent", "Excused"}
RegisterOfOne ==
  \/ \E l \in slots, d \in Dates, status \in Noted :
       RecordClass(l, d, [s \in {Newcomer} |-> status])
  \/ \E k \in Records, status \in Noted : CorrectAttendance(k, status)
  \/ \E day \in Dates : AbsenceStreakAlert(day)

RecordsAndTable == \E a \in Admins : RecordStep(a) \/ TableStep(a)
RecordsAndMoves ==
  /\ \E a \in Admins : RecordStep(a) \/ MoveStep(a)
  /\ \A x \in Subjects \cup Teachers : state'[x] = "none"
  /\ Cardinality(snapshots') <= 1

MCNext ==
  /\ UNCHANGED scope
  /\ \/ scope = "records" /\ RecordsAndTable /\ UNCHANGED <<workVars, registerVars>>
     \/ scope = "moves" /\ RecordsAndMoves /\ UNCHANGED <<workVars, registerVars>>
     \/ scope = "work" /\ UNCHANGED registerVars
          /\ ((WorkNext /\ ShortLists) \/ (Bystanders /\ UNCHANGED workVars))
     \/ scope = "reports" /\ UNCHANGED workVars
          /\ (RegisterOfOne \/ (Movements /\ UNCHANGED registerVars))

MCSpec == MCInit /\ [][MCNext]_<<allVars, registerVars, scope>>
=============================================================================
