-------------------------- MODULE AttendanceReports --------------------------
(***************************************************************************)
(* The attendance register of a school and what is read from it: the       *)
(* summaries, the monthly sheet, the day's lessons and their absentees,    *)
(* the ranking, the streaks and the alert of the hourly job, and what a    *)
(* guardian is shown.  It stands on the records of SchoolRecords: students *)
(* move and are deleted, lessons and periods go, and the register stays.   *)
(*                                                                         *)
(* A lesson stands for the id of its timeslot, so one that was deleted and *)
(* made again is taken for the first.  Who may record what and when is in  *)
(* LeaveLifecycle: here the office records, which may do so for any date.  *)
(* Percentages, pages and the order of a ranking are left out, and with    *)
(* them the names that order the rows of a report.                         *)
(***************************************************************************)
EXTENDS SchoolRecords, Sequences

CONSTANTS
  Dates,          \* the days of a month, as numbers
  WeekdayOf,      \* timeslots.day_of_week of a date
  AlertAt         \* how many absences an alert takes

ASSUME DatesAssumption == Dates \subseteq Nat \ {0} /\ WeekdayOf \in [Dates -> Days]
ASSUME AlertAssumption == AlertAt \in Nat \ {0}

VARIABLES
  register,       \* attendance_records: the status, by student, lesson and date
  alert           \* the last run of the absence alert: its day, and for whom

registerVars == <<register, alert>>
reportVars == <<vars, registerVars>>

Statuses == {"Present", "Absent", "Late", "Excused"}
Keys == [student : Students, lesson : Slot, date : Dates]
Records == DOMAIN register
RecordsOf(s, D) == {k \in Records : k.student = s /\ k.date \in D}
CountOf(K, statuses) == Cardinality({k \in K : register[k] \in statuses})
LiveStudents == {s \in Students : Live(s)}

InitRegister ==
  /\ register = <<>>
  /\ alert = [day |-> 0, students |-> {}]

(* One transaction writes an entry for each student named, of this class   *)
(* or not, over the one that is there.                                     *)
RecordClass(l, d, entries) ==
  /\ l \in slots
  /\ \A s \in DOMAIN entries : state[s] # "none"
  /\ LET K == {[student |-> s, lesson |-> l, date |-> d] : s \in DOMAIN entries} IN
       register' = [k \in Records \cup K |-> IF k \in K THEN entries[k.student] ELSE register[k]]
  /\ UNCHANGED <<vars, alert>>

(* Also for a lesson that was deleted since.                               *)
CorrectAttendance(k, status) ==
  /\ register[k] # status
  /\ register' = [register EXCEPT ![k] = status]
  /\ UNCHANGED <<vars, alert>>

(***************************************************************************)
(* Reports on students and classes                                         *)
(***************************************************************************)
(* A refusal is no answer.                                                 *)
NoAnswer == [answered |-> FALSE]

(* The rate of the history takes a Late lesson for missed.                 *)
StudentHistory(s, D) ==
  IF ~Live(s) THEN NoAnswer
  ELSE [answered |-> TRUE, total |-> Cardinality(RecordsOf(s, D)),
        attended |-> CountOf(RecordsOf(s, D), {"Present"})]

(* A bug to detect: joined with the lessons that are still held.           *)
StudentSummaryOfLessons(s, D) ==
  IF ~Live(s) THEN NoAnswer
  ELSE LET K == {k \in RecordsOf(s, D) : k.lesson \in slots} IN
    [answered |-> TRUE, total |-> Cardinality(K),
     counts |-> [x \in Statuses |-> CountOf(K, {x})],
     attended |-> CountOf(K, {"Present", "Late"})]
StudentSummary(s, D) ==
  IF ~Live(s) THEN NoAnswer
  ELSE LET K == RecordsOf(s, D) IN
    [answered |-> TRUE, total |-> Cardinality(K),
     counts |-> [x \in Statuses |-> CountOf(K, {x})],
     attended |-> CountOf(K, {"Present", "Late"})]

(* The class as it is now, deleted students' records included.  Of the     *)
(* callers a teacher needs a lesson in the class, for a sheet also one in  *)
(* the subject.                                                            *)
MaySee(by, c, subjects) ==
  by \in Teachers => \E l \in slots : l.class = c /\ l.teacher = by /\ l.subject \in subjects
ClassSummary(by, c, D) ==
  IF ~Live(c) \/ ~MaySee(by, c, Subjects) THEN NoAnswer
  ELSE LET K == UNION {RecordsOf(s, D) : s \in {s \in Students : classOf[s] = c}} IN
    [answered |-> TRUE, students |-> Cardinality(LiveStudentsOf(c)),
     total |-> Cardinality(K), attended |-> CountOf(K, {"Present", "Late"})]

Toppers(c, D) ==
  IF ~Live(c) THEN NoAnswer
  ELSE [answered |-> TRUE, rows |-> [s \in LiveStudentsOf(c) |->
         [total |-> Cardinality(RecordsOf(s, D)),
          attended |-> CountOf(RecordsOf(s, D), {"Present", "Late"})]]]

(* The records of the subject, whichever class the lesson was of.          *)
SheetOf(s, subject, D) == [d \in D |->
  {<<k.lesson, register[k]>> : k \in {k \in RecordsOf(s, {d}) : k.lesson.subject = subject}}]
MonthlySheet(by, c, subject, D) ==
  IF ~Live(c) \/ ~Live(subject) \/ ~MaySee(by, c, {subject}) THEN NoAnswer
  ELSE [answered |-> TRUE, rows |-> [s \in LiveStudentsOf(c) |-> SheetOf(s, subject, D)]]

(***************************************************************************)
(* Reports on lessons                                                      *)
(***************************************************************************)
LessonRecords(l, d) == {k \in Records : k.lesson = l /\ k.date = d}

DailySummary(c, d) ==
  IF ~Live(c) THEN NoAnswer
  ELSE [answered |-> TRUE, lessons |->
         [l \in {l \in slots : l.class = c /\ l.day = WeekdayOf[d]} |->
           [marked |-> LessonRecords(l, d) # {}, students |-> Cardinality(LiveStudentsOf(c)),
            absent |-> CountOf(LessonRecords(l, d), {"Absent"})]]]

(* A bug to detect: absentees looked for among those in the class now.     *)
AbsenteesOfClass(l, d) ==
  {s \in LiveStudentsOf(l.class) : \E k \in LessonRecords(l, d) : k.student = s /\ register[k] = "Absent"}
Absentees(l, d) ==
  {k.student : k \in {k \in LessonRecords(l, d) : register[k] = "Absent" /\ Live(k.student)}}

(* The latest first; what was recorded for one date comes in any order.    *)
Orders(K) == {q \in [1..Cardinality(K) -> K] :
  \A i, j \in DOMAIN q : i < j => q[i] # q[j] /\ q[i].date >= q[j].date}

(* getAttendanceStreaks and the numbers beside the absentees: the leading  *)
(* Absents in the subject, which anything else ends.                       *)
LeadingAbsents(q) ==
  Cardinality({i \in DOMAIN q : \A j \in 1..i : register[q[j]] = "Absent"})
SubjectRecords(s, l) == {k \in RecordsOf(s, Dates) : k.lesson.subject = l.subject}
Streaks(l) == [s \in LiveStudentsOf(l.class) |-> {LeadingAbsents(q) : q \in Orders(SubjectRecords(s, l))}]

(***************************************************************************)
(* The alert                                                               *)
(***************************************************************************)
(* calculateConsecutiveAbsences walks back, passes over Excused and stops  *)
(* at the first lesson attended.                                           *)
ConsecutiveAbsences(q) ==
  LET walk[i \in 1..Len(q) + 1] ==
        IF i > Len(q) \/ register[q[i]] \in {"Present", "Late"} THEN 0
        ELSE walk[i + 1] + (IF register[q[i]] = "Absent" THEN 1 ELSE 0)
  IN walk[1]
StreaksByTheRule(s) == {ConsecutiveAbsences(q) : q \in Orders(RecordsOf(s, Dates))}

(* The job's statement: rows numbered, the first one attended, and the     *)
(* Absents in front of it.                                                 *)
(* A bug to detect: a streak that a Late lesson does not end.              *)
StopsAtPresent(status) == status = "Present"
StopsWindow(status) == status \in {"Present", "Late"}
StreakLength(q) ==
  LET stops == {i \in DOMAIN q : StopsWindow(register[q[i]])} IN
    Cardinality({i \in DOMAIN q : register[q[i]] = "Absent" /\ \A j \in stops : i < j})

(* A run in the tenant's ninth hour tells the guardians of each.           *)
StreaksOf(s, day) == {StreakLength(q) : q \in Orders(RecordsOf(s, {d \in Dates : d <= day}))}
AbsenceStreakAlert(day) ==
  /\ LET streaks == [s \in LiveStudents |-> StreaksOf(s, day)] IN
       \E S \in SUBSET LiveStudents :
         /\ \A s \in LiveStudents : \E n \in streaks[s] : s \in S <=> n >= AlertAt
         /\ alert' = [day |-> day, students |-> S]
  /\ UNCHANGED <<vars, register>>

(***************************************************************************)
(* The guardian's view                                                     *)
(***************************************************************************)
(* Joined with the school periods: a lesson whose period is gone is gone.  *)
ChildAttendance(s, D) == {k \in RecordsOf(s, D) : k.lesson.number \in Configured}
ChildTimetable(s) == {l \in slots : l.class = classOf[s] /\ l.number \in Configured}

Registers == UNION {[S -> Statuses] : S \in (SUBSET Students) \ {{}}}

RegisterStep ==
  \/ \E l \in Slot, d \in Dates, e \in Registers : RecordClass(l, d, e)
  \/ \E k \in Records, status \in Statuses : CorrectAttendance(k, status)
  \/ \E day \in Dates : AbsenceStreakAlert(day)

ReportSpec ==
  Init /\ InitRegister /\ [][(Next /\ UNCHANGED registerVars) \/ RegisterStep]_reportVars

(***************************************************************************)
(* Properties                                                              *)
(***************************************************************************)
(* The register and the alert are within their types.                      *)
RegisterTypeOK ==
  /\ Records \subseteq Keys /\ \A k \in Records : register[k] \in Statuses
  /\ alert \in [day : Dates \cup {0}, students : SUBSET Students]

(* What the history, the summary, the ranking and the sheets of all the    *)
(* subjects say of a student's month is the same, whichever classes the    *)
(* student was in and whichever lessons were dropped since                 *)
(* (attendance/controller.ts:213, 616, 847, 1145).                         *)
SheetsOf(s, D) == {k \in RecordsOf(s, D) : Live(k.lesson.subject)}
ReportsAgree(s, D) ==
  LET c == classOf[s] IN
    /\ Toppers(c, D).rows[s].total = StudentSummary(s, D).total
    /\ StudentHistory(s, D).total = StudentSummary(s, D).total
    /\ Toppers(c, D).rows[s].attended = StudentSummary(s, D).attended
    /\ ClassSummary(Nothing, c, D).total >= StudentSummary(s, D).total
    /\ UNION {MonthlySheet(Nothing, c, j, D).rows[s][d] : d \in D, j \in {j \in Subjects : Live(j)}}
         = {<<k.lesson, register[k]>> : k \in SheetsOf(s, D)}
MonthsAgree ==
  \A s \in {k.student : k \in Records} :
    Live(s) /\ Live(classOf[s]) => ReportsAgree(s, Dates)

(* Each absence the day's summary counts of a lesson has its student among *)
(* the absentees, students who moved since included, deleted ones apart.   *)
AbsentAreNamed ==
  \A d \in {k.date : k \in Records}, c \in Classes :
    LET day == DailySummary(c, d) IN
      day.answered => \A l \in DOMAIN day.lessons :
        day.lessons[l].absent = Cardinality(Absentees(l, d))
          + Cardinality({k \in LessonRecords(l, d) : register[k] = "Absent" /\ ~Live(k.student)})

(* Whom the alert names missed AlertAt lessons since the last day of which *)
(* one was attended, that day's own lessons in either order; and whoever   *)
(* missed as many after that day is named.                                 *)
LastAttended(s, day) ==
  LET D == {k.date : k \in {k \in RecordsOf(s, 1..day) : register[k] \in {"Present", "Late"}}} IN
    IF D = {} THEN 0 ELSE CHOOSE d \in D : \A e \in D : e <= d
Missed(s, D) == CountOf(RecordsOf(s, D), {"Absent"})
AlertsFollowTheRule ==
  [][alert' # alert => \A s \in LiveStudents :
       LET day == alert'.day
           last == LastAttended(s, day) IN
         /\ s \in alert'.students => Missed(s, last..day) >= AlertAt
         /\ Missed(s, last + 1..day) >= AlertAt => s \in alert'.students]_reportVars

(* The job's statement and calculateConsecutiveAbsences are one count.     *)
JobCountsAsTheRule ==
  \A s \in Students :
    /\ \A q \in Orders(RecordsOf(s, Dates)) : StreakLength(q) = ConsecutiveAbsences(q)
    /\ \A d \in Dates : (\A e \in Dates : e <= d) => StreaksOf(s, d) = StreaksByTheRule(s)

(* A guardian is shown the child's timetable, and every lesson of the      *)
(* register that is still held.                                            *)
GuardiansSeeTheLessons ==
  \A s \in Students :
    /\ \A k \in RecordsOf(s, Dates) : k.lesson \in slots => k \in ChildAttendance(s, Dates)
    /\ ChildTimetable(s) = {l \in slots : l.class = classOf[s]}

(* What the documents promise and the code does not keep.                  *)

(* Three consecutive days were missed by whom the alert names.             *)
AlertedMissedDays ==
  [][alert' # alert => \A s \in alert'.students :
       Cardinality({k.date : k \in {k \in RecordsOf(s, 1..alert'.day) : register[k] = "Absent"}})
         >= AlertAt]_reportVars

(* An absentee's streak counts the absence it stands beside.               *)
AbsenteesHaveStreaks ==
  \A l \in slots, d \in Dates : \A s \in Absentees(l, d) \cap LiveStudentsOf(l.class) :
    0 \notin Streaks(l)[s]
=============================================================================
