------------------------ MODULE SchoolRecords_proofs ------------------------
(***************************************************************************)
(* Proofs about SchoolRecords, for any rows, periods and lessons, and      *)
(* about what stands on the records: Assignments, for any markers and      *)
(* marks, and AttendanceReports, for any register.                         *)
(*                                                                         *)
(* Types and one lesson at a time hold for any number of Admins; what a    *)
(* request has looked at stays so while one Admin is at work, so that the  *)
(* references resolve then and periods run forward.  A marker's answer is  *)
(* true because what was written stays written (WorkInv).  The reports     *)
(* agree because they count one finite register (ReportInv), each in its   *)
(* own way: those proofs are about the counting.                           *)
(***************************************************************************)
EXTENDS Assignments, AttendanceReports, FiniteSetTheorems, WellFoundedInduction, TLAPS

(* What a request in flight carries.                                       *)
LEMMA RequestFields ==
  ASSUME TypeOK, NEW a \in Admins
  PROVE  /\ req[a] \in Requests
         /\ req[a].op = "class" => req[a].class \in Classes
         /\ req[a].op = "seat" =>
              /\ req[a].student \in Students /\ req[a].class \in Classes \cup {Nowhere}
              /\ req[a].new \in BOOLEAN
         /\ req[a].op = "promote" =>
              req[a].from \in Classes /\ req[a].to \in Classes \cup {Nowhere}
         /\ req[a].op = "transition" => req[a].placing \in Placings
         /\ req[a].op = "delete" =>
              /\ req[a] \in [op : {"delete"}, rest : SUBSET Rows, now : Rows \cup {Nothing}]
              /\ req[a].rest \in SUBSET Rows /\ req[a].now \in Rows \cup {Nothing}
         /\ req[a].op = "period" =>
              req[a].number \in Numbers /\ req[a].side \in {1, 2} /\ req[a].time \in Times
         /\ req[a].op = "dropPeriod" => req[a].number \in Numbers
         /\ req[a].op = "slot" => req[a].slot \in Slot
  BY DEF TypeOK, Requests, Idle

LEMMA IdleIsRequest == Idle \in Requests
  BY DEF Requests, Idle

(* A deletion in flight takes one row after the other.                     *)
LEMMA DeletionFields ==
  ASSUME TypeOK, NEW a \in Admins, req[a].op = "delete", NEW x \in Rows
  PROVE  /\ [req EXCEPT ![a].rest = @ \ {x}] \in [Admins -> Requests]
         /\ [req EXCEPT ![a].rest = @ \ {x}, ![a].now = x] \in [Admins -> Requests]
         /\ [req EXCEPT ![a].now = Nothing] \in [Admins -> Requests]
<1> DEFINE D == [op : {"delete"}, rest : SUBSET Rows, now : Rows \cup {Nothing}]
<1>1. req[a] \in D /\ req \in [Admins -> Requests]
  BY RequestFields DEF TypeOK
<1>2. D \subseteq Requests
  BY DEF Requests
<1>3. /\ [req[a] EXCEPT !.rest = @ \ {x}] \in D
      /\ [[req[a] EXCEPT !.rest = @ \ {x}] EXCEPT !.now = x] \in D
      /\ [req[a] EXCEPT !.now = Nothing] \in D
  BY <1>1
<1> HIDE DEF D
<1> QED
  BY <1>1, <1>2, <1>3

-----------------------------------------------------------------------------
(* Types.                                                                  *)
LEMMA TypeInit == Init => TypeOK
<1> SUFFICES ASSUME Init PROVE TypeOK
  OBVIOUS
<1>1. PICK t \in Spans : periods = [n \in Numbers |-> t]
  BY DEF Init
<1>2. Configured \subseteq Numbers /\ \A n \in Configured : periods[n] \in Times \X Times
  BY <1>1 DEF Configured, Spans
<1> QED
  BY <1>2, IdleIsRequest DEF Init, TypeOK

LEMMA TypeRecords ==
  ASSUME TypeOK, NEW a \in Admins, RecordStep(a)
  PROVE  TypeOK'
<1> USE IdleIsRequest DEF schoolVars, recordVars, tableVars, Configured, Idle, Rows
<1>1. CASE EndRequest(a)
  BY <1>1 DEF EndRequest, End, TypeOK
<1>2. CASE \E x \in Rows : CreateFree(a, x)
  BY <1>2 DEF CreateFree, TypeOK
<1>3. CASE \E x \in Rows : PassRow(a, x) \/ PickRow(a, x)
  <2>1. PICK x \in Rows : PassRow(a, x) \/ PickRow(a, x)
    BY <1>3
  <2>2. req' \in [Admins -> Requests]
    <3>1. req[a].op = "delete"
      BY <2>1 DEF PassRow, PickRow
    <3>2. CASE PassRow(a, x)
      BY <3>1, <3>2, DeletionFields DEF PassRow
    <3>3. CASE PickRow(a, x)
      BY <3>1, <3>3, DeletionFields DEF PickRow
    <3> QED
      BY <2>1, <3>2, <3>3
  <2> QED
    BY <2>1, <2>2 DEF PassRow, PickRow, TypeOK
<1>4. CASE \E X \in Selections : StartDelete(a, X)
  <2>1. PICK X \in Selections : StartDelete(a, X)
    BY <1>4
  <2>2. X \subseteq Rows
    BY DEF Selections, Rows
  <2>3. [op |-> "delete", rest |-> X, now |-> Nothing] \in Requests
    BY <2>2 DEF Requests
  <2> QED
    BY <2>1, <2>3 DEF StartDelete, Begin, TypeOK
<1>5. CASE DeleteRow(a)
  <2>1. req' \in [Admins -> Requests] /\ req[a].now \in Rows
    BY <1>5, DeletionFields, RequestFields DEF DeleteRow
  <2> QED
    BY <1>5, <2>1 DEF DeleteRow, TypeOK
<1>6. CASE \E c \in Classes : StartCreateClass(a, c)
  BY <1>6 DEF StartCreateClass, Begin, TypeOK, Requests
<1>7. CASE CreateClass(a)
  BY <1>7, RequestFields DEF CreateClass, End, TypeOK
<1>8. CASE \E s \in Students, c \in Classes \cup {Nowhere} : StartSeat(a, s, c)
  BY <1>8 DEF StartSeat, Begin, TypeOK, Requests
<1>9. CASE Seat(a)
  BY <1>9, RequestFields DEF Seat, End, TypeOK
<1>10. CASE \E t \in Teachers, is \in BOOLEAN : UpdateTeacherRole(a, t, is)
  BY <1>10 DEF UpdateTeacherRole, TypeOK
<1>11. CASE \E s \in Students : ImportStudent(a, s)
  BY <1>11 DEF ImportStudent, TypeOK
<1> QED
  BY <1>1, <1>2, <1>3, <1>4, <1>5, <1>6, <1>7, <1>8, <1>9, <1>10, <1>11 DEF RecordStep

LEMMA PlacingFields ==
  ASSUME NEW m \in Placings
  PROVE  DOMAIN m \subseteq Students /\ \A s \in DOMAIN m : m[s] \in Classes
  BY DEF Placings

(* A step of promoteClass or of a promotion: which rows live, the lessons  *)
(* and the periods stay.                                                   *)
LEMMA MovesOnly ==
  ASSUME NEW a \in Admins, MoveStep(a)
  PROVE  UNCHANGED <<state, teaches, tableVars>>
  BY DEF MoveStep, StartPromote, Promote, PreviewTransition, StartTransition, Transition,
         RollbackPromotion, Begin, schoolVars, recordVars, tableVars

LEMMA TypeMoves ==
  ASSUME TypeOK, NEW a \in Admins, MoveStep(a)
  PROVE  TypeOK'
<1> USE IdleIsRequest DEF schoolVars, recordVars, tableVars, Configured, Idle
<1>1. CASE \E c \in Classes, to \in Classes \cup {Nowhere} : StartPromote(a, c, to)
  BY <1>1 DEF StartPromote, Begin, TypeOK, Requests
<1>2. ASSUME NEW some \in SUBSET Students, Promote(a, some)
      PROVE  TypeOK'
  <2>1. req[a].to \in Classes \cup {Nowhere}
    BY <1>2, RequestFields DEF Promote
  <2>2. Placed([s \in some |-> req[a].to]) \in [Students -> Classes \cup {Nowhere}]
    BY <2>1 DEF Placed, TypeOK
  <2> QED
    BY <1>2, <2>2 DEF Promote, End, TypeOK
<1>3. ASSUME NEW from, NEW some \in SUBSET Students, PreviewTransition(a, from, some)
      PROVE  TypeOK'
  <2>1. [s \in some |-> classOf[s]] \in Placings
    BY <1>3 DEF PreviewTransition, Placings
  <2> QED
    BY <1>3, <2>1 DEF PreviewTransition, TypeOK
<1>4. CASE \E m \in Placings : StartTransition(a, m)
  BY <1>4 DEF StartTransition, Begin, TypeOK, Requests
<1>5. CASE Transition(a)
  <2>1. Placed(req[a].placing) \in [Students -> Classes \cup {Nowhere}]
    BY <1>5, RequestFields, PlacingFields DEF Transition, Placed, TypeOK
  <2> QED
    BY <1>5, <2>1 DEF Transition, End, TypeOK
<1>6. ASSUME NEW p \in snapshots, RollbackPromotion(a, p)
      PROVE  TypeOK'
  <2>1. Placed(p) \in [Students -> Classes \cup {Nowhere}]
    BY PlacingFields DEF Placed, TypeOK
  <2> QED
    BY <1>6, <2>1 DEF RollbackPromotion, TypeOK
<1> QED
  BY <1>1, <1>2, <1>3, <1>4, <1>5, <1>6 DEF MoveStep

LEMMA TypeTable ==
  ASSUME TypeOK, NEW a \in Admins, TableStep(a)
  PROVE  TypeOK'
<1> USE IdleIsRequest DEF schoolVars, recordVars, tableVars, Configured, Idle
<1>1. CASE \E n \in Numbers, t \in Spans : CreatePeriod(a, n, t)
  BY <1>1 DEF CreatePeriod, TypeOK, Spans
<1>2. CASE \E n \in Numbers, side \in {1, 2}, t \in Times : StartUpdatePeriod(a, n, side, t)
  BY <1>2 DEF StartUpdatePeriod, Begin, TypeOK, Requests
<1>3. CASE UpdatePeriod(a)
  <2> DEFINE n == req[a].number
  <2>1. n \in Numbers /\ req[a].side \in {1, 2} /\ req[a].time \in Times
    BY <1>3, RequestFields DEF UpdatePeriod
  <2>2. CASE n \in DOMAIN periods
    <3>1. periods' = [periods EXCEPT ![n][req[a].side] = req[a].time]
      BY <1>3, <2>2 DEF UpdatePeriod
    <3>2. periods[n] \in Times \X Times
      BY <2>2 DEF TypeOK
    <3>3. [periods[n] EXCEPT ![req[a].side] = req[a].time] \in Times \X Times
      BY <2>1, <3>2
    <3>4. DOMAIN periods' = DOMAIN periods /\ \A m \in DOMAIN periods : periods'[m] \in Times \X Times
      BY <3>1, <3>3 DEF TypeOK
    <3> QED
      BY <1>3, <3>4 DEF UpdatePeriod, End, TypeOK
  <2>3. CASE n \notin DOMAIN periods
    BY <1>3, <2>3 DEF UpdatePeriod, End, TypeOK
  <2> QED
    BY <2>2, <2>3
<1>4. CASE \E n \in Numbers : StartDeletePeriod(a, n)
  BY <1>4 DEF StartDeletePeriod, Begin, TypeOK, Requests
<1>5. CASE DeletePeriod(a)
  BY <1>5 DEF DeletePeriod, End, TypeOK
<1>6. CASE \E k \in Slot : StartCreateTimeslot(a, k)
  BY <1>6 DEF StartCreateTimeslot, Begin, TypeOK, Requests
<1>7. CASE CreateTimeslot(a)
  BY <1>7, RequestFields DEF CreateTimeslot, End, TypeOK
<1>8. CASE \E l \in slots : DeleteTimeslot(a, l)
  BY <1>8 DEF DeleteTimeslot, TypeOK
<1>9. CASE \E from, to \in Sessions : CopyTimetable(a, from, to)
  <2>1. PICK from, to \in Sessions : CopyTimetable(a, from, to)
    BY <1>9
  <2>2. CopiesOf(from, to) \subseteq Slot
    BY DEF CopiesOf, TypeOK, Slot
  <2> QED
    BY <2>1, <2>2 DEF CopyTimetable, TypeOK
<1> QED
  BY <1>1, <1>2, <1>3, <1>4, <1>5, <1>6, <1>7, <1>8, <1>9 DEF TableStep

LEMMA TypeNext == TypeOK /\ [Next]_vars => TypeOK'
<1> SUFFICES ASSUME TypeOK, [Next]_vars PROVE TypeOK'
  OBVIOUS
<1>1. CASE \E a \in Admins : RecordStep(a)
  BY <1>1, TypeRecords
<1>2. CASE \E a \in Admins : TableStep(a)
  BY <1>2, TypeTable
<1>3. CASE \E a \in Admins : MoveStep(a)
  BY <1>3, TypeMoves
<1>4. CASE UNCHANGED vars
  BY <1>4 DEF vars, schoolVars, recordVars, tableVars, TypeOK, Configured
<1> QED
  BY <1>1, <1>2, <1>3, <1>4 DEF Next

(* Every column and every request stays within its type.                   *)
THEOREM TypeCorrect == Spec => []TypeOK
<1> QED
  BY TypeInit, TypeNext, PTL DEF Spec

-----------------------------------------------------------------------------
(* One lesson at a time.  A copied timetable stays single because a class  *)
(* has one counterpart at most in the session that is copied, which the    *)
(* index on batch, session and shape sees to.                              *)
OneOfAShape ==
  \A c, d \in Classes :
    Live(c) /\ Live(d) /\ <<BatchOf[c], SessionOf[c], ShapeOf[c]>> = <<BatchOf[d], SessionOf[d], ShapeOf[d]>>
      => c = d

TimetableInv == TypeOK /\ OneOfAShape /\ OneLessonAtATime

LEMMA TimetableInit == Init => TimetableInv
  BY TypeInit DEF Init, TimetableInv, OneOfAShape, OneLessonAtATime, Live, Rows

LEMMA ClassesApart ==
  \A c \in Classes : c \notin Batches \cup Subjects \cup Teachers \cup Students
<1> DEFINE T == <<Batches, Classes, Subjects, Teachers, Students>>
<1>1. T[2] \cap T[1] = {} /\ T[2] \cap T[3] = {} /\ T[2] \cap T[4] = {} /\ T[2] \cap T[5] = {}
  BY RowsAssumption
<1> QED
  BY <1>1

LEMMA StudentsApart ==
  \A s \in Students : s \notin Batches \cup Classes \cup Subjects \cup Teachers
<1> DEFINE T == <<Batches, Classes, Subjects, Teachers, Students>>
<1>1. T[5] \cap T[1] = {} /\ T[5] \cap T[2] = {} /\ T[5] \cap T[3] = {} /\ T[5] \cap T[4] = {}
  BY RowsAssumption
<1> QED
  BY <1>1

LEMMA ShapesRecords ==
  ASSUME TypeOK, OneOfAShape, NEW a \in Admins, RecordStep(a)
  PROVE  OneOfAShape'
<1> USE DEF schoolVars, recordVars, tableVars, Live, Rows
<1>1. CASE UNCHANGED state
  BY <1>1 DEF OneOfAShape
<1>2. CASE CreateClass(a)
  <2>1. req[a].class \in Classes /\ ShapeFree(req[a].class)
    BY <1>2, RequestFields DEF CreateClass
  <2>2. \A c \in Classes : Live(c)' => c = req[a].class \/ Live(c)
    BY <1>2 DEF CreateClass, TypeOK
  <2> QED
    BY <2>1, <2>2 DEF OneOfAShape, ShapeFree
<1>3. CASE DeleteRow(a)
  <2>1. \A c \in Classes : Live(c)' => Live(c)
    BY <1>3 DEF DeleteRow, TypeOK
  <2> QED
    BY <2>1 DEF OneOfAShape
<1>4. CASE \E x \in Rows : CreateFree(a, x)
  <2>1. \A c \in Classes : Live(c)' => Live(c)
    BY <1>4, ClassesApart DEF CreateFree, TypeOK
  <2> QED
    BY <2>1 DEF OneOfAShape
<1>5. CASE Seat(a) \/ \E s \in Students : ImportStudent(a, s)
  <2>1. \A c \in Classes : Live(c)' => Live(c)
    BY <1>5, ClassesApart, RequestFields DEF Seat, ImportStudent, TypeOK
  <2> QED
    BY <2>1 DEF OneOfAShape
<1> QED
  BY <1>1, <1>2, <1>3, <1>4, <1>5
     DEF RecordStep, EndRequest, PassRow, PickRow, StartDelete, StartCreateClass, StartSeat,
         UpdateTeacherRole, Begin

(* Two copies in one place are copies of lessons of one class.             *)
LEMMA CopiesAreSingle ==
  ASSUME TimetableInv, NEW a \in Admins, NEW from, NEW to, CopyTimetable(a, from, to)
  PROVE  OneLessonAtATime'
<1> DEFINE new == {k \in CopiesOf(from, to) : Matched(k, from) /\ PlaceFree(k)}
<1>1. slots' = slots \cup new
  BY DEF CopyTimetable
<1>2. ASSUME NEW k \in new, NEW l \in new, SamePlace(k, l)
      PROVE  k = l
  <2>1. PICK p \in slots : /\ SessionOf[p.class] = from /\ Live(p.class)
                          /\ Counterpart(p.class, k.class) /\ k = [p EXCEPT !.class = k.class]
    BY <1>2 DEF Matched
  <2>2. PICK q \in slots : /\ SessionOf[q.class] = from /\ Live(q.class)
                          /\ Counterpart(q.class, l.class) /\ l = [q EXCEPT !.class = l.class]
    BY <1>2 DEF Matched
  <2>3. p \in Slot /\ q \in Slot
    BY DEF TimetableInv, TypeOK
  <2>4. p.class = q.class
    BY <1>2, <2>1, <2>2, <2>3 DEF TimetableInv, OneOfAShape, Counterpart, SamePlace, Slot
  <2>5. p.day = k.day /\ p.number = k.number /\ q.day = l.day /\ q.number = l.number
    BY <2>1, <2>2, <2>3 DEF Slot
  <2>6. p = q
    BY <1>2, <2>4, <2>5 DEF TimetableInv, OneLessonAtATime, SamePlace
  <2> QED
    BY <1>2, <2>1, <2>2, <2>6 DEF SamePlace
<1>3. \A k \in new, l \in slots : ~SamePlace(k, l) /\ ~SamePlace(l, k)
  BY DEF PlaceFree, SamePlace
<1> HIDE DEF new
<1> QED
  BY <1>1, <1>2, <1>3 DEF TimetableInv, OneLessonAtATime, SamePlace

LEMMA LessonsTable ==
  ASSUME TimetableInv, NEW a \in Admins, TableStep(a)
  PROVE  OneOfAShape' /\ OneLessonAtATime'
<1> USE DEF schoolVars, recordVars, tableVars
<1>1. UNCHANGED state
  BY DEF TableStep, CreatePeriod, StartUpdatePeriod, UpdatePeriod, StartDeletePeriod,
         DeletePeriod, StartCreateTimeslot, CreateTimeslot, DeleteTimeslot, CopyTimetable, Begin
<1>2. OneOfAShape'
  BY <1>1 DEF TimetableInv, OneOfAShape, Live
<1>3. CASE UNCHANGED slots
  BY <1>2, <1>3 DEF TimetableInv, OneLessonAtATime, SamePlace
<1>4. CASE CreateTimeslot(a)
  BY <1>2, <1>4 DEF CreateTimeslot, PlaceFree, TimetableInv, OneLessonAtATime, SamePlace
<1>5. CASE \E l \in slots : DeleteTimeslot(a, l)
  BY <1>2, <1>5 DEF DeleteTimeslot, TimetableInv, OneLessonAtATime, SamePlace
<1>6. CASE \E from, to \in Sessions : CopyTimetable(a, from, to)
  BY <1>2, <1>6, CopiesAreSingle
<1> QED
  BY <1>2, <1>3, <1>4, <1>5, <1>6
     DEF TableStep, CreatePeriod, StartUpdatePeriod, UpdatePeriod, StartDeletePeriod,
         DeletePeriod, StartCreateTimeslot, Begin

LEMMA TimetableNext == TimetableInv /\ [Next]_vars => TimetableInv'
<1> SUFFICES ASSUME TimetableInv, [Next]_vars PROVE TimetableInv'
  OBVIOUS
<1>1. TypeOK'
  BY TypeNext DEF TimetableInv
<1>2. CASE \E a \in Admins : RecordStep(a)
  <2>1. PICK a \in Admins : RecordStep(a)
    BY <1>2
  <2>2. UNCHANGED slots
    BY <2>1 DEF RecordStep, EndRequest, CreateFree, PassRow, PickRow, StartDelete, DeleteRow,
         StartCreateClass, CreateClass, StartSeat, Seat, ImportStudent, UpdateTeacherRole,
         Begin, schoolVars, tableVars
  <2> QED
    BY <1>1, <2>1, <2>2, ShapesRecords DEF TimetableInv, OneLessonAtATime, SamePlace
<1>3. CASE \E a \in Admins : TableStep(a)
  BY <1>1, <1>3, LessonsTable DEF TimetableInv
<1>4. CASE UNCHANGED vars \/ \E a \in Admins : MoveStep(a)
  <2>1. UNCHANGED <<state, slots>>
    BY <1>4, MovesOnly DEF vars, schoolVars, recordVars, tableVars
  <2> QED
    BY <1>1, <2>1 DEF TimetableInv, OneOfAShape, OneLessonAtATime, SamePlace, Live
<1> QED
  BY <1>2, <1>3, <1>4 DEF Next

(* A class is never in two lessons at once, however many Admins create,    *)
(* delete and copy lessons and classes.                                    *)
THEOREM OneLessonAtATimeHolds == Spec => []OneLessonAtATime
<1>1. TimetableInv => OneLessonAtATime
  BY DEF TimetableInv
<1> QED
  BY <1>1, TimetableInit, TimetableNext, PTL DEF Spec

-----------------------------------------------------------------------------
(* References, while one Admin is at work: what the request in flight saw  *)
(* is still so when it writes.  A class that updateStudent writes back is  *)
(* there, or was gone already.                                             *)
Seen(a) ==
  /\ req[a].op = "class" => Live(BatchOf[req[a].class])
  /\ req[a].op = "seat" =>
       \/ req[a].class = Nowhere \/ Live(req[a].class)
       \/ Live(req[a].student) /\ req[a].class = classOf[req[a].student]
  /\ req[a].op = "promote" => req[a].to = Nowhere \/ Live(req[a].to)
  /\ req[a].op = "transition" =>
       \A s \in DOMAIN req[a].placing : Live(req[a].placing[s]) /\ state[s] # "none"
  /\ req[a].op = "slot" =>
       /\ Live(req[a].slot.subject) /\ Live(req[a].slot.teacher)
       /\ req[a].slot.number \in Configured
  /\ req[a].op = "dropPeriod" => \A l \in slots : l.number # req[a].number
  /\ req[a].op = "delete" /\ req[a].now # Nothing => ~InUse(req[a].now)

(* Only students who have been enrolled are in classes and snapshots.      *)
EnrolledAreSeated ==
  /\ \A s \in Students : state[s] = "none" => classOf[s] = Nowhere
  /\ \A p \in snapshots : \A s \in DOMAIN p : state[s] # "none"

(* Who is astray was so before.                                            *)
NobodyNew == \A s \in Students : Astray(s)' => Astray(s)

ReferenceInv(a) == TypeOK /\ ReferencesResolve /\ EnrolledAreSeated /\ Seen(a)

LEMMA ReferenceInit == ASSUME NEW a \in Admins PROVE Init => ReferenceInv(a)
<1> SUFFICES ASSUME Init PROVE ReferenceInv(a)
  OBVIOUS
<1>1. req[a] = Idle /\ slots = {} /\ \A x \in Rows : ~Live(x)
  BY DEF Init, Live
<1> QED
  BY <1>1, TypeInit DEF Init, ReferenceInv, ReferencesResolve, EnrolledAreSeated, Seen, Idle, Rows

(* A step that writes no row: what matters is the request it begins.       *)
LEMMA ReferenceBegin ==
  ASSUME NEW a \in Admins, ReferenceInv(a), TypeOK', UNCHANGED schoolVars, Seen(a)'
  PROVE  ReferenceInv(a)' /\ NobodyNew
  BY DEF ReferenceInv, ReferencesResolve, EnrolledAreSeated, NobodyNew, Astray, schoolVars,
         recordVars, tableVars, Live, Configured

(* A step that moves students, each to where nobody is astray, or to where *)
(* the student has been.                                                   *)
LEMMA ReferenceSeats ==
  ASSUME NEW a \in Admins, ReferenceInv(a), TypeOK', req'[a] = Idle,
         UNCHANGED <<state, snapshots, teaches, tableVars>>,
         \A s \in Students : \/ classOf'[s] = classOf[s]
                             \/ state[s] # "none" /\ (classOf'[s] = Nowhere \/ Live(classOf'[s]))
  PROVE  ReferenceInv(a)' /\ NobodyNew
<1> USE DEF tableVars, Live
<1>1. ReferencesResolve' /\ Seen(a)'
  BY DEF ReferenceInv, ReferencesResolve, Seen, Idle, Configured
<1>2. EnrolledAreSeated'
  BY DEF ReferenceInv, EnrolledAreSeated
<1>3. NobodyNew
  BY DEF NobodyNew, Astray
<1> QED
  BY <1>1, <1>2, <1>3 DEF ReferenceInv

(* A step by which rows come to live.                                      *)
LEMMA ReferenceGrows ==
  ASSUME NEW a \in Admins, ReferenceInv(a), TypeOK', NEW x \in Rows, state[x] = "none",
         state' = [state EXCEPT ![x] = "live"],
         x \in Classes => Live(BatchOf[x]),
         req'[a] = Idle, UNCHANGED <<snapshots, tableVars>>,
         \A s \in Students :
           \/ classOf'[s] = classOf[s]
           \/ s = x /\ (classOf'[s] = Nowhere \/ Live(classOf'[s]))
  PROVE  ReferenceInv(a)' /\ NobodyNew
<1> USE DEF tableVars, Live
<1>1. \A y \in Rows : Live(y)' <=> Live(y) \/ y = x
  BY DEF ReferenceInv, TypeOK
<1>2. ReferencesResolve'
  <2>1. \A l \in slots : Live(l.subject)' /\ Live(l.teacher)' /\ l.number \in Configured
    BY <1>1 DEF ReferenceInv, ReferencesResolve, TypeOK, Slot, Rows
  <2>2. \A c \in Classes : Live(c)' => Live(BatchOf[c])'
    BY <1>1, ClassesAssumption DEF ReferenceInv, ReferencesResolve, Rows
  <2> QED
    BY <2>1, <2>2 DEF ReferencesResolve, Configured
<1>3. EnrolledAreSeated'
  <2>1. \A s \in Students : state'[s] = "none" => s # x /\ state[s] = "none"
    BY DEF ReferenceInv, TypeOK, Rows
  <2>2. \A p \in snapshots : \A s \in DOMAIN p : s \in Rows
    BY PlacingFields DEF ReferenceInv, TypeOK, Rows
  <2>3. \A p \in snapshots : \A s \in DOMAIN p : state'[s] # "none"
    BY <2>2 DEF ReferenceInv, EnrolledAreSeated, TypeOK
  <2> QED
    BY <2>1, <2>3 DEF ReferenceInv, EnrolledAreSeated
<1>4. NobodyNew
  <2> SUFFICES ASSUME NEW s \in Students, Astray(s)' PROVE Astray(s)
    BY DEF NobodyNew
  <2> DEFINE c == classOf'[s]
  <2>1. /\ c \in Classes /\ s \in Rows /\ c \in Rows /\ c # Nowhere
        /\ state'[s] = "live" /\ state'[c] # "live"
    BY DEF Astray, TypeOK, Rows
  <2>2. state[c] # "live" /\ c # x
    BY <2>1 DEF ReferenceInv, TypeOK
  <2>3. c = classOf[s]
    BY <2>1, <2>2
  <2>4. s # x
    BY <2>1, <2>3 DEF ReferenceInv, EnrolledAreSeated
  <2> QED
    BY <2>1, <2>2, <2>3, <2>4 DEF Astray, ReferenceInv, TypeOK
<1> QED
  BY <1>2, <1>3, <1>4 DEF ReferenceInv, Seen, Idle

LEMMA ReferenceDelete ==
  ASSUME NEW a \in Admins, ReferenceInv(a), TypeOK', DeleteRow(a)
  PROVE  ReferenceInv(a)' /\ NobodyNew
<1> USE DEF tableVars, Live
<1> DEFINE x == req[a].now
<1>1. /\ x \in Rows /\ ~InUse(x) /\ UNCHANGED <<classOf, snapshots, teaches, tableVars>>
      /\ state' = [state EXCEPT ![x] = "deleted"]
      /\ req'[a].op = "delete" /\ req'[a].now = Nothing
  BY RequestFields DEF DeleteRow, ReferenceInv, Seen, TypeOK
<1> HIDE DEF x
<1>2. \A y \in Rows : Live(y)' <=> Live(y) /\ y # x
  BY <1>1 DEF ReferenceInv, TypeOK
<1>3. \A l \in slots : l.subject # x /\ l.teacher # x
  BY <1>1 DEF InUse
<1>4. \A c \in Classes : Live(c) => BatchOf[c] # x
  BY <1>1, ClassesAssumption DEF InUse
<1>5. ReferencesResolve'
  <2>1. \A l \in slots : Live(l.subject)' /\ Live(l.teacher)' /\ l.number \in Configured
    BY <1>2, <1>3 DEF ReferenceInv, ReferencesResolve, TypeOK, Slot, Rows
  <2>2. \A c \in Classes : Live(c)' => Live(BatchOf[c])'
    BY <1>2, <1>4, ClassesAssumption DEF ReferenceInv, ReferencesResolve, Rows
  <2> QED
    BY <1>1, <2>1, <2>2 DEF ReferencesResolve, Configured
<1>6. EnrolledAreSeated'
  BY <1>1 DEF ReferenceInv, EnrolledAreSeated, TypeOK, Rows
<1>7. NobodyNew
  <2> SUFFICES ASSUME NEW s \in Students, Astray(s)' PROVE Astray(s)
    BY DEF NobodyNew
  <2>1. Live(s) /\ classOf[s] \in Classes /\ ~Live(classOf[s])'
    BY <1>1, <1>2 DEF Astray, TypeOK, Rows
  <2>2. classOf[s] # x
    BY <1>1, <2>1 DEF InUse, LiveStudentsOf
  <2> QED
    BY <1>1, <1>2, <2>1, <2>2 DEF Astray, Rows
<1> QED
  BY <1>1, <1>5, <1>6, <1>7 DEF ReferenceInv, Seen

LEMMA ReferenceRecords ==
  ASSUME NEW a \in Admins, ReferenceInv(a), TypeOK', RecordStep(a)
  PROVE  ReferenceInv(a)' /\ NobodyNew
<1> USE DEF schoolVars, recordVars, tableVars, Live
<1>0. TypeOK
  BY DEF ReferenceInv
<1>1. CASE EndRequest(a)
  BY <1>0, <1>1, ReferenceBegin DEF EndRequest, End, Seen, Idle, TypeOK
<1>2. ASSUME NEW x \in Rows, CreateFree(a, x)
      PROVE  ReferenceInv(a)' /\ NobodyNew
  <2>1. x \notin Classes
    BY <1>2, ClassesApart DEF CreateFree
  <2> QED
    BY <1>2, <2>1, ReferenceGrows DEF CreateFree
<1>3. CASE \E x \in Rows : PassRow(a, x)
  <2>1. req'[a].op = "delete" /\ req'[a].now = Nothing /\ UNCHANGED schoolVars
    BY <1>0, <1>3, RequestFields DEF PassRow, TypeOK
  <2> QED
    BY <2>1, ReferenceBegin DEF Seen
<1>4. CASE \E x \in Rows : PickRow(a, x)
  <2>1. PICK x \in Rows : PickRow(a, x)
    BY <1>4
  <2>2. req'[a].op = "delete" /\ req'[a].now = x /\ UNCHANGED schoolVars
    BY <1>0, <2>1, RequestFields DEF PickRow, TypeOK
  <2>3. ~InUse(x)'
    BY <2>1, <2>2 DEF PickRow, InUse, LiveStudentsOf
  <2> QED
    BY <2>2, <2>3, ReferenceBegin DEF Seen
<1>5. CASE \E X \in Selections : StartDelete(a, X)
  <2>1. req'[a].op = "delete" /\ req'[a].now = Nothing /\ UNCHANGED schoolVars
    BY <1>0, <1>5 DEF StartDelete, Begin, TypeOK
  <2> QED
    BY <2>1, ReferenceBegin DEF Seen
<1>6. CASE DeleteRow(a)
  BY <1>6, ReferenceDelete
<1>7. CASE \E c \in Classes : StartCreateClass(a, c)
  BY <1>0, <1>7, ReferenceBegin DEF StartCreateClass, Begin, Seen, TypeOK
<1>8. CASE CreateClass(a)
  <2>1. req[a].class \in Classes /\ req[a].class \in Rows /\ Live(BatchOf[req[a].class])
    BY <1>0, <1>8, RequestFields DEF CreateClass, ReferenceInv, Seen, Rows
  <2>2. req'[a] = Idle
    BY <1>0, <1>8 DEF CreateClass, End, TypeOK
  <2> QED
    BY <1>8, <2>1, <2>2, ReferenceGrows DEF CreateClass
<1>9. ASSUME NEW s \in Students, NEW c \in Classes \cup {Nowhere}, StartSeat(a, s, c)
      PROVE  ReferenceInv(a)' /\ NobodyNew
  <2>1. /\ req'[a] = [op |-> "seat", student |-> s, class |-> c, new |-> state[s] = "none"]
        /\ UNCHANGED schoolVars
    BY <1>0, <1>9 DEF StartSeat, Begin, TypeOK
  <2>2. Seen(a)'
    BY <1>9, <2>1 DEF StartSeat, Seen
  <2> QED
    BY <2>1, <2>2, ReferenceBegin
<1>10. CASE Seat(a)
  <2> DEFINE s == req[a].student
             c == req[a].class
  <2>1. /\ s \in Students /\ s \in Rows /\ s \notin Classes /\ req'[a] = Idle
        /\ UNCHANGED <<snapshots, teaches, tableVars>>
        /\ classOf' = [classOf EXCEPT ![s] = c]
        /\ \/ state[s] = "none" /\ state' = [state EXCEPT ![s] = "live"]
           \/ state[s] # "none" /\ UNCHANGED state
    BY <1>0, <1>10, RequestFields, StudentsApart DEF Seat, End, TypeOK, Rows
  <2>2. c = Nowhere \/ Live(c) \/ (Live(s) /\ c = classOf[s])
    BY <1>10 DEF Seat, ReferenceInv, Seen
  <2> HIDE DEF s, c
  <2>3. \A t \in Students : classOf'[t] = IF t = s THEN c ELSE classOf[t]
    BY <1>0, <2>1 DEF TypeOK
  <2>4. CASE state[s] = "none" /\ state' = [state EXCEPT ![s] = "live"]
    <3>1. c = Nowhere \/ Live(c)
      BY <2>2, <2>4
    <3>2. \A t \in Students :
            \/ classOf'[t] = classOf[t]
            \/ t = s /\ (classOf'[t] = Nowhere \/ Live(classOf'[t]))
      BY <2>3, <3>1
    <3>3. s \in Classes => Live(BatchOf[s])
      BY <2>1
    <3> QED
      BY <2>1, <2>4, <3>2, <3>3, ReferenceGrows
  <2>5. CASE state[s] # "none" /\ UNCHANGED state
    BY <2>1, <2>2, <2>3, <2>5, ReferenceSeats
  <2> QED
    BY <2>1, <2>4, <2>5
<1>11. CASE \E t \in Teachers, is \in BOOLEAN : UpdateTeacherRole(a, t, is)
  BY <1>11, ReferenceSeats
     DEF UpdateTeacherRole, ReferenceInv, ReferencesResolve, EnrolledAreSeated, Seen,
         NobodyNew, Astray, Configured, Idle
<1>12. ASSUME NEW s \in Students, ImportStudent(a, s)
       PROVE  ReferenceInv(a)' /\ NobodyNew
  <2>1. s \in Rows /\ s \notin Classes
    BY StudentsApart DEF Rows
  <2> QED
    BY <1>12, <2>1, ReferenceGrows DEF ImportStudent
<1> QED
  BY <1>1, <1>2, <1>3, <1>4, <1>5, <1>6, <1>7, <1>8, <1>9, <1>10, <1>11, <1>12 DEF RecordStep

LEMMA ReferenceMoves ==
  ASSUME NEW a \in Admins, ReferenceInv(a), TypeOK', MoveStep(a)
  PROVE  ReferenceInv(a)' /\ (NobodyNew \/ \E p \in snapshots : RollbackPromotion(a, p))
<1> USE DEF schoolVars, recordVars, tableVars, Live
<1>0. TypeOK
  BY DEF ReferenceInv
<1>1. ASSUME NEW c \in Classes, NEW to \in Classes \cup {Nowhere}, StartPromote(a, c, to)
      PROVE  ReferenceInv(a)' /\ NobodyNew
  <2>1. req'[a] = [op |-> "promote", from |-> c, to |-> to] /\ UNCHANGED schoolVars
    BY <1>0, <1>1 DEF StartPromote, Begin, TypeOK
  <2>2. Seen(a)'
    BY <1>1, <2>1 DEF StartPromote, Seen
  <2> QED
    BY <2>1, <2>2, ReferenceBegin
<1>2. ASSUME NEW some \in SUBSET Students, Promote(a, some)
      PROVE  ReferenceInv(a)' /\ NobodyNew
  <2>1. /\ req'[a] = Idle
        /\ \A s \in Students : classOf'[s] = IF s \in some THEN req[a].to ELSE classOf[s]
    BY <1>0, <1>2 DEF Promote, Placed, End, TypeOK
  <2>2. req[a].to = Nowhere \/ Live(req[a].to)
    BY <1>2 DEF Promote, ReferenceInv, Seen
  <2>3. \A s \in some : state[s] # "none"
    BY <1>2 DEF Promote, LiveStudentsOf
  <2> QED
    BY <1>2, <2>1, <2>2, <2>3, ReferenceSeats DEF Promote
<1>3. ASSUME NEW from, NEW some \in SUBSET Students, PreviewTransition(a, from, some)
      PROVE  ReferenceInv(a)' /\ NobodyNew
  <2>1. /\ snapshots' = snapshots \cup {[s \in some |-> classOf[s]]}
        /\ req[a] = Idle /\ UNCHANGED <<state, classOf, teaches, tableVars, req>>
        /\ \A s \in some : state[s] # "none"
    BY <1>3 DEF PreviewTransition
  <2>2. EnrolledAreSeated'
    BY <2>1 DEF ReferenceInv, EnrolledAreSeated
  <2>3. NobodyNew
    BY <2>1 DEF NobodyNew, Astray
  <2> QED
    BY <2>1, <2>2, <2>3 DEF ReferenceInv, ReferencesResolve, Seen, Idle, Configured
<1>4. ASSUME NEW m \in Placings, StartTransition(a, m)
      PROVE  ReferenceInv(a)' /\ NobodyNew
  <2>1. req'[a] = [op |-> "transition", placing |-> m] /\ UNCHANGED schoolVars
    BY <1>0, <1>4 DEF StartTransition, Begin, TypeOK
  <2>2. \A s \in DOMAIN m : Live(m[s]) /\ state[s] # "none"
    BY <1>4 DEF StartTransition, LeadsOn, ReferenceInv, EnrolledAreSeated
  <2>3. Seen(a)'
    BY <2>1, <2>2 DEF Seen
  <2> QED
    BY <2>1, <2>3, ReferenceBegin
<1>5. CASE Transition(a)
  <2> DEFINE m == req[a].placing
  <2>1. /\ req'[a] = Idle
        /\ \A s \in Students : classOf'[s] = IF s \in DOMAIN m THEN m[s] ELSE classOf[s]
    BY <1>0, <1>5 DEF Transition, Placed, End, TypeOK
  <2>2. \A s \in DOMAIN m : Live(m[s]) /\ state[s] # "none"
    BY <1>5 DEF Transition, ReferenceInv, Seen
  <2> HIDE DEF m
  <2> QED
    BY <1>5, <2>1, <2>2, ReferenceSeats DEF Transition
<1>6. ASSUME NEW p \in snapshots, RollbackPromotion(a, p)
      PROVE  ReferenceInv(a)' /\ \E q \in snapshots : RollbackPromotion(a, q)
  <2>1. /\ \A s \in Students : classOf'[s] = IF s \in DOMAIN p THEN p[s] ELSE classOf[s]
        /\ req[a] = Idle /\ UNCHANGED <<state, snapshots, teaches, tableVars, req>>
    BY <1>6 DEF RollbackPromotion, Placed
  <2>2. EnrolledAreSeated'
    BY <2>1 DEF ReferenceInv, EnrolledAreSeated
  <2> QED
    BY <1>6, <2>1, <2>2 DEF ReferenceInv, ReferencesResolve, Seen, Idle, Configured
<1> QED
  BY <1>1, <1>2, <1>3, <1>4, <1>5, <1>6 DEF MoveStep

LEMMA ReferenceTable ==
  ASSUME NEW a \in Admins, ReferenceInv(a), TypeOK', TableStep(a)
  PROVE  ReferenceInv(a)' /\ NobodyNew
<1> USE DEF schoolVars, recordVars, tableVars, Live
<1>0. UNCHANGED recordVars
  BY DEF TableStep, CreatePeriod, StartUpdatePeriod, UpdatePeriod, StartDeletePeriod,
         DeletePeriod, StartCreateTimeslot, CreateTimeslot, DeleteTimeslot, CopyTimetable, Begin
<1>00. NobodyNew /\ EnrolledAreSeated'
  BY <1>0 DEF NobodyNew, Astray, ReferenceInv, EnrolledAreSeated
<1>1. CASE \E n \in Numbers, t \in Spans : CreatePeriod(a, n, t)
  BY <1>00, <1>1 DEF CreatePeriod, ReferenceInv, ReferencesResolve, Seen, Configured, Idle
<1>2. CASE \E n \in Numbers, side \in {1, 2}, t \in Times : StartUpdatePeriod(a, n, side, t)
  BY <1>2, ReferenceBegin DEF StartUpdatePeriod, Begin, Seen, ReferenceInv, TypeOK
<1>3. CASE UpdatePeriod(a)
  <2>1. DOMAIN periods' = DOMAIN periods /\ req'[a] = Idle /\ UNCHANGED <<recordVars, slots>>
    BY <1>3 DEF UpdatePeriod, End, ReferenceInv, TypeOK
  <2> QED
    BY <1>00, <2>1 DEF ReferenceInv, ReferencesResolve, Seen, Configured, Idle
<1>4. CASE \E n \in Numbers : StartDeletePeriod(a, n)
  BY <1>4, ReferenceBegin DEF StartDeletePeriod, Begin, Seen, ReferenceInv, TypeOK
<1>5. CASE DeletePeriod(a)
  <2>1. /\ DOMAIN periods' = DOMAIN periods \ {req[a].number} /\ req'[a] = Idle
        /\ UNCHANGED <<recordVars, slots>> /\ \A l \in slots : l.number # req[a].number
    BY <1>5 DEF DeletePeriod, End, ReferenceInv, Seen, TypeOK, Configured
  <2> QED
    BY <1>00, <2>1 DEF ReferenceInv, ReferencesResolve, Seen, Configured, Idle
<1>6. CASE \E k \in Slot : StartCreateTimeslot(a, k)
  <2>1. PICK k \in Slot : StartCreateTimeslot(a, k)
    BY <1>6
  <2>2. req'[a] = [op |-> "slot", slot |-> k] /\ UNCHANGED schoolVars
    BY <2>1 DEF StartCreateTimeslot, Begin, ReferenceInv, TypeOK
  <2>3. Seen(a)'
    BY <2>1, <2>2 DEF StartCreateTimeslot, Seen, Configured
  <2> QED
    BY <2>2, <2>3, ReferenceBegin
<1>7. CASE CreateTimeslot(a)
  <2>1. /\ slots' = slots \cup {req[a].slot} /\ req'[a] = Idle
        /\ UNCHANGED <<recordVars, periods>>
        /\ Live(req[a].slot.subject) /\ Live(req[a].slot.teacher)
        /\ req[a].slot.number \in Configured
    BY <1>7 DEF CreateTimeslot, End, ReferenceInv, Seen, TypeOK
  <2> QED
    BY <1>00, <2>1 DEF ReferenceInv, ReferencesResolve, Seen, Configured, Idle
<1>8. CASE \E l \in slots : DeleteTimeslot(a, l)
  BY <1>00, <1>8 DEF DeleteTimeslot, ReferenceInv, ReferencesResolve, Seen, Configured, Idle
<1>9. CASE \E from, to \in Sessions : CopyTimetable(a, from, to)
  <2>1. PICK from, to \in Sessions : CopyTimetable(a, from, to)
    BY <1>9
  <2>2. \A k \in CopiesOf(from, to) : \E l \in slots :
          k.subject = l.subject /\ k.teacher = l.teacher /\ k.number = l.number
    BY DEF CopiesOf, ReferenceInv, TypeOK, Slot
  <2>3. /\ \A k \in slots' : k \in slots \/ k \in CopiesOf(from, to)
        /\ UNCHANGED <<recordVars, periods, req>> /\ req[a] = Idle
    BY <2>1 DEF CopyTimetable
  <2>4. \A k \in slots' : Live(k.subject) /\ Live(k.teacher) /\ k.number \in Configured
    BY <2>2, <2>3 DEF ReferenceInv, ReferencesResolve
  <2> QED
    BY <1>00, <2>3, <2>4 DEF ReferenceInv, ReferencesResolve, Seen, Configured, Idle
<1> QED
  BY <1>1, <1>2, <1>3, <1>4, <1>5, <1>6, <1>7, <1>8, <1>9 DEF TableStep

LEMMA ReferenceNext ==
  ASSUME NEW a, Admins = {a}, ReferenceInv(a), [Next]_vars
  PROVE  /\ ReferenceInv(a)'
         /\ NobodyNew \/ \E p \in snapshots : RollbackPromotion(a, p)
<1>1. TypeOK'
  BY TypeNext DEF ReferenceInv
<1>2. CASE RecordStep(a)
  BY <1>1, <1>2, ReferenceRecords
<1>3. CASE MoveStep(a)
  BY <1>1, <1>3, ReferenceMoves
<1>4. CASE TableStep(a)
  BY <1>1, <1>4, ReferenceTable
<1>5. CASE UNCHANGED vars
  <2>1. Seen(a)'
    BY <1>5 DEF vars, schoolVars, recordVars, tableVars, ReferenceInv, Seen, Live, Configured,
            InUse, LiveStudentsOf
  <2> QED
    BY <1>1, <1>5, <2>1, ReferenceBegin DEF vars
<1> QED
  BY <1>2, <1>3, <1>4, <1>5 DEF Next

(* A lesson has its subject, its teacher and its period and a live class   *)
(* its batch, while one Admin is at work, whatever the Admin deletes one   *)
(* by one or in bulk and wherever a request ends.                          *)
THEOREM ReferencesResolveForOneAdmin ==
  ASSUME NEW a, Admins = {a}
  PROVE  Spec => []ReferencesResolve
<1>1. Init => ReferenceInv(a)
  BY ReferenceInit
<1>2. ReferenceInv(a) /\ [Next]_vars => ReferenceInv(a)'
  BY ReferenceNext
<1>3. ReferenceInv(a) => ReferencesResolve
  BY DEF ReferenceInv
<1> QED
  BY <1>1, <1>2, <1>3, PTL DEF Spec

(* Nobody comes to be in a deleted class but by the rollback of a          *)
(* promotion, while one Admin is at work: for any students and classes,    *)
(* however they are enrolled, imported, moved, promoted and graduated.     *)
THEOREM NobodyGoesAstrayForOneAdmin ==
  ASSUME NEW a, Admins = {a}
  PROVE  Spec => NobodyGoesAstray
<1>1. Init => ReferenceInv(a)
  BY ReferenceInit
<1>2. ReferenceInv(a) /\ [Next]_vars => ReferenceInv(a)'
  BY ReferenceNext
<1>3. ReferenceInv(a) /\ [Next]_vars =>
        [\A s \in Students : Astray(s)' => Astray(s) \/ RolledBack]_vars
  BY ReferenceNext DEF NobodyNew, RolledBack
<1> QED
  BY <1>1, <1>2, <1>3, PTL DEF Spec, NobodyGoesAstray

-----------------------------------------------------------------------------
(* Periods, while one Admin is at work: the times that were checked are    *)
(* still those that are written to.                                        *)
Checked(a) ==
  req[a].op = "period" /\ req[a].number \in Configured =>
    [periods[req[a].number] EXCEPT ![req[a].side] = req[a].time] \in Spans

PeriodInv(a) == TypeOK /\ PeriodsRunForward /\ Checked(a)

LEMMA PeriodRecords ==
  ASSUME NEW a \in Admins, TypeOK, RecordStep(a)
  PROVE  UNCHANGED periods /\ req'[a].op # "period"
<1> USE DEF schoolVars, tableVars, Idle
<1>0. req' = [req EXCEPT ![a] = Idle] => req'[a].op = "idle"
  BY DEF TypeOK
<1>1. CASE EndRequest(a)
  BY <1>0, <1>1 DEF EndRequest, End
<1>2. ASSUME NEW x \in Rows, CreateFree(a, x) \/ PassRow(a, x) \/ PickRow(a, x)
      PROVE  UNCHANGED periods /\ req'[a].op # "period"
  <2>1. CASE CreateFree(a, x)
    BY <2>1 DEF CreateFree
  <2>2. CASE PassRow(a, x) \/ PickRow(a, x)
    <3>1. req[a] \in [op : {"delete"}, rest : SUBSET Rows, now : Rows \cup {Nothing}]
      BY <2>2, RequestFields DEF PassRow, PickRow
    <3> QED
      BY <2>2, <3>1 DEF PassRow, PickRow, TypeOK
  <2> QED
    BY <1>2, <2>1, <2>2
<1>3. CASE \E X \in Selections : StartDelete(a, X)
  BY <1>3 DEF StartDelete, Begin, TypeOK
<1>4. CASE DeleteRow(a)
  <2>1. req[a] \in [op : {"delete"}, rest : SUBSET Rows, now : Rows \cup {Nothing}]
    BY <1>4, RequestFields DEF DeleteRow
  <2> QED
    BY <1>4, <2>1 DEF DeleteRow, TypeOK
<1>5. CASE \E c \in Classes : StartCreateClass(a, c)
  BY <1>5 DEF StartCreateClass, Begin, TypeOK
<1>6. CASE CreateClass(a)
  BY <1>0, <1>6 DEF CreateClass, End
<1>7. CASE \E s \in Students, c \in Classes \cup {Nowhere} : StartSeat(a, s, c)
  BY <1>7 DEF StartSeat, Begin, TypeOK
<1>8. CASE Seat(a)
  BY <1>0, <1>8 DEF Seat, End
<1>9. CASE \E t \in Teachers, is \in BOOLEAN : UpdateTeacherRole(a, t, is)
  BY <1>9 DEF UpdateTeacherRole
<1>10. CASE \E s \in Students : ImportStudent(a, s)
  BY <1>10 DEF ImportStudent
<1> QED
  BY <1>1, <1>2, <1>3, <1>4, <1>5, <1>6, <1>7, <1>8, <1>9, <1>10 DEF RecordStep

LEMMA PeriodMoves ==
  ASSUME NEW a \in Admins, TypeOK, MoveStep(a)
  PROVE  UNCHANGED periods /\ (req' = req \/ req'[a].op # "period")
<1>1. UNCHANGED periods
  BY MovesOnly DEF tableVars
<1>2. CASE \E c \in Classes, to \in Classes \cup {Nowhere} : StartPromote(a, c, to)
  BY <1>1, <1>2 DEF StartPromote, Begin, TypeOK
<1>3. CASE \E m \in Placings : StartTransition(a, m)
  BY <1>1, <1>3 DEF StartTransition, Begin, TypeOK
<1>4. CASE Transition(a) \/ \E some \in SUBSET Students : Promote(a, some)
  <2>1. req' = [req EXCEPT ![a] = Idle]
    BY <1>4 DEF Promote, Transition, End
  <2>2. req'[a] = Idle
    BY <2>1 DEF TypeOK
  <2> QED
    BY <1>1, <2>2 DEF Idle
<1>5. CASE \E from \in Sessions, some \in SUBSET Students : PreviewTransition(a, from, some)
  BY <1>1, <1>5 DEF PreviewTransition
<1>6. CASE \E p \in snapshots : RollbackPromotion(a, p)
  BY <1>1, <1>6 DEF RollbackPromotion
<1> QED
  BY <1>2, <1>3, <1>4, <1>5, <1>6 DEF MoveStep

LEMMA PeriodTable ==
  ASSUME NEW a \in Admins, PeriodInv(a), TypeOK', TableStep(a)
  PROVE  PeriodInv(a)'
<1> USE DEF schoolVars, tableVars, Configured
<1>0. TypeOK
  BY DEF PeriodInv
<1>1. CASE \E n \in Numbers, t \in Spans : CreatePeriod(a, n, t)
  BY <1>1 DEF CreatePeriod, PeriodInv, PeriodsRunForward, Checked, Idle
<1>2. ASSUME NEW n \in Numbers, NEW side \in {1, 2}, NEW t \in Times,
             StartUpdatePeriod(a, n, side, t)
      PROVE  PeriodInv(a)'
  <2>1. req'[a] = [op |-> "period", number |-> n, side |-> side, time |-> t]
    BY <1>0, <1>2 DEF StartUpdatePeriod, Begin, TypeOK
  <2>2. [periods[n] EXCEPT ![side] = t] \in Spans /\ UNCHANGED periods
    BY <1>2 DEF StartUpdatePeriod, Begin
  <2> QED
    BY <2>1, <2>2 DEF PeriodInv, PeriodsRunForward, Checked
<1>3. CASE UpdatePeriod(a)
  <2> DEFINE n == req[a].number
  <2>1. req'[a] = Idle
    BY <1>0, <1>3 DEF UpdatePeriod, End, TypeOK
  <2>2. CASE n \in DOMAIN periods
    <3>1. periods' = [periods EXCEPT ![n] = [periods[n] EXCEPT ![req[a].side] = req[a].time]]
      BY <1>3, <2>2 DEF UpdatePeriod
    <3>2. [periods[n] EXCEPT ![req[a].side] = req[a].time] \in Spans
      BY <1>3, <2>2 DEF UpdatePeriod, PeriodInv, Checked
    <3>3. PeriodsRunForward'
      BY <3>1, <3>2 DEF PeriodInv, PeriodsRunForward
    <3> QED
      BY <2>1, <3>3 DEF PeriodInv, Checked, Idle
  <2>3. CASE n \notin DOMAIN periods
    BY <1>3, <2>1, <2>3 DEF UpdatePeriod, PeriodInv, PeriodsRunForward, Checked, Idle
  <2> QED
    BY <2>2, <2>3
<1>4. CASE \E n \in Numbers : StartDeletePeriod(a, n)
  BY <1>0, <1>4 DEF StartDeletePeriod, Begin, PeriodInv, PeriodsRunForward, Checked, TypeOK
<1>5. CASE DeletePeriod(a)
  <2>1. req'[a] = Idle
    BY <1>0, <1>5 DEF DeletePeriod, End, TypeOK
  <2> QED
    BY <1>5, <2>1 DEF DeletePeriod, PeriodInv, PeriodsRunForward, Checked, Idle
<1>6. CASE \E k \in Slot : StartCreateTimeslot(a, k)
  BY <1>0, <1>6 DEF StartCreateTimeslot, Begin, PeriodInv, PeriodsRunForward, Checked, TypeOK
<1>7. CASE CreateTimeslot(a)
  BY <1>0, <1>7 DEF CreateTimeslot, End, PeriodInv, PeriodsRunForward, Checked, TypeOK, Idle
<1>8. CASE \E l \in slots : DeleteTimeslot(a, l)
  BY <1>8 DEF DeleteTimeslot, PeriodInv, PeriodsRunForward, Checked
<1>9. CASE \E from, to \in Sessions : CopyTimetable(a, from, to)
  BY <1>9 DEF CopyTimetable, PeriodInv, PeriodsRunForward, Checked
<1> QED
  BY <1>1, <1>2, <1>3, <1>4, <1>5, <1>6, <1>7, <1>8, <1>9 DEF TableStep

(* A period ends after it starts, for any periods and times, while one     *)
(* Admin is at work (createPeriod and updatePeriod): with two, a start and *)
(* an end that were each checked with the old other one may cross.         *)
THEOREM PeriodsRunForwardForOneAdmin ==
  ASSUME NEW a, Admins = {a}
  PROVE  Spec => []PeriodsRunForward
<1>1. Init => PeriodInv(a)
  BY TypeInit DEF Init, PeriodInv, PeriodsRunForward, Checked, Configured, Idle
<1>2. ASSUME PeriodInv(a), [Next]_vars
      PROVE  PeriodInv(a)'
  <2>1. TypeOK /\ TypeOK'
    BY <1>2, TypeNext DEF PeriodInv
  <2>2. CASE RecordStep(a)
    BY <1>2, <2>1, <2>2, PeriodRecords DEF PeriodInv, PeriodsRunForward, Checked, Configured
  <2>5. CASE MoveStep(a)
    BY <1>2, <2>1, <2>5, PeriodMoves DEF PeriodInv, PeriodsRunForward, Checked, Configured
  <2>3. CASE TableStep(a)
    BY <1>2, <2>1, <2>3, PeriodTable
  <2>4. CASE UNCHANGED vars
    BY <1>2, <2>1, <2>4
    DEF vars, schoolVars, tableVars, PeriodInv, PeriodsRunForward, Checked, Configured
  <2> QED
    BY <1>2, <2>2, <2>3, <2>4, <2>5 DEF Next
<1>3. PeriodInv(a) => PeriodsRunForward
  BY DEF PeriodInv
<1> QED
  BY <1>1, <1>2, <1>3, PTL DEF Spec

-----------------------------------------------------------------------------
(* Assignments.  The requests of markers interleave with each other and    *)
(* with those of the office: what a marker has written stays, or is        *)
(* another marker's, until the marker is answered.                         *)
RequestsHaveWork ==
  \A c \in Markers : work[c].op \in {"update", "delete", "close", "mark"} =>
    works[work[c].work] # NoWork

(* The list is gone through from its first entry on.                       *)
WorkReached(r) ==
  r.next \in Nat \ {0} /\ (r.next = 1 \/ r.next - 1 \in DOMAIN r.entries)

(* Of the entries a request has gone through.                              *)
LatestOfStudent(r, i) ==
  /\ i < r.next
  /\ \A j \in DOMAIN r.entries :
       j < r.next /\ r.entries[j].student = r.entries[i].student => j <= i

KeptEntry(c, r, i) ==
  LET row == submissions[r.work][r.entries[i].student] IN
    /\ i \in r.counted => i < r.next /\ row # NoRow
    /\ LatestOfStudent(r, i) /\ row.by = c => i \in r.counted /\ row.mark = r.entries[i].mark

MarksAreKept ==
  \A c \in Markers : work[c].op = "mark" =>
    /\ WorkReached(work[c])
    /\ \A i \in DOMAIN work[c].entries : KeptEntry(c, work[c], i)

WorkInv == WorkTypeOK /\ RequestsHaveWork /\ MarksAreKept

LEMMA WorkFields ==
  ASSUME NEW r \in WorkRequests
  PROVE  /\ r.op \in {"idle", "create", "update", "delete", "close", "mark"}
         /\ r.op # "idle" => r.work \in Works
         /\ r.op = "create" => r.class \in Classes /\ r.subject \in Subjects
         /\ r.op \in {"create", "update"} => r.due \in Days0
         /\ r.op = "mark" =>
              /\ r \in [op : {"mark"}, work : Works, entries : Entries, next : Nat,
                        counted : SUBSET Nat]
              /\ r.entries \in Entries /\ r.next \in Nat /\ r.counted \subseteq Nat
  BY DEF WorkRequests, Idle

LEMMA EntriesFields ==
  ASSUME NEW e \in Entries
  PROVE  /\ DOMAIN e \subseteq Nat \ {0}
         /\ \A i \in DOMAIN e : e[i].student \in Students /\ e[i].mark \in Marks
<1>1. PICK n \in 1..MaxEntries : e \in [1..n -> [student : Students, mark : Marks]]
  BY DEF Entries
<1> QED
  BY <1>1, MarkersAssumption

LEMMA ReachedAll ==
  ASSUME NEW r, r.entries \in Entries, WorkReached(r), r.next \notin DOMAIN r.entries,
         NEW i \in DOMAIN r.entries
  PROVE  i < r.next
<1>1. PICK n \in 1..MaxEntries : r.entries \in [1..n -> [student : Students, mark : Marks]]
  BY DEF Entries
<1>2. DOMAIN r.entries = 1..n /\ n \in Nat \ {0}
  BY <1>1, MarkersAssumption
<1> QED
  BY <1>2 DEF WorkReached

LEMMA WorkInit == InitWork => WorkInv
<1> SUFFICES ASSUME InitWork PROVE WorkInv
  OBVIOUS
<1>1. Idle \in WorkRequests /\ \A c \in Markers : work[c] = Idle
  BY DEF InitWork, WorkRequests
<1>2. 0 \in Days0
  BY MarkersAssumption DEF Days0
<1>3. WorkTypeOK
  BY <1>1, <1>2 DEF InitWork, WorkTypeOK
<1> QED
  BY <1>1, <1>3 DEF WorkInv, RequestsHaveWork, MarksAreKept, Idle

(* A request that begins, having looked for its assignment.                *)
LEMMA BeginKeeps ==
  ASSUME WorkInv, NEW c \in Markers, NEW r \in WorkRequests, BeginWork(c, r),
         r.op \in {"update", "delete", "close", "mark"} => works[r.work] # NoWork,
         r.op = "mark" => r.entries \in Entries /\ r.next = 1 /\ r.counted = {}
  PROVE  WorkInv'
<1>1. UNCHANGED <<works, submissions, today>> /\ work' = [work EXCEPT ![c] = r]
  BY DEF BeginWork
<1>2. \A d \in Markers : work'[d] = IF d = c THEN r ELSE work[d]
  BY <1>1 DEF WorkInv, WorkTypeOK
<1>3. WorkTypeOK'
  BY <1>1 DEF WorkInv, WorkTypeOK
<1>4. RequestsHaveWork'
  BY <1>1, <1>2 DEF WorkInv, RequestsHaveWork
<1>5. MarksAreKept'
  <2>1. ASSUME NEW d \in Markers, d # c, work'[d].op = "mark"
        PROVE  /\ WorkReached(work'[d])
               /\ \A i \in DOMAIN work'[d].entries : KeptEntry(d, work[d], i)'
    BY <1>1, <1>2, <2>1 DEF WorkInv, MarksAreKept, KeptEntry, LatestOfStudent
  <2>2. ASSUME r.op = "mark", NEW i \in DOMAIN r.entries
        PROVE  WorkReached(r) /\ ~(i < r.next) /\ i \notin r.counted
    BY <2>2, EntriesFields DEF WorkReached
  <2>3. ASSUME work'[c].op = "mark"
        PROVE  /\ WorkReached(work'[c])
               /\ \A i \in DOMAIN work'[c].entries : KeptEntry(c, work[c], i)'
    <3>1. r.op = "mark" /\ work'[c] = r /\ WorkReached(r)
      BY <1>2, <2>3 DEF WorkReached
    <3> QED
      BY <2>2, <3>1 DEF KeptEntry, LatestOfStudent
  <2> QED
    BY <2>1, <2>3 DEF MarksAreKept
<1> QED
  BY <1>3, <1>4, <1>5 DEF WorkInv

(* A request that ends, having written no submission of an assignment that *)
(* was there.                                                              *)
LEMMA EndKeeps ==
  ASSUME WorkInv, NEW c \in Markers, EndWork(c), UNCHANGED today,
         works' \in [Works -> Work \cup {NoWork}],
         submissions' \in [Works -> [Students -> Row \cup {NoRow}]],
         \A w \in Works : works[w] # NoWork =>
           works'[w] # NoWork /\ submissions'[w] = submissions[w]
  PROVE  WorkInv'
<1>1. \A d \in Markers : work'[d] = IF d = c THEN Idle ELSE work[d]
  BY DEF EndWork, WorkInv, WorkTypeOK
<1>2. WorkTypeOK'
  BY DEF EndWork, WorkInv, WorkTypeOK, WorkRequests
<1>3. RequestsHaveWork'
  <2> SUFFICES ASSUME NEW d \in Markers, work'[d].op \in {"update", "delete", "close", "mark"}
               PROVE  works'[work'[d].work] # NoWork
    BY DEF RequestsHaveWork
  <2>1. work'[d] = work[d] /\ work[d] \in WorkRequests
    BY <1>1 DEF Idle, WorkInv, WorkTypeOK
  <2> QED
    BY <2>1, WorkFields DEF WorkInv, RequestsHaveWork
<1>4. MarksAreKept'
  <2> SUFFICES ASSUME NEW d \in Markers, work'[d].op = "mark"
               PROVE  /\ work'[d] = work[d] /\ work[d].op = "mark"
                      /\ submissions'[work[d].work] = submissions[work[d].work]
    BY DEF WorkInv, MarksAreKept, KeptEntry, LatestOfStudent
  <2>1. work'[d] = work[d] /\ work[d] \in WorkRequests
    BY <1>1 DEF Idle, WorkInv, WorkTypeOK
  <2> QED
    BY <2>1, WorkFields DEF WorkInv, RequestsHaveWork
<1> QED
  BY <1>2, <1>3, <1>4 DEF WorkInv

(* One entry further, the row of its student is what its marker has made   *)
(* of it, or still none.                                                   *)
LEMMA FurtherKeeps ==
  ASSUME WorkInv, NEW c \in Markers, InLoop(c), NEW row \in Row \cup {NoRow},
         UNCHANGED <<works, today>>,
         work' = [work EXCEPT ![c] = work'[c]],
         work'[c] = Counted(work[c]) \/ work'[c] = PassedOver(work[c]),
         submissions' = [submissions EXCEPT ![work[c].work][Current(c).student] = row],
         work'[c] = Counted(work[c]) =>
           row = [mark |-> Current(c).mark, by |-> c],
         work'[c] = PassedOver(work[c]) =>
           row = NoRow /\ submissions[work[c].work][Current(c).student] = NoRow,
         work'[c] # PassedOver(work[c]) \/ work'[c] # Counted(work[c])
  PROVE  WorkInv'
<1> DEFINE r == work[c]
           w == r.work
           n == r.next
           s == Current(c).student
<1>1. /\ r \in [op : {"mark"}, work : Works, entries : Entries, next : Nat, counted : SUBSET Nat]
      /\ WorkReached(r) /\ n \in DOMAIN r.entries /\ n \in Nat
      /\ \A i \in DOMAIN r.entries : i \in Nat /\ KeptEntry(c, r, i)
  BY WorkFields, EntriesFields DEF InLoop, WorkInv, WorkTypeOK, MarksAreKept
<1>2. w \in Works /\ s \in Students /\ Current(c).mark \in Marks
  BY <1>1, EntriesFields DEF Current
<1>3. /\ work'[c] \in WorkRequests /\ work'[c].op = "mark" /\ work'[c].work = w
      /\ work'[c].entries = r.entries /\ work'[c].next = n + 1
      /\ \/ work'[c].counted = r.counted \cup {n} /\ row = [mark |-> Current(c).mark, by |-> c]
         \/ work'[c].counted = r.counted /\ row = NoRow /\ submissions[w][s] = NoRow
  <2> DEFINE D == [op : {"mark"}, work : Works, entries : Entries, next : Nat, counted : SUBSET Nat]
  <2>1. Counted(r) \in D /\ PassedOver(r) \in D
    <3>1. n + 1 \in Nat /\ r.counted \cup {n} \in SUBSET Nat
      BY <1>1
    <3>2. /\ [r EXCEPT !.next = n + 1] \in D
          /\ [[r EXCEPT !.next = n + 1] EXCEPT !.counted = r.counted \cup {n}] \in D
      BY <1>1, <3>1
    <3> QED
      BY <3>2 DEF Counted, PassedOver
  <2>2. D \subseteq WorkRequests
    BY DEF WorkRequests
  <2>3. /\ Counted(r).op = "mark" /\ Counted(r).work = w /\ Counted(r).entries = r.entries
        /\ Counted(r).next = n + 1 /\ Counted(r).counted = r.counted \cup {n}
    BY <1>1 DEF Counted
  <2>4. /\ PassedOver(r).op = "mark" /\ PassedOver(r).work = w /\ PassedOver(r).entries = r.entries
        /\ PassedOver(r).next = n + 1 /\ PassedOver(r).counted = r.counted
    BY <1>1 DEF PassedOver
  <2> HIDE DEF D
  <2>5. CASE work'[c] = Counted(r)
    BY <2>1, <2>2, <2>3, <2>5
  <2>6. CASE work'[c] = PassedOver(r)
    BY <2>1, <2>2, <2>4, <2>6
  <2> QED
    BY <2>5, <2>6
<1>4. \A d \in Markers : d # c => work'[d] = work[d]
  BY DEF WorkInv, WorkTypeOK
<1>5. \A v \in Works, x \in Students :
        submissions'[v][x] = IF v = w /\ x = s THEN row ELSE submissions[v][x]
  BY <1>2 DEF WorkInv, WorkTypeOK
<1>6. WorkTypeOK'
  <2>1. submissions' \in [Works -> [Students -> Row \cup {NoRow}]]
    BY DEF WorkInv, WorkTypeOK
  <2>2. work' \in [Markers -> WorkRequests]
    BY <1>3 DEF WorkInv, WorkTypeOK
  <2> QED
    BY <2>1, <2>2 DEF WorkInv, WorkTypeOK
<1>7. RequestsHaveWork'
  BY <1>1, <1>3, <1>4 DEF WorkInv, RequestsHaveWork
<1>8. WorkReached(work'[c])
  BY <1>1, <1>3 DEF WorkReached
<1>9. ASSUME NEW i \in DOMAIN r.entries
      PROVE  KeptEntry(c, work[c], i)'
  <2> DEFINE x == r.entries[i].student
             old == submissions[w][x]
             new == submissions'[w][x]
  <2>1. x \in Students /\ new = IF x = s THEN row ELSE old
    BY <1>1, <1>2, <1>5, EntriesFields
  <2>2. s = r.entries[n].student /\ Current(c).mark = r.entries[n].mark
    BY DEF Current
  <2>3. n \notin r.counted
    BY <1>1 DEF KeptEntry
  <2>4. i \in r.counted => i < n /\ old # NoRow
    BY <1>1 DEF KeptEntry
  <2>5. LatestOfStudent(r, i) /\ old.by = c => i \in r.counted /\ old.mark = r.entries[i].mark
    BY <1>1 DEF KeptEntry
  <2>6. row # NoRow \/ old = NoRow \/ x # s
    BY <1>3, MarkersAssumption DEF NoRow
  <2> HIDE DEF x, old, new
  <2>7. ASSUME i \in work'[c].counted
        PROVE  i < n + 1 /\ new # NoRow
    <3>1. CASE i \in r.counted
      <4>1. i < n + 1
        BY <1>1, <2>4, <3>1
      <4>2. new # NoRow
        BY <2>1, <2>4, <2>6, <3>1
      <4> QED
        BY <4>1, <4>2
    <3>2. CASE i \notin r.counted
      <4>1. i = n /\ row # NoRow
        BY <1>3, <2>7, <3>2, MarkersAssumption DEF NoRow
      <4>2. x = s
        BY <2>2, <4>1 DEF x
      <4> QED
        BY <1>1, <2>1, <4>1, <4>2
    <3> QED
      BY <3>1, <3>2
  <2>8. ASSUME LatestOfStudent(work'[c], i), new.by = c
        PROVE  i \in work'[c].counted /\ new.mark = r.entries[i].mark
    <3>1. CASE x = s
      <4>1. i < n + 1
        BY <1>3, <2>8 DEF LatestOfStudent
      <4>2. r.entries[n].student = r.entries[i].student
        BY <2>2, <3>1 DEF x
      <4>3. n <= i
        BY <1>1, <1>3, <2>8, <4>2 DEF LatestOfStudent
      <4>4. i = n
        BY <1>1, <4>1, <4>3
      <4>5. row.by = c
        BY <2>1, <2>8, <3>1
      <4>6. row = [mark |-> Current(c).mark, by |-> c] /\ work'[c].counted = r.counted \cup {n}
        BY <1>3, <4>5, MarkersAssumption DEF NoRow
      <4> QED
        BY <2>1, <2>2, <3>1, <4>4, <4>6
    <3>2. CASE x # s
      <4>1. i # n
        BY <2>2, <3>2 DEF x
      <4>2. LatestOfStudent(r, i)
        BY <1>1, <1>3, <2>8, <4>1 DEF LatestOfStudent
      <4> QED
        BY <1>3, <2>1, <2>5, <2>8, <3>2, <4>2
    <3> QED
      BY <3>1, <3>2
  <2> QED
    BY <1>3, <2>7, <2>8 DEF KeptEntry, x, new
<1>10. ASSUME NEW d \in Markers, d # c, work[d].op = "mark", NEW i \in DOMAIN work[d].entries
       PROVE  KeptEntry(d, work[d], i)'
  <2>1. CASE row \in Row /\ row.by = c
    <3>1. /\ work[d].work \in Works /\ work[d].entries[i].student \in Students
          /\ work'[d] = work[d] /\ KeptEntry(d, work[d], i)
      BY <1>4, <1>10, WorkFields, EntriesFields DEF WorkInv, WorkTypeOK, MarksAreKept
    <3>2. submissions'[work[d].work][work[d].entries[i].student]
            \in {row, submissions[work[d].work][work[d].entries[i].student]}
      BY <1>5, <3>1
    <3>3. row # NoRow
      BY <2>1, MarkersAssumption DEF NoRow
    <3> QED
      BY <1>10, <2>1, <3>1, <3>2, <3>3 DEF KeptEntry, LatestOfStudent
  <2>2. CASE submissions' = submissions
    <3>1. work'[d] = work[d] /\ KeptEntry(d, work[d], i)
      BY <1>4, <1>10 DEF WorkInv, MarksAreKept
    <3> QED
      BY <2>2, <3>1 DEF KeptEntry, LatestOfStudent
  <2>3. row = [mark |-> Current(c).mark, by |-> c] => row \in Row /\ row.by = c
    BY <1>2 DEF Row
  <2>4. row = NoRow /\ submissions[w][s] = NoRow => submissions' = submissions
    BY <1>2, <1>5 DEF WorkInv, WorkTypeOK
  <2> QED
    BY <1>3, <2>1, <2>2, <2>3, <2>4
<1>11. MarksAreKept'
  <2>1. \A d \in Markers : d # c /\ work[d].op = "mark" => WorkReached(work[d])
    BY DEF WorkInv, MarksAreKept
  <2>2. ASSUME NEW d \in Markers, d # c, work'[d].op = "mark"
        PROVE  WorkReached(work'[d]) /\ \A i \in DOMAIN work'[d].entries : KeptEntry(d, work[d], i)'
    BY <1>4, <1>10, <2>1, <2>2
  <2> QED
    BY <1>3, <1>8, <1>9, <2>2 DEF MarksAreKept
<1> QED
  BY <1>6, <1>7, <1>11 DEF WorkInv

(* Counting an entry leaves a request that is not counting it.             *)
LEMMA CountedIsNot ==
  ASSUME WorkInv, NEW c \in Markers, InLoop(c)
  PROVE  Counted(work[c]) # PassedOver(work[c])
<1>1. /\ work[c] \in [op : {"mark"}, work : Works, entries : Entries, next : Nat,
                      counted : SUBSET Nat]
      /\ KeptEntry(c, work[c], work[c].next)
  BY WorkFields DEF InLoop, WorkInv, WorkTypeOK, MarksAreKept
<1>2. work[c].next \notin work[c].counted
  BY <1>1 DEF KeptEntry
<1>3. Counted(work[c]).counted # PassedOver(work[c]).counted
  BY <1>1, <1>2 DEF Counted, PassedOver
<1> QED
  BY <1>3

LEMMA MarkKeeps ==
  ASSUME WorkInv, NEW c \in Markers, NEW s \in Students, MarkSubmission(c, s)
  PROVE  WorkInv'
<1> DEFINE row == [mark |-> Current(c).mark, by |-> c]
<1>1. /\ InLoop(c) /\ s = Current(c).student
      /\ submissions' = [submissions EXCEPT ![work[c].work][s] = row]
      /\ work' = [work EXCEPT ![c] = Counted(work[c])]
      /\ UNCHANGED <<works, today>>
  BY DEF MarkSubmission, Marked
<1>2. work'[c] = Counted(work[c])
  BY <1>1 DEF WorkInv, WorkTypeOK
<1>3. Counted(work[c]) # PassedOver(work[c])
  BY <1>1, CountedIsNot
<1>4. row \in Row
  <2>1. work[c].entries \in Entries
    BY <1>1, WorkFields DEF InLoop, WorkInv, WorkTypeOK
  <2> QED
    BY <1>1, <2>1, EntriesFields DEF InLoop, Current, Row
<1> QED
  BY <1>1, <1>2, <1>3, <1>4, FurtherKeeps

LEMMA FailKeeps ==
  ASSUME WorkInv, NEW c \in Markers, NEW s \in Students, FailSubmission(c, s)
  PROVE  WorkInv'
<1>1. /\ InLoop(c) /\ s = Current(c).student
      /\ submissions[work[c].work][s] = NoRow
      /\ work' = [work EXCEPT ![c] = PassedOver(work[c])]
      /\ UNCHANGED <<works, submissions, today>>
  BY DEF FailSubmission
<1>2. work'[c] = PassedOver(work[c])
  BY <1>1 DEF WorkInv, WorkTypeOK
<1>3. Counted(work[c]) # PassedOver(work[c])
  BY <1>1, CountedIsNot
<1>4. submissions' = [submissions EXCEPT ![work[c].work][s] = NoRow]
  <2>1. work[c].work \in Works
    BY <1>1, WorkFields DEF InLoop, WorkInv, WorkTypeOK
  <2> QED
    BY <1>1, <2>1 DEF WorkInv, WorkTypeOK
<1> QED
  BY <1>1, <1>2, <1>3, <1>4, FurtherKeeps

LEMMA WorkStepKeeps ==
  ASSUME WorkInv, NEW c \in Markers, WorkStep(c)
  PROVE  WorkInv'
<1> DEFINE r == work[c]
<1>1. r \in WorkRequests /\ works \in [Works -> Work \cup {NoWork}]
         /\ submissions \in [Works -> [Students -> Row \cup {NoRow}]]
  BY DEF WorkInv, WorkTypeOK
<1>2. ASSUME NEW w \in Works, Exists(w)
      PROVE  works[w] \in Work /\ works[w] # NoWork
  BY <1>1, <1>2 DEF Exists, NoWork
<1>3. CASE AbortWork(c) \/ AnswerMark(c)
  BY <1>1, <1>3, EndKeeps DEF AbortWork, AnswerMark
<1>4. ASSUME NEW w \in Works, NEW class \in Classes, NEW subject \in Subjects,
             NEW due \in Days0, StartCreateAssignment(c, w, class, subject, due)
      PROVE  WorkInv'
  <2> DEFINE q == [op |-> "create", work |-> w, class |-> class, subject |-> subject, due |-> due]
  <2>1. q \in WorkRequests /\ q.op = "create"
    BY DEF WorkRequests
  <2>2. BeginWork(c, q)
    BY <1>4 DEF StartCreateAssignment
  <2> HIDE DEF q
  <2> QED
    BY <2>1, <2>2, BeginKeeps
<1>5. CASE CreateAssignment(c)
  <2>1. r.op = "create" /\ works[r.work] = NoWork
    BY <1>5 DEF CreateAssignment
  <2>2. r.work \in Works /\ r.class \in Classes /\ r.subject \in Subjects /\ r.due \in Days0
    BY <1>1, <2>1, WorkFields
  <2>3. works' \in [Works -> Work \cup {NoWork}]
    <3>1. [row |-> "live", class |-> r.class, subject |-> r.subject,
           by |-> UserOf[c], due |-> r.due, status |-> "ACTIVE"] \in Work
      BY <2>2, MarkersAssumption DEF Work
    <3> QED
      BY <1>1, <1>5, <3>1 DEF CreateAssignment
  <2>4. submissions' \in [Works -> [Students -> Row \cup {NoRow}]]
    <3>1. [mark |-> "PENDING", by |-> Nothing] \in Row
      BY MarkersAssumption DEF Row
    <3>2. [s \in Students |-> IF s \in LiveStudentsOf(r.class)
             THEN [mark |-> "PENDING", by |-> Nothing] ELSE NoRow] \in [Students -> Row \cup {NoRow}]
      BY <3>1
    <3> QED
      BY <1>1, <1>5, <3>2 DEF CreateAssignment
  <2>5. \A w \in Works : works[w] # NoWork => works'[w] = works[w] /\ submissions'[w] = submissions[w]
    BY <1>1, <1>5, <2>1 DEF CreateAssignment
  <2>6. EndWork(c) /\ UNCHANGED today
    BY <1>5 DEF CreateAssignment
  <2> QED
    BY <2>3, <2>4, <2>5, <2>6, EndKeeps
<1>6. ASSUME NEW w \in Works, NEW due \in Days0, StartUpdateAssignment(c, w, due)
      PROVE  WorkInv'
  <2>1. works[w] \in Work /\ works[w] # NoWork
    BY <1>2, <1>6 DEF StartUpdateAssignment
  <2>2. PICK d \in {due, works[w].due} : BeginWork(c, [op |-> "update", work |-> w, due |-> d])
    BY <1>6 DEF StartUpdateAssignment
  <2> DEFINE q == [op |-> "update", work |-> w, due |-> d]
  <2>3. q \in WorkRequests /\ q.op = "update" /\ q.work = w
    BY <2>1 DEF Work, WorkRequests
  <2> HIDE DEF q
  <2>4. BeginWork(c, q)
    BY <2>2 DEF q
  <2> QED
    BY <2>1, <2>3, <2>4, BeginKeeps
<1>7. ASSUME NEW w \in Works, StartDeleteAssignment(c, w) \/ StartCloseAssignment(c, w)
      PROVE  WorkInv'
  <2>1. works[w] # NoWork
    BY <1>2, <1>7 DEF StartDeleteAssignment, StartCloseAssignment
  <2>2. PICK q \in WorkRequests : q.op \in {"delete", "close"} /\ q.work = w /\ BeginWork(c, q)
    BY <1>7 DEF StartDeleteAssignment, StartCloseAssignment, WorkRequests
  <2> QED
    BY <2>1, <2>2, BeginKeeps
<1>8. CASE UpdateAssignment(c) \/ DeleteAssignment(c) \/ CloseAssignment(c)
  <2>1. r.op \in {"update", "delete", "close"}
    BY <1>8 DEF UpdateAssignment, DeleteAssignment, CloseAssignment
  <2>2. r.work \in Works /\ works[r.work] \in Work
    BY <1>1, <2>1, WorkFields DEF WorkInv, RequestsHaveWork
  <2>3. PICK v \in Work : works' = [works EXCEPT ![r.work] = v]
    <3>1. CASE UpdateAssignment(c)
      <4>1. r.due \in Days0
        BY <1>1, <3>1, WorkFields DEF UpdateAssignment
      <4>2. [works[r.work] EXCEPT !.due = r.due] \in Work
        BY <2>2, <4>1 DEF Work
      <4> QED
        BY <3>1, <4>2 DEF UpdateAssignment
    <3>2. CASE DeleteAssignment(c)
      <4>1. [works[r.work] EXCEPT !.row = "deleted"] \in Work
        BY <2>2 DEF Work
      <4> QED
        BY <3>2, <4>1 DEF DeleteAssignment
    <3>3. CASE CloseAssignment(c)
      <4>1. [works[r.work] EXCEPT !.status = "CLOSED"] \in Work
        BY <2>2 DEF Work
      <4> QED
        BY <3>3, <4>1 DEF CloseAssignment
    <3> QED
      BY <1>8, <3>1, <3>2, <3>3
  <2>4. EndWork(c) /\ UNCHANGED <<submissions, today>>
    BY <1>8 DEF UpdateAssignment, DeleteAssignment, CloseAssignment
  <2>5. \A w \in Works : works[w] # NoWork => works'[w] # NoWork
    BY <1>1, <2>2, <2>3 DEF Work, NoWork
  <2>6. works' \in [Works -> Work \cup {NoWork}]
    BY <1>1, <2>3
  <2> QED
    BY <1>1, <2>4, <2>5, <2>6, EndKeeps
<1>9. ASSUME NEW w \in Works, NEW e \in Entries, StartMark(c, w, e)
      PROVE  WorkInv'
  <2> DEFINE q == [op |-> "mark", work |-> w, entries |-> e, next |-> 1, counted |-> {}]
  <2>1. works[w] # NoWork
    BY <1>2, <1>9 DEF StartMark
  <2>2. /\ q \in WorkRequests /\ q.op = "mark" /\ q.work = w
        /\ q.entries \in Entries /\ q.next = 1 /\ q.counted = {}
    BY DEF WorkRequests
  <2>3. BeginWork(c, q)
    BY <1>9 DEF StartMark
  <2> HIDE DEF q
  <2> QED
    BY <2>1, <2>2, <2>3, BeginKeeps
<1> QED
  BY <1>3, <1>4, <1>5, <1>6, <1>7, <1>8, <1>9, MarkKeeps, FailKeeps DEF WorkStep

LEMMA WorkInvNext ==
  WorkInv /\ [(Next /\ UNCHANGED workVars) \/ WorkNext]_allVars => WorkInv'
<1>1. ASSUME WorkInv, UNCHANGED workVars
      PROVE  WorkInv'
  BY <1>1 DEF workVars, WorkInv, WorkTypeOK, RequestsHaveWork, MarksAreKept, KeptEntry,
              LatestOfStudent
<1>2. ASSUME WorkInv, NextDay
      PROVE  WorkInv'
  BY <1>2, MarkersAssumption
     DEF NextDay, Days0, WorkInv, WorkTypeOK, RequestsHaveWork, MarksAreKept, KeptEntry,
         LatestOfStudent
<1> QED
  BY <1>1, <1>2, WorkStepKeeps DEF WorkNext, allVars

LEMMA WorkInvariance == WorkSpec => []WorkInv
  BY WorkInit, WorkInvNext, PTL DEF WorkSpec

(* Every assignment, submission and request of a marker is within its      *)
(* type, whatever the office does to the records meanwhile.                *)
THEOREM WorkTypeCorrect == WorkSpec => []WorkTypeOK
<1>1. WorkInv => WorkTypeOK
  BY DEF WorkInv
<1> QED
  BY <1>1, WorkInvariance, PTL

(* What bulkMark counts in its answer is written, and the last entry of a  *)
(* student is the one that stands, for any number of markers who mark the  *)
(* same students at once, any lists, repetitions included, and any rows    *)
(* that fail.                                                              *)
THEOREM AnsweredIsWrittenHolds == WorkSpec => AnsweredIsWritten
<1>1. WorkInv => \A c \in Markers :
        work[c].op = "mark" /\ ~InLoop(c) =>
          LET r == work[c] IN
          \A i \in DOMAIN r.entries :
            LET row == submissions[r.work][r.entries[i].student] IN
              /\ i \in r.counted => row # NoRow
              /\ LastOfStudent(r.entries, i) /\ row.by = c =>
                   i \in r.counted /\ row.mark = r.entries[i].mark
  <2> SUFFICES ASSUME WorkInv, NEW c \in Markers, work[c].op = "mark", ~InLoop(c),
                      NEW i \in DOMAIN work[c].entries
               PROVE  LET r == work[c]
                          row == submissions[r.work][r.entries[i].student] IN
                        /\ i \in r.counted => row # NoRow
                        /\ LastOfStudent(r.entries, i) /\ row.by = c =>
                             i \in r.counted /\ row.mark = r.entries[i].mark
    OBVIOUS
  <2>1. KeptEntry(c, work[c], i)
    BY DEF WorkInv, MarksAreKept
  <2>2. LastOfStudent(work[c].entries, i) => LatestOfStudent(work[c], i)
    <3>1. work[c].entries \in Entries /\ WorkReached(work[c])
      BY WorkFields DEF WorkInv, WorkTypeOK, MarksAreKept
    <3>2. i < work[c].next
      BY <3>1, EntriesFields, ReachedAll DEF InLoop
    <3> QED
      BY <3>2 DEF LastOfStudent, LatestOfStudent
  <2> QED
    BY <2>1, <2>2 DEF KeptEntry
<1>2. WorkInv => [\A c \in Markers :
       work[c].op = "mark" /\ ~InLoop(c) /\ work'[c] = Idle =>
         LET r == work[c] IN
         \A i \in DOMAIN r.entries :
           LET row == submissions[r.work][r.entries[i].student] IN
             /\ i \in r.counted => row # NoRow
             /\ LastOfStudent(r.entries, i) /\ row.by = c =>
                  i \in r.counted /\ row.mark = r.entries[i].mark]_allVars
  BY <1>1
<1> QED
  BY <1>2, WorkInvariance, PTL DEF AnsweredIsWritten

-----------------------------------------------------------------------------
(* The register and its reports, for a finite school.                      *)
ReportInv == RegisterTypeOK /\ IsFiniteSet(Records)

LEMMA ReportInit == InitRegister => ReportInv
<1> SUFFICES ASSUME InitRegister PROVE ReportInv
  OBVIOUS
<1>1. Records = {}
  BY DEF InitRegister, Records
<1>2. alert \in [day : Dates \cup {0}, students : SUBSET Students]
  BY DEF InitRegister
<1> QED
  BY <1>1, <1>2, FS_EmptySet DEF ReportInv, RegisterTypeOK

LEMMA RecordKeeps ==
  ASSUME IsFiniteSet(Students), ReportInv, NEW l \in Slot, NEW d \in Dates,
         NEW e \in Registers, RecordClass(l, d, e)
  PROVE  ReportInv'
<1> DEFINE Of(s) == [student |-> s, lesson |-> l, date |-> d]
           K == {Of(s) : s \in DOMAIN e}
           f == [s \in DOMAIN e |-> Of(s)]
<1>1. DOMAIN e \subseteq Students /\ \A s \in DOMAIN e : e[s] \in Statuses
  BY DEF Registers
<1>2. K \subseteq Keys /\ \A k \in K : k.student \in DOMAIN e
  BY <1>1 DEF Keys
<1>3. register' = [k \in Records \cup K |-> IF k \in K THEN e[k.student] ELSE register[k]]
  BY DEF RecordClass
<1>4. IsFiniteSet(K)
  <2>1. IsFiniteSet(DOMAIN e)
    BY <1>1, FS_Subset
  <2>2. f \in Surjection(DOMAIN e, K)
    BY DEF Surjection
  <2> HIDE DEF f, K
  <2> QED
    BY <2>1, <2>2, FS_Surjection
<1> HIDE DEF K
<1>5. Records' = Records \cup K
  BY <1>3 DEF Records
<1>6. \A k \in Records' : register'[k] \in Statuses
  BY <1>1, <1>2, <1>3, <1>5 DEF ReportInv, RegisterTypeOK
<1>7. IsFiniteSet(Records')
  BY <1>4, <1>5, FS_Union DEF ReportInv
<1>8. alert' = alert
  BY DEF RecordClass
<1>9. Records' \subseteq Keys
  BY <1>2, <1>5 DEF ReportInv, RegisterTypeOK
<1> QED
  BY <1>6, <1>7, <1>8, <1>9 DEF ReportInv, RegisterTypeOK

LEMMA ReportInvNext ==
  ASSUME IsFiniteSet(Students)
  PROVE  ReportInv /\ [(Next /\ UNCHANGED registerVars) \/ RegisterStep]_reportVars => ReportInv'
<1>1. ASSUME ReportInv, UNCHANGED registerVars
      PROVE  ReportInv'
  BY <1>1 DEF registerVars, ReportInv, RegisterTypeOK, Records
<1>2. ASSUME ReportInv, NEW k \in Records, NEW status \in Statuses, CorrectAttendance(k, status)
      PROVE  ReportInv'
  BY <1>2 DEF CorrectAttendance, ReportInv, RegisterTypeOK, Records
<1>3. ASSUME ReportInv, NEW day \in Dates, AbsenceStreakAlert(day)
      PROVE  ReportInv'
  <2>1. PICK S \in SUBSET LiveStudents : alert' = [day |-> day, students |-> S]
    BY <1>3 DEF AbsenceStreakAlert
  <2>2. alert' \in [day : Dates \cup {0}, students : SUBSET Students]
    BY <2>1 DEF LiveStudents
  <2>3. register' = register
    BY <1>3 DEF AbsenceStreakAlert
  <2> QED
    BY <1>3, <2>2, <2>3 DEF ReportInv, RegisterTypeOK, Records
<1> QED
  BY <1>1, <1>2, <1>3, RecordKeeps DEF RegisterStep, reportVars

LEMMA ReportInvariance ==
  ASSUME IsFiniteSet(Students)
  PROVE  ReportSpec => []ReportInv
<1>1. ReportInv /\ [(Next /\ UNCHANGED registerVars) \/ RegisterStep]_reportVars => ReportInv'
  BY ReportInvNext
<1> QED
  BY <1>1, ReportInit, PTL DEF ReportSpec

(* The register and the alert are within their types.                      *)
THEOREM RegisterTypeCorrect ==
  ASSUME IsFiniteSet(Students)
  PROVE  ReportSpec => []RegisterTypeOK
<1>1. ReportInv => RegisterTypeOK
  BY DEF ReportInv
<1> QED
  BY <1>1, ReportInvariance, PTL

(* Each absence of a lesson has its student among the absentees: a student *)
(* has one record of a lesson and a day.                                   *)
LEMMA AbsencesHaveNames ==
  ASSUME ReportInv, NEW l, NEW d
  PROVE  CountOf(LessonRecords(l, d), {"Absent"}) = Cardinality(Absentees(l, d))
           + Cardinality({k \in LessonRecords(l, d) : register[k] = "Absent" /\ ~Live(k.student)})
<1> DEFINE A == {k \in LessonRecords(l, d) : register[k] \in {"Absent"}}
           B == {k \in LessonRecords(l, d) : register[k] = "Absent" /\ Live(k.student)}
           C == {k \in LessonRecords(l, d) : register[k] = "Absent" /\ ~Live(k.student)}
           f == [k \in B |-> k.student]
<1>1. B \in SUBSET Records /\ C \in SUBSET Records
  BY DEF LessonRecords
<1>2. IsFiniteSet(B) /\ IsFiniteSet(C)
  <2> HIDE DEF B, C
  <2> QED
    BY <1>1, FS_Subset DEF ReportInv
<1>3. A = B \cup C /\ B \cap C = {}
  OBVIOUS
<1>4. Cardinality(A) = Cardinality(B) + Cardinality(C)
  <2> HIDE DEF A, B, C
  <2>1. Cardinality(A) = Cardinality(B) + Cardinality(C) - Cardinality(B \cap C)
    BY <1>2, <1>3, FS_Union
  <2>2. Cardinality(B \cap C) = 0 /\ Cardinality(B) \in Nat /\ Cardinality(C) \in Nat
    BY <1>2, <1>3, FS_EmptySet, FS_CardinalityType
  <2> QED
    BY <2>1, <2>2
<1>5. Absentees(l, d) = {k.student : k \in B}
  BY DEF Absentees
<1>6. f \in Bijection(B, {k.student : k \in B})
  <2>1. \A j, k \in B : j.student = k.student => j = k
    BY DEF LessonRecords, ReportInv, RegisterTypeOK, Keys
  <2> QED
    BY <2>1 DEF Bijection, Injection, Surjection, IsInjective
<1>7. Cardinality(Absentees(l, d)) = Cardinality(B)
  <2> HIDE DEF B, f
  <2> QED
    BY <1>2, <1>5, <1>6, FS_Bijection DEF ExistsBijection
<1> QED
  BY <1>4, <1>7 DEF CountOf

(* The day's summary of a class and the absentees of its lessons agree     *)
(* (getDailySummary and getAbsentees), whoever moved, was deleted or had a *)
(* record corrected in between.                                            *)
THEOREM AbsentAreNamedHolds ==
  ASSUME IsFiniteSet(Students)
  PROVE  ReportSpec => []AbsentAreNamed
<1>1. ReportInv => AbsentAreNamed
  <2> SUFFICES ASSUME ReportInv, NEW d, NEW c, Live(c), NEW l \in DOMAIN DailySummary(c, d).lessons
               PROVE  DailySummary(c, d).lessons[l].absent = CountOf(LessonRecords(l, d), {"Absent"})
    BY AbsencesHaveNames DEF AbsentAreNamed, DailySummary, NoAnswer
  <2> QED
    BY DEF DailySummary
<1> QED
  BY <1>1, ReportInvariance, PTL

(* A student's month is the same in each report.                           *)
LEMMA MonthAgrees ==
  ASSUME ReportInv, NEW s \in Students, NEW D, Live(s), Live(classOf[s])
  PROVE  ReportsAgree(s, D)
<1> DEFINE c == classOf[s]
           Of(X) == UNION {RecordsOf(x, D) : x \in X}
           class == {x \in Students : classOf[x] = c}
           subjects == {j \in Subjects : Live(j)}
           rows(j) == MonthlySheet(Nothing, c, j, D).rows[s]
<1>1. s \in LiveStudentsOf(c) /\ s \in class
  BY DEF LiveStudentsOf
<1>2. MaySee(Nothing, c, Subjects) /\ \A j : MaySee(Nothing, c, {j})
  BY RowsAssumption DEF MaySee, Rows
<1>3. /\ StudentSummary(s, D).total = Cardinality(RecordsOf(s, D))
      /\ StudentSummary(s, D).attended = CountOf(RecordsOf(s, D), {"Present", "Late"})
  BY DEF StudentSummary
<1>4. /\ Toppers(c, D).rows[s].total = Cardinality(RecordsOf(s, D))
      /\ Toppers(c, D).rows[s].attended = CountOf(RecordsOf(s, D), {"Present", "Late"})
  BY <1>1 DEF Toppers
<1>5. StudentHistory(s, D).total = Cardinality(RecordsOf(s, D))
  BY DEF StudentHistory
<1>6. ClassSummary(Nothing, c, D).total = Cardinality(Of(class))
  BY <1>2 DEF ClassSummary
<1>7. Cardinality(Of(class)) >= Cardinality(RecordsOf(s, D))
  <2>1. Of(class) \subseteq Records /\ RecordsOf(s, D) \subseteq Of(class)
    BY <1>1 DEF RecordsOf
  <2> HIDE DEF Of, class
  <2>2. IsFiniteSet(Of(class))
    BY <2>1, FS_Subset DEF ReportInv
  <2>3. /\ Cardinality(RecordsOf(s, D)) <= Cardinality(Of(class))
        /\ IsFiniteSet(RecordsOf(s, D))
    BY <2>1, <2>2, FS_Subset
  <2> QED
    BY <2>2, <2>3, FS_CardinalityType
<1>8. \A j \in subjects : rows(j) = SheetOf(s, j, D)
  BY <1>1, <1>2 DEF MonthlySheet
<1>9. UNION {rows(j)[d] : d \in D, j \in subjects} = {<<k.lesson, register[k]>> : k \in SheetsOf(s, D)}
  <2>1. \A j \in subjects, d \in D : rows(j)[d] =
          {<<k.lesson, register[k]>> : k \in {k \in RecordsOf(s, {d}) : k.lesson.subject = j}}
    BY <1>8 DEF SheetOf
  <2>2. \A k \in SheetsOf(s, D) : /\ k.lesson.subject \in subjects /\ k.date \in D
                                  /\ k \in RecordsOf(s, {k.date})
    BY DEF SheetsOf, RecordsOf, ReportInv, RegisterTypeOK, Keys, Slot
  <2>3. \A j \in subjects, d \in D : \A k \in RecordsOf(s, {d}) :
          k.lesson.subject = j => k \in SheetsOf(s, D)
    BY DEF SheetsOf, RecordsOf
  <2> HIDE DEF rows, subjects
  <2>4. ASSUME NEW x \in UNION {rows(j)[d] : d \in D, j \in subjects}
        PROVE  x \in {<<k.lesson, register[k]>> : k \in SheetsOf(s, D)}
    <3>1. PICK j \in subjects, d \in D : x \in rows(j)[d]
      OBVIOUS
    <3>2. PICK k \in RecordsOf(s, {d}) : k.lesson.subject = j /\ x = <<k.lesson, register[k]>>
      BY <2>1, <3>1
    <3> QED
      BY <2>3, <3>2
  <2>5. ASSUME NEW k \in SheetsOf(s, D)
        PROVE  <<k.lesson, register[k]>> \in UNION {rows(j)[d] : d \in D, j \in subjects}
    <3>1. PICK j \in subjects, d \in D : j = k.lesson.subject /\ d = k.date
      BY <2>2
    <3>2. k \in RecordsOf(s, {d}) /\ k.lesson.subject = j
      BY <2>2, <3>1
    <3>3. <<k.lesson, register[k]>> \in
            {<<x.lesson, register[x]>> : x \in {x \in RecordsOf(s, {d}) : x.lesson.subject = j}}
      BY <3>2
    <3>4. <<k.lesson, register[k]>> \in rows(j)[d]
      BY <2>1, <3>3
    <3> QED
      BY <3>4
  <2> QED
    BY <2>4, <2>5
<1> QED
  BY <1>3, <1>4, <1>5, <1>6, <1>7, <1>9 DEF ReportsAgree

(* What the history, the summary, the ranking, the class and the monthly   *)
(* sheets say of a student's month agrees, whichever classes the student   *)
(* was in and whichever lessons were dropped since.                        *)
THEOREM MonthsAgreeHolds ==
  ASSUME IsFiniteSet(Students)
  PROVE  ReportSpec => []MonthsAgree
<1>1. ReportInv => MonthsAgree
  <2> SUFFICES ASSUME ReportInv, NEW k \in Records, Live(k.student), Live(classOf[k.student])
               PROVE  ReportsAgree(k.student, Dates)
    BY DEF MonthsAgree
  <2>1. k.student \in Students
    BY DEF ReportInv, RegisterTypeOK, Keys
  <2> QED
    BY <2>1, MonthAgrees
<1> QED
  BY <1>1, ReportInvariance, PTL

-----------------------------------------------------------------------------
(* The alert.  What follows holds of every order the database may return a *)
(* student's records in, the latest first.                                 *)
LEMMA LeastNumber ==
  ASSUME NEW T \in SUBSET Nat, T # {}
  PROVE  \E n \in T : \A m \in T : n <= m
<1> DEFINE R == {ss \in Nat \X Nat : ss[1] < ss[2]}
<1>1. IsWellFoundedOn(R, Nat)
  BY NatLessThanWellFounded DEF OpToRel
<1> HIDE DEF R
<1>2. PICK n \in T : \A m \in T : ~ (<<m, n>> \in R)
  BY <1>1, WFMin
<1>3. \A m \in T : ~ (m < n)
  BY <1>2 DEF R
<1> QED
  BY <1>3

LEMMA GreatestNumber ==
  ASSUME NEW n \in Nat, NEW D \in SUBSET (1 .. n), D # {}
  PROVE  \E d \in D : \A e \in D : e <= d
<1> DEFINE T == {n - d : d \in D}
<1>1. T \in SUBSET Nat /\ T # {}
  <2>1. \A d \in D : n - d \in Nat
    OBVIOUS
  <2> QED
    BY <2>1
<1> HIDE DEF T
<1>2. PICK m \in T : \A k \in T : m <= k
  BY <1>1, LeastNumber
<1>3. PICK d \in D : m = n - d
  BY <1>2 DEF T
<1>4. ASSUME NEW e \in D PROVE e <= d
  <2>1. m <= n - e
    BY <1>2 DEF T
  <2> QED
    BY <1>3, <2>1
<1> QED
  BY <1>4

Attended(k) == register[k] \in {"Present", "Late"}

LEMMA LastAttendedIsLast ==
  ASSUME ReportInv, NEW s, NEW day \in Dates
  PROVE  LET last == LastAttended(s, day)
             K == RecordsOf(s, 1..day) IN
           /\ last \in 0..day
           /\ \A k \in K : Attended(k) => k.date <= last
           /\ last = 0 \/ \E k \in K : Attended(k) /\ k.date = last
<1> DEFINE K == RecordsOf(s, 1..day)
           D == {k.date : k \in {k \in K : Attended(k)}}
<1>1. day \in Nat \ {0}
  BY DatesAssumption
<1>2. D \in SUBSET (1 .. day) /\ \A d \in D : d \in 0 .. day
  BY <1>1 DEF RecordsOf
<1>3. LastAttended(s, day) = IF D = {} THEN 0 ELSE CHOOSE d \in D : \A e \in D : e <= d
  BY DEF LastAttended, Attended
<1>4. \A k \in K : Attended(k) => k.date \in D
  OBVIOUS
<1>5. \A d \in D : \E k \in K : Attended(k) /\ k.date = d
  OBVIOUS
<1> HIDE DEF D
<1>6. CASE D = {}
  BY <1>1, <1>3, <1>4, <1>6
<1>7. CASE D # {}
  <2>1. \E d \in D : \A e \in D : e <= d
    BY <1>1, <1>2, <1>7, GreatestNumber
  <2>2. LastAttended(s, day) \in D /\ \A e \in D : e <= LastAttended(s, day)
    BY <1>3, <1>7, <2>1
  <2>3. LastAttended(s, day) \in 0 .. day
    BY <1>2, <2>2
  <2> QED
    BY <1>4, <1>5, <2>2, <2>3
<1> QED
  BY <1>6, <1>7

LEMMA OrderIsOfAll ==
  ASSUME NEW K, IsFiniteSet(K), NEW q \in Orders(K)
  PROVE  /\ DOMAIN q = 1 .. Cardinality(K) /\ Cardinality(K) \in Nat
         /\ \A i \in DOMAIN q : q[i] \in K
         /\ \A i, j \in DOMAIN q : i # j => q[i] # q[j]
         /\ \A i, j \in DOMAIN q : i < j => q[i].date >= q[j].date
         /\ \A k \in K : \E i \in DOMAIN q : q[i] = k
<1> DEFINE n == Cardinality(K)
<1>1. n \in Nat
  BY FS_CardinalityType
<1>2. q \in [1 .. n -> K] /\ \A i, j \in DOMAIN q : i < j => q[i] # q[j] /\ q[i].date >= q[j].date
  BY DEF Orders
<1>3. \A i, j \in 1 .. n : i # j => q[i] # q[j]
  BY <1>1, <1>2
<1>4. q \in Injection(1 .. n, K)
  BY <1>2, <1>3 DEF Injection, IsInjective
<1>5. Cardinality(1 .. n) = n
  BY <1>1, FS_Interval
<1>6. q \in Surjection(1 .. n, K)
  BY <1>4, <1>5, FS_Injection
<1> QED
  BY <1>1, <1>2, <1>3, <1>6 DEF Surjection

(* A streak is made of absences since the last day attended, and has all   *)
(* of those after it.                                                      *)
LEMMA StreakIsBounded ==
  ASSUME ReportInv, NEW s, NEW day \in Dates, NEW n \in StreaksOf(s, day)
  PROVE  LET last == LastAttended(s, day) IN
           /\ n \in Nat
           /\ Missed(s, last..day) \in Nat /\ n <= Missed(s, last..day)
           /\ Missed(s, last + 1..day) \in Nat /\ Missed(s, last + 1..day) <= n
<1> DEFINE last == LastAttended(s, day)
           K == RecordsOf(s, 1..day)
           since == {k \in RecordsOf(s, last..day) : register[k] \in {"Absent"}}
           after == {k \in RecordsOf(s, last + 1..day) : register[k] \in {"Absent"}}
<1>1. /\ day \in Nat \ {0} /\ K \in SUBSET Records
      /\ \A k \in Records : k.date \in Nat \ {0} /\ k.date \in Dates
  BY DatesAssumption DEF RecordsOf, ReportInv, RegisterTypeOK, Keys
<1>2. RecordsOf(s, {d \in Dates : d <= day}) = K
  BY <1>1, DatesAssumption DEF RecordsOf
<1>3. IsFiniteSet(K)
  BY <1>1, FS_Subset DEF ReportInv
<1>4. PICK q \in Orders(K) : n = StreakLength(q)
  BY <1>2 DEF StreaksOf
<1>5. /\ last \in 0..day
      /\ \A k \in K : Attended(k) => k.date <= last
      /\ last = 0 \/ \E k \in K : Attended(k) /\ k.date = last
  BY LastAttendedIsLast
<1>6. /\ since \in SUBSET K /\ after \in SUBSET K
      /\ \A k \in K : register[k] = "Absent" /\ k.date >= last => k \in since
      /\ \A k \in after : register[k] = "Absent" /\ k.date > last
  BY <1>1, <1>5 DEF RecordsOf
<1> HIDE DEF K, last, since, after
<1> DEFINE N == DOMAIN q
           T == {i \in N : register[q[i]] = "Absent" /\ \A j \in N : Attended(q[j]) => i < j}
           f == [i \in T |-> q[i]]
           g == [k \in after |-> CHOOSE i \in N : q[i] = k]
<1>7. /\ N = 1 .. Cardinality(K) /\ Cardinality(K) \in Nat
      /\ \A i \in N : q[i] \in K
      /\ \A i, j \in N : i # j => q[i] # q[j]
      /\ \A i, j \in N : i < j => q[i].date >= q[j].date
      /\ \A k \in K : \E i \in N : q[i] = k
  BY <1>3, OrderIsOfAll
<1>8. n = Cardinality(T)
  BY <1>4 DEF StreakLength, StopsWindow, Attended
<1>9. IsFiniteSet(since) /\ IsFiniteSet(after) /\ IsFiniteSet(T)
  <2>1. IsFiniteSet(N)
    BY <1>7, FS_Interval
  <2> HIDE DEF N
  <2>2. T \in SUBSET N
    OBVIOUS
  <2> HIDE DEF T
  <2> QED
    BY <1>3, <1>6, <2>1, <2>2, FS_Subset
<1>10. \A i \in N : i \in Int /\ q[i].date \in Int
  BY <1>1, <1>7
<1>11. last \in Int
  BY <1>5
<1>12. f \in Injection(T, since)
  <2>1. ASSUME NEW i \in T PROVE q[i] \in since
    <3>1. q[i].date >= last
      <4>1. CASE last = 0
        BY <1>1, <1>7, <4>1
      <4>2. CASE \E k \in K : Attended(k) /\ k.date = last
        <5>1. PICK j \in N : Attended(q[j]) /\ q[j].date = last
          BY <1>7, <4>2
        <5> QED
          BY <1>7, <5>1
      <4> QED
        BY <1>5, <4>1, <4>2
    <3> QED
      BY <1>6, <1>7, <3>1
  <2>2. \A i, j \in T : i # j => q[i] # q[j]
    BY <1>7
  <2> HIDE DEF T
  <2> QED
    BY <2>1, <2>2 DEF Injection, IsInjective
<1>13. g \in Injection(after, T)
  <2>1. \A k \in after : g[k] \in N /\ q[g[k]] = k
    BY <1>6, <1>7
  <2>2. ASSUME NEW i \in N, q[i] \in after PROVE i \in T
    <3>1. ASSUME NEW j \in N, Attended(q[j]) PROVE i < j
      <4>1. q[j].date < q[i].date
        BY <1>5, <1>6, <1>7, <1>10, <1>11, <2>2, <3>1
      <4> QED
        BY <1>7, <1>10, <4>1
    <3> QED
      BY <1>6, <2>2, <3>1
  <2>3. \A k \in after : g[k] \in T
    BY <2>1, <2>2
  <2>4. DOMAIN g = after /\ g = [k \in after |-> g[k]]
    OBVIOUS
  <2> HIDE DEF T, N, g
  <2> QED
    BY <2>1, <2>3, <2>4 DEF Injection, IsInjective
<1>14. Cardinality(T) <= Cardinality(since) /\ Cardinality(after) <= Cardinality(T)
  <2> HIDE DEF T, f, g
  <2> QED
    BY <1>9, <1>12, <1>13, FS_Injection
<1>15. Cardinality(T) \in Nat /\ Cardinality(since) \in Nat /\ Cardinality(after) \in Nat
  <2> HIDE DEF T
  <2> QED
    BY <1>9, FS_CardinalityType
<1>16. Missed(s, last..day) = Cardinality(since) /\ Missed(s, last + 1..day) = Cardinality(after)
  BY DEF Missed, CountOf, since, after
<1> QED
  BY <1>8, <1>14, <1>15, <1>16 DEF last

(* Whom the hourly job names missed AlertAt lessons since the last day     *)
(* attended, and whoever missed as many after it is named, whatever the    *)
(* register holds and in whatever order the lessons of a day are returned. *)
THEOREM AlertsFollowTheRuleHolds ==
  ASSUME IsFiniteSet(Students)
  PROVE  ReportSpec => AlertsFollowTheRule
<1> DEFINE Ruled ==
      alert' # alert => \A s \in LiveStudents :
        LET day == alert'.day
            last == LastAttended(s, day) IN
          /\ s \in alert'.students => Missed(s, last..day) >= AlertAt
          /\ Missed(s, last + 1..day) >= AlertAt => s \in alert'.students
<1>1. ASSUME ReportInv, NEW day \in Dates, AbsenceStreakAlert(day)
      PROVE  Ruled
  <2>1. PICK S \in SUBSET LiveStudents :
          /\ \A s \in LiveStudents : \E n \in StreaksOf(s, day) : s \in S <=> n >= AlertAt
          /\ alert' = [day |-> day, students |-> S]
    BY <1>1 DEF AbsenceStreakAlert
  <2>2. alert'.day = day /\ alert'.students = S
    BY <2>1
  <2>3. ASSUME NEW s \in LiveStudents
        PROVE  LET last == LastAttended(s, day) IN
                 /\ s \in S => Missed(s, last..day) >= AlertAt
                 /\ Missed(s, last + 1..day) >= AlertAt => s \in S
    <3>1. PICK n \in StreaksOf(s, day) : s \in S <=> n >= AlertAt
      BY <2>1
    <3> QED
      BY <1>1, <3>1, StreakIsBounded, AlertAssumption
  <2> QED
    BY <2>2, <2>3
<1>2. ReportInv /\ [(Next /\ UNCHANGED registerVars) \/ RegisterStep]_reportVars
        => [Ruled]_reportVars
  <2> SUFFICES ASSUME ReportInv, [(Next /\ UNCHANGED registerVars) \/ RegisterStep]_reportVars
               PROVE  [Ruled]_reportVars
    OBVIOUS
  <2>1. CASE alert' = alert
    BY <2>1
  <2>2. CASE \E day \in Dates : AbsenceStreakAlert(day)
    BY <1>1, <2>2
  <2> QED
    BY <2>1, <2>2 DEF RegisterStep, registerVars, reportVars, RecordClass, CorrectAttendance
<1>3. ReportSpec => [][Ruled]_reportVars
  <2> HIDE DEF Ruled
  <2> QED
    BY <1>2, ReportInvariance, PTL DEF ReportSpec
<1> QED
  BY <1>3 DEF AlertsFollowTheRule

-----------------------------------------------------------------------------
(* The absences that count from the i-th record on: those before anything  *)
(* attended.                                                               *)
Run(q, i) ==
  {j \in i .. Len(q) : register[q[j]] = "Absent" /\ \A k \in i .. j : ~ Attended(q[k])}

(* What one step of the walk makes of the rest of it.                      *)
WalkStep(q, w, i) ==
  IF i > Len(q) \/ register[q[i]] \in {"Present", "Late"} THEN 0
  ELSE w[i + 1] + (IF register[q[i]] = "Absent" THEN 1 ELSE 0)

LEMMA RunsGrow ==
  ASSUME NEW q, Len(q) \in Nat, NEW i \in 1 .. Len(q) + 1
  PROVE  /\ Cardinality(Run(q, i)) \in Nat
         /\ i > Len(q) \/ Attended(q[i]) => Cardinality(Run(q, i)) = 0
         /\ ~ (i > Len(q) \/ Attended(q[i])) =>
              Cardinality(Run(q, i)) = Cardinality(Run(q, i + 1))
                                         + (IF register[q[i]] = "Absent" THEN 1 ELSE 0)
<1> DEFINE n == Len(q)
<1>0. i \in Nat /\ i + 1 \in Nat
  OBVIOUS
<1>1. ASSUME NEW m \in Nat
      PROVE  IsFiniteSet(Run(q, m)) /\ Cardinality(Run(q, m)) \in Nat
  <2>1. IsFiniteSet(m .. n)
    BY FS_Interval
  <2>2. Run(q, m) \in SUBSET (m .. n)
    BY DEF Run
  <2> QED
    BY <2>1, <2>2, FS_Subset, FS_CardinalityType
<1>2. CASE i > n \/ Attended(q[i])
  <2>1. Run(q, i) = {}
    BY <1>2 DEF Run
  <2> QED
    BY <1>2, <2>1, FS_EmptySet
<1>3. CASE ~ (i > n \/ Attended(q[i]))
  <2>1. i \in 1 .. n /\ i \notin Run(q, i + 1)
    BY <1>3 DEF Run
  <2>2. Run(q, i) = Run(q, i + 1) \cup (IF register[q[i]] = "Absent" THEN {i} ELSE {})
    <3>1. ASSUME NEW j \in i + 1 .. n
          PROVE  (\A k \in i .. j : ~ Attended(q[k])) <=> (\A k \in i + 1 .. j : ~ Attended(q[k]))
      <4>1. \A k \in i .. j : k = i \/ k \in i + 1 .. j
        BY <2>1
      <4> QED
        BY <1>3, <2>1, <4>1
    <3>2. \A k \in i .. i : k = i
      BY <2>1
    <3>3. \A j \in i .. n : j = i \/ j \in i + 1 .. n
      BY <2>1
    <3>4. \A j \in i + 1 .. n : j \in i .. n /\ j # i
      BY <2>1
    <3> QED
      BY <1>3, <2>1, <3>1, <3>2, <3>3, <3>4 DEF Run
  <2>3. Cardinality(Run(q, i + 1) \cup {i}) = Cardinality(Run(q, i + 1)) + 1
    BY <1>0, <1>1, <2>1, FS_AddElement
  <2> QED
    <3>1. CASE register[q[i]] = "Absent"
      BY <1>0, <1>1, <1>3, <2>2, <2>3, <3>1
    <3>2. CASE register[q[i]] # "Absent"
      <4>1. Run(q, i) = Run(q, i + 1) /\ Cardinality(Run(q, i + 1)) \in Nat
        BY <1>0, <1>1, <2>2, <3>2
      <4> QED
        BY <1>3, <3>2, <4>1
    <3> QED
      BY <3>1, <3>2
<1> QED
  BY <1>2, <1>3

(* However the walk is computed, it counts the run at the front.           *)
LEMMA WalkCounts ==
  ASSUME NEW q, Len(q) \in Nat,
         NEW w, w = [i \in 1 .. Len(q) + 1 |-> WalkStep(q, w, i)]
  PROVE  w[1] = Cardinality(Run(q, 1))
<1> DEFINE n == Len(q)
           D == {i \in 1 .. n + 1 : w[i] # Cardinality(Run(q, i))}
<1>1. SUFFICES ASSUME D # {} PROVE FALSE
  BY <1>1
<1>a. D \in SUBSET (1 .. n + 1) /\ n + 1 \in Nat
  OBVIOUS
<1>2. PICK i \in D : \A j \in D : j <= i
  <2> HIDE DEF D
  <2> QED
    BY <1>1, <1>a, GreatestNumber
<1>3. i \in 1 .. n + 1 /\ w[i] = WalkStep(q, w, i)
  OBVIOUS
<1>4. CASE i > n \/ Attended(q[i])
  BY <1>2, <1>3, <1>4, RunsGrow DEF WalkStep, Attended
<1>5. CASE ~ (i > n \/ Attended(q[i]))
  <2>1. i + 1 \in 1 .. n + 1 /\ ~ (i + 1 <= i)
    BY <1>3, <1>5
  <2>2. w[i + 1] = Cardinality(Run(q, i + 1))
    BY <1>2, <2>1
  <2> QED
    BY <1>2, <1>3, <1>5, <2>2, RunsGrow DEF WalkStep, Attended
<1> QED
  BY <1>4, <1>5

LEMMA WalkExists ==
  ASSUME NEW q, Len(q) \in Nat
  PROVE  \E w : w = [i \in 1 .. Len(q) + 1 |-> WalkStep(q, w, i)]
<1> DEFINE n == Len(q)
           w == [i \in 1 .. n + 1 |-> Cardinality(Run(q, i))]
<1>0. \A i \in 1 .. n + 1 : w[i] = Cardinality(Run(q, i))
  OBVIOUS
<1>a. DOMAIN w = 1 .. n + 1 /\ w = [i \in 1 .. n + 1 |-> w[i]]
  OBVIOUS
<1> HIDE DEF w
<1>1. ASSUME NEW i \in 1 .. n + 1
      PROVE  w[i] = WalkStep(q, w, i)
  <2>1. CASE i > n \/ Attended(q[i])
    BY <1>0, <2>1, RunsGrow DEF WalkStep, Attended
  <2>2. CASE ~ (i > n \/ Attended(q[i]))
    <3>1. i + 1 \in 1 .. n + 1
      BY <2>2
    <3>2. w[i + 1] = Cardinality(Run(q, i + 1))
      BY <1>0, <3>1
    <3> QED
      BY <1>0, <2>2, <3>2, RunsGrow DEF WalkStep, Attended
  <2> QED
    BY <2>1, <2>2
<1>2. w = [i \in 1 .. n + 1 |-> WalkStep(q, w, i)]
  BY <1>1, <1>a
<1> QED
  BY <1>2

(* calculateConsecutiveAbsences and the statement of the hourly job give   *)
(* the same count of the same records.                                     *)
LEMMA CountsAgree ==
  ASSUME ReportInv, NEW s, NEW q \in Orders(RecordsOf(s, Dates))
  PROVE  StreakLength(q) = ConsecutiveAbsences(q)
<1> DEFINE K == RecordsOf(s, Dates)
           n == Cardinality(K)
<1>1. IsFiniteSet(K)
  BY FS_Subset DEF ReportInv, RecordsOf
<1>2. n \in Nat /\ q \in [1 .. n -> K]
  BY <1>1, FS_CardinalityType DEF Orders
<1>3. Len(q) = n /\ DOMAIN q = 1 .. n
  <2> HIDE DEF K, n
  <2> QED
    BY <1>2
<1>4. ConsecutiveAbsences(q) = Cardinality(Run(q, 1))
  <2> DEFINE w == CHOOSE w : w = [i \in 1 .. Len(q) + 1 |-> WalkStep(q, w, i)]
  <2>1. w = [i \in 1 .. Len(q) + 1 |-> WalkStep(q, w, i)]
    BY <1>2, <1>3, WalkExists
  <2>2. ConsecutiveAbsences(q) = w[1]
    BY DEF ConsecutiveAbsences, WalkStep
  <2> HIDE DEF w
  <2> QED
    BY <1>2, <1>3, <2>1, <2>2, WalkCounts
<1>5. StreakLength(q) = Cardinality(Run(q, 1))
  <2> DEFINE stops == {i \in DOMAIN q : StopsWindow(register[q[i]])}
             T == {i \in DOMAIN q : register[q[i]] = "Absent" /\ \A j \in stops : i < j}
  <2>1. ASSUME NEW i \in 1 .. n
        PROVE  (\A j \in stops : i < j) <=> (\A k \in 1 .. i : ~ Attended(q[k]))
    <3>1. \A j \in stops : j \in 1 .. n /\ Attended(q[j])
      BY <1>3 DEF StopsWindow, Attended
    <3>2. \A j \in 1 .. n : Attended(q[j]) => j \in stops
      BY <1>3 DEF StopsWindow, Attended
    <3> HIDE DEF stops
    <3> QED
      BY <1>2, <3>1, <3>2
  <2>2. T = Run(q, 1)
    <3> HIDE DEF stops
    <3> QED
      BY <1>3, <2>1 DEF Run
  <2> QED
    BY <2>2 DEF StreakLength
<1> QED
  BY <1>4, <1>5

(* The hourly job and the rule count the same absences of every student,   *)
(* in whatever order the lessons of a day are returned                     *)
(* (cron.service.ts and streakCalculation.ts): what a walk from the last   *)
(* record back finds the statement with its window finds, for any register.*)
THEOREM JobCountsAsTheRuleHolds ==
  ASSUME IsFiniteSet(Students)
  PROVE  ReportSpec => []JobCountsAsTheRule
<1>1. ReportInv => JobCountsAsTheRule
  <2> SUFFICES ASSUME ReportInv, NEW s \in Students
               PROVE  /\ \A q \in Orders(RecordsOf(s, Dates)) :
                           StreakLength(q) = ConsecutiveAbsences(q)
                      /\ \A d \in Dates : (\A e \in Dates : e <= d) =>
                           StreaksOf(s, d) = StreaksByTheRule(s)
    BY DEF JobCountsAsTheRule
  <2>1. \A q \in Orders(RecordsOf(s, Dates)) : StreakLength(q) = ConsecutiveAbsences(q)
    BY CountsAgree
  <2>2. ASSUME NEW d \in Dates, \A e \in Dates : e <= d
        PROVE  StreaksOf(s, d) = StreaksByTheRule(s)
    <3>1. {e \in Dates : e <= d} = Dates
      BY <2>2
    <3> QED
      BY <2>1, <3>1 DEF StreaksOf, StreaksByTheRule
  <2> QED
    BY <2>1, <2>2
<1> QED
  BY <1>1, ReportInvariance, PTL

(* A guardian is shown the child's timetable whole, and every lesson of    *)
(* register that is still held (childAttendance and childTimetable of the  *)
(* guardian portal), for any register, while one Admin is at work on the   *)
(* records: the inner join with the school periods loses no lesson that is *)
(* still held.                                                             *)
THEOREM GuardiansSeeTheLessonsForOneAdmin ==
  ASSUME NEW a, Admins = {a}
  PROVE  ReportSpec => []GuardiansSeeTheLessons
<1>1. Init => ReferenceInv(a)
  BY ReferenceInit
<1>2. ASSUME ReferenceInv(a),
             [(Next /\ UNCHANGED registerVars) \/ RegisterStep]_reportVars
      PROVE  ReferenceInv(a)'
  <2>1. CASE Next
    BY <1>2, <2>1, ReferenceNext
  <2>2. CASE UNCHANGED vars
    BY <1>2, <2>2, ReferenceNext
  <2>3. CASE RegisterStep
    BY <2>2, <2>3 DEF RegisterStep, RecordClass, CorrectAttendance, AbsenceStreakAlert
  <2> QED
    BY <1>2, <2>1, <2>2, <2>3 DEF reportVars
<1>3. ReferenceInv(a) => GuardiansSeeTheLessons
  BY DEF ReferenceInv, ReferencesResolve, GuardiansSeeTheLessons, ChildAttendance,
         ChildTimetable
<1> QED
  BY <1>1, <1>2, <1>3, PTL DEF ReportSpec
=============================================================================
