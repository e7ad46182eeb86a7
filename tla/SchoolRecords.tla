--------------------------- MODULE SchoolRecords ---------------------------
(***************************************************************************)
(* The records a school is built from, batches, classes, subjects,         *)
(* teachers, students and school periods, and the timetable that refers to *)
(* all of them: modules/batches, classes, subjects, school-periods and     *)
(* timetable, bulkSoftDelete, copyTimetable of the sessions, and whoever   *)
(* writes a student's class: modules/students, the imports, promoteClass   *)
(* and the promotions of the sessions with their rollback.                 *)
(*                                                                         *)
(* Rows are deleted softly, so no foreign key holds a reference together:  *)
(* who creates a row looks for what it refers to, who deletes one looks    *)
(* for what refers to it, and each then writes in a statement of its own.  *)
(*                                                                         *)
(* Names, labels, codes and years are left out, and with them the updates  *)
(* of a batch, a class and a subject, which write nothing else that is     *)
(* read here.  So is the status of students and of sessions: promotions    *)
(* take some of the students they might, Promotions says which.            *)
(***************************************************************************)
EXTENDS Integers, FiniteSets

CONSTANTS
  Batches, Classes, Subjects, Teachers, Students,   \* ids, most not in use yet
  BatchOf,        \* the batch a class is created in
  SessionOf,      \* classes.session_id
  ShapeOf,        \* a class's level and section
  Days, Numbers,  \* timeslots.day_of_week, school_periods.period_number
  Times,          \* the times of day a period may start or end at
  Admins,         \* one request in flight each
  Nowhere, Nothing

Rows == Batches \cup Classes \cup Subjects \cup Teachers \cup Students
(* What one request may delete: rows of one table.                         *)
Selections ==
  UNION {SUBSET T : T \in {Batches, Classes, Subjects, Teachers, Students}} \ {{}}

ASSUME RowsAssumption ==
  /\ LET T == <<Batches, Classes, Subjects, Teachers, Students>> IN
       \A i, j \in 1..5 : i # j => T[i] \cap T[j] = {}
  /\ Nowhere \notin Rows /\ Nothing \notin Rows
  /\ Nothing \notin Numbers

ASSUME ClassesAssumption ==
  BatchOf \in [Classes -> Batches] /\ Times \subseteq Int

VARIABLES
  state,      \* of each row: none, live or deleted
  classOf,    \* students.class_id
  snapshots,  \* of promotion_previews and promotion_logs: students' classes
  teaches,    \* the users with the Teacher role
  periods,    \* school_periods: start and end of the configured numbers
  slots,      \* timeslots that are not deleted
  req

recordVars == <<state, classOf, snapshots, teaches>>
tableVars == <<periods, slots>>
schoolVars == <<recordVars, tableVars>>
vars == <<schoolVars, req>>

Slot == [class : Classes, subject : Subjects, teacher : Teachers, day : Days, number : Numbers]
Spans == {t \in Times \X Times : t[1] < t[2]}
Configured == DOMAIN periods
Sessions == {SessionOf[c] : c \in Classes}
(* Some students and a class for each.                                     *)
Placings == UNION {[some -> Classes] : some \in SUBSET Students}

Idle == [op |-> "idle"]
Live(x) == state[x] = "live"

Init ==
  /\ state = [x \in Rows |-> "none"]
  /\ classOf = [s \in Students |-> Nowhere]
  /\ snapshots = {}
  /\ teaches = {}
  /\ \E t \in Spans : periods = [n \in Numbers |-> t]
  /\ slots = {}
  /\ req = [a \in Admins |-> Idle]

Begin(a, r) == /\ req[a] = Idle /\ req' = [req EXCEPT ![a] = r]
               /\ UNCHANGED schoolVars
End(a) == req' = [req EXCEPT ![a] = Idle]

(* A refusal, an error or a restart ends a request where it is.            *)
EndRequest(a) == req[a] # Idle /\ End(a) /\ UNCHANGED schoolVars

(***************************************************************************)
(* Creating rows                                                           *)
(***************************************************************************)
CreateFree(a, x) ==
  /\ x \in Batches \cup Subjects \cup Teachers
  /\ state[x] = "none" /\ req[a] = Idle
  /\ state' = [state EXCEPT ![x] = "live"]
  /\ teaches' = IF x \in Teachers THEN teaches \cup {x} ELSE teaches
  /\ UNCHANGED <<classOf, snapshots, tableVars, req>>

StartCreateClass(a, c) ==
  /\ state[c] = "none" /\ Live(BatchOf[c])
  /\ Begin(a, [op |-> "class", class |-> c])

(* idx_classes_session_unique                                              *)
ShapeFree(c) == \A d \in Classes \ {c} :
  Live(d) => <<BatchOf[d], SessionOf[d], ShapeOf[d]>> # <<BatchOf[c], SessionOf[c], ShapeOf[c]>>

CreateClass(a) ==
  /\ req[a].op = "class"
  /\ state[req[a].class] = "none" /\ ShapeFree(req[a].class)
  /\ state' = [state EXCEPT ![req[a].class] = "live"]
  /\ End(a)
  /\ UNCHANGED <<classOf, snapshots, teaches, tableVars>>

(* createStudent and updateStudent: the class is looked up, for a new      *)
(* student its batch as well.  An update that names no class writes back   *)
(* the one it read, and looks for nothing.                                 *)
StartSeat(a, s, c) ==
  /\ \/ state[s] = "none" /\ c \in Classes /\ Live(c) /\ Live(BatchOf[c])
     \/ Live(s) /\ (c = classOf[s] \/ (c \in Classes /\ Live(c)))
  /\ Begin(a, [op |-> "seat", student |-> s, class |-> c, new |-> state[s] = "none"])

Seat(a) ==
  /\ req[a].op = "seat"
  /\ LET s == req[a].student IN
       /\ req[a].new = (state[s] = "none")
       /\ state' = IF req[a].new THEN [state EXCEPT ![s] = "live"] ELSE state
       /\ classOf' = [classOf EXCEPT ![s] = req[a].class]
  /\ End(a)
  /\ UNCHANGED <<snapshots, teaches, tableVars>>

(* confirmImport: the students of a file have a batch and no class.        *)
ImportStudent(a, s) ==
  /\ state[s] = "none" /\ req[a] = Idle
  /\ state' = [state EXCEPT ![s] = "live"]
  /\ UNCHANGED <<classOf, snapshots, teaches, tableVars, req>>

UpdateTeacherRole(a, t, is) ==
  /\ req[a] = Idle
  /\ Live(t)
  /\ teaches' = IF is THEN teaches \cup {t} ELSE teaches \ {t}
  /\ UNCHANGED <<state, classOf, snapshots, tableVars, req>>

(***************************************************************************)
(* Moving students                                                         *)
(***************************************************************************)
LiveStudentsOf(c) == {s \in Students : Live(s) /\ classOf[s] = c}

Placed(m) == [s \in Students |-> IF s \in DOMAIN m THEN m[s] ELSE classOf[s]]

(* promoteClass: the Active students of a class move on together, or leave *)
(* it as graduates.                                                        *)
StartPromote(a, c, to) ==
  /\ Live(c) /\ c # to
  /\ to = Nowhere \/ (to \in Classes /\ Live(to))
  /\ Begin(a, [op |-> "promote", from |-> c, to |-> to])

Promote(a, some) ==
  /\ req[a].op = "promote"
  /\ some \subseteq LiveStudentsOf(req[a].from)
  /\ classOf' = Placed([s \in some |-> req[a].to])
  /\ End(a)
  /\ UNCHANGED <<state, snapshots, teaches, tableVars>>

(* transitionPreview keeps where the Active students of a session are; of  *)
(* none, nothing comes.                                                    *)
PreviewTransition(a, from, some) ==
  /\ req[a] = Idle
  /\ some # {}
  /\ \A s \in some : /\ Live(s) /\ classOf[s] \in Classes /\ SessionOf[classOf[s]] = from
                     /\ Live(classOf[s]) /\ Live(BatchOf[classOf[s]])
  /\ snapshots' = snapshots \cup {[s \in some |-> classOf[s]]}
  /\ UNCHANGED <<state, classOf, teaches, tableVars, req>>

(* transitionCommit, of some students of a preview, deleted ones included: *)
(* each to a class of the level and section left, in another session and   *)
(* in the batch that the request says.                                     *)
LeadsOn(p, m, to) ==
  \A s \in DOMAIN m :
    /\ s \in DOMAIN p /\ SessionOf[p[s]] # to
    /\ SessionOf[m[s]] = to /\ ShapeOf[m[s]] = ShapeOf[p[s]]

StartTransition(a, m) ==
  /\ \E p \in snapshots, to \in Sessions : LeadsOn(p, m, to)
  /\ \A s \in DOMAIN m : Live(m[s])
  /\ Begin(a, [op |-> "transition", placing |-> m])

Transition(a) ==
  /\ req[a].op = "transition"
  /\ classOf' = Placed(req[a].placing)
  /\ End(a)
  /\ UNCHANGED <<state, snapshots, teaches, tableVars>>

(* rollbackPromotion puts a whole snapshot back, whatever has become of    *)
(* its students and classes.  A commit may name no student: any preview    *)
(* can become a log.                                                       *)
RollbackPromotion(a, p) ==
  /\ req[a] = Idle /\ p \in snapshots
  /\ classOf' = Placed(p)
  /\ UNCHANGED <<state, snapshots, teaches, tableVars, req>>

(***************************************************************************)
(* Deleting rows                                                           *)
(***************************************************************************)

(* What each deletion looks for: a batch for classes, a class for          *)
(* students, a subject and a teacher for timeslots.                        *)
InUseByRecords(x) ==
  \/ x \in Batches /\ \E c \in Classes : BatchOf[c] = x /\ Live(c)
  \/ x \in Classes /\ LiveStudentsOf(x) # {}
InUseByOthers(x) ==
  \/ x \in Batches /\ \E c \in Classes : BatchOf[c] = x /\ Live(c)
  \/ \E l \in slots : l.subject = x \/ l.teacher = x
InUse(x) ==
  \/ x \in Batches /\ \E c \in Classes : BatchOf[c] = x /\ Live(c)
  \/ x \in Classes /\ LiveStudentsOf(x) # {}
  \/ \E l \in slots : l.subject = x \/ l.teacher = x

(* bulkSoftDelete of the rows of one table, in any order, and the single   *)
(* deletions, which are that of one row.                                   *)
StartDelete(a, X) ==
  Begin(a, [op |-> "delete", rest |-> X, now |-> Nothing])

PassRow(a, x) ==
  /\ req[a].op = "delete" /\ req[a].now = Nothing
  /\ x \in req[a].rest
  /\ ~Live(x) \/ InUse(x)
  /\ req' = [req EXCEPT ![a].rest = @ \ {x}]
  /\ UNCHANGED schoolVars

PickRow(a, x) ==
  /\ req[a].op = "delete" /\ req[a].now = Nothing
  /\ x \in req[a].rest
  /\ Live(x) /\ ~InUse(x)
  /\ req' = [req EXCEPT ![a].rest = @ \ {x}, ![a].now = x]
  /\ UNCHANGED schoolVars

DeleteRow(a) ==
  /\ req[a].op = "delete" /\ req[a].now # Nothing
  /\ state' = [state EXCEPT ![req[a].now] = "deleted"]
  /\ req' = [req EXCEPT ![a].now = Nothing]
  /\ UNCHANGED <<classOf, snapshots, teaches, tableVars>>

(***************************************************************************)
(* School periods                                                          *)
(***************************************************************************)
CreatePeriod(a, n, t) ==
  /\ req[a] = Idle
  /\ n \notin Configured
  /\ periods' = [m \in Configured \cup {n} |-> IF m = n THEN t ELSE periods[m]]
  /\ UNCHANGED <<recordVars, slots, req>>

(* The times asked for are checked together with the stored ones, and only *)
(* the ones asked for are written: side 1 is the start, side 2 the end.    *)
StartUpdatePeriod(a, n, side, t) ==
  /\ n \in Configured
  /\ [periods[n] EXCEPT ![side] = t] \in Spans
  /\ Begin(a, [op |-> "period", number |-> n, side |-> side, time |-> t])

UpdatePeriod(a) ==
  /\ req[a].op = "period"
  /\ periods' = IF req[a].number \in Configured
                  THEN [periods EXCEPT ![req[a].number][req[a].side] = req[a].time] ELSE periods
  /\ End(a)
  /\ UNCHANGED <<recordVars, slots>>

StartDeletePeriod(a, n) ==
  /\ n \in Configured /\ \A l \in slots : l.number # n
  /\ Begin(a, [op |-> "dropPeriod", number |-> n])

DeletePeriod(a) ==
  /\ req[a].op = "dropPeriod"
  /\ periods' = [m \in Configured \ {req[a].number} |-> periods[m]]
  /\ End(a)
  /\ UNCHANGED <<recordVars, slots>>

(***************************************************************************)
(* The timetable                                                           *)
(***************************************************************************)
(* idx_timeslots_unique_slot                                               *)
SamePlace(k, l) == k.class = l.class /\ k.day = l.day /\ k.number = l.number
PlaceFreeForSubject(k) == \A l \in slots : ~(SamePlace(k, l) /\ k.subject = l.subject)
PlaceFree(k) == \A l \in slots : ~SamePlace(k, l)

StartCreateTimeslot(a, k) ==
  /\ k.number \in Configured
  /\ Live(k.class) /\ Live(k.subject)
  /\ Live(k.teacher) /\ k.teacher \in teaches
  /\ Begin(a, [op |-> "slot", slot |-> k])

CreateTimeslot(a) ==
  /\ req[a].op = "slot"
  /\ PlaceFree(req[a].slot)
  /\ slots' = slots \cup {req[a].slot}
  /\ End(a)
  /\ UNCHANGED <<recordVars, periods>>

DeleteTimeslot(a, l) ==
  /\ req[a] = Idle /\ l \in slots
  /\ slots' = slots \ {l}
  /\ UNCHANGED <<recordVars, periods, req>>

(* One statement copies the lessons of one session's classes to the        *)
(* classes of the same batch, level and section in another; a place that   *)
(* is taken keeps its lesson.                                              *)
Counterpart(c, d) == BatchOf[c] = BatchOf[d] /\ ShapeOf[c] = ShapeOf[d]
CopiesOf(from, to) ==
  {[l EXCEPT !.class = d] : l \in {k \in slots : SessionOf[k.class] = from /\ Live(k.class)},
                            d \in {c \in Classes : SessionOf[c] = to /\ Live(c)}}
Matched(k, from) == \E l \in slots :
  /\ SessionOf[l.class] = from /\ Live(l.class) /\ Counterpart(l.class, k.class)
  /\ k = [l EXCEPT !.class = k.class]

CopyTimetable(a, from, to) ==
  /\ req[a] = Idle /\ from # to
  /\ slots' = slots \cup {k \in CopiesOf(from, to) : Matched(k, from) /\ PlaceFree(k)}
  /\ UNCHANGED <<recordVars, periods, req>>

RecordStep(a) ==
  \/ EndRequest(a)
  \/ \E x \in Rows : CreateFree(a, x) \/ PassRow(a, x) \/ PickRow(a, x)
  \/ \E X \in Selections : StartDelete(a, X)
  \/ DeleteRow(a)
  \/ \E c \in Classes : StartCreateClass(a, c)
  \/ CreateClass(a)
  \/ \E s \in Students, c \in Classes \cup {Nowhere} : StartSeat(a, s, c)
  \/ Seat(a)
  \/ \E s \in Students : ImportStudent(a, s)
  \/ \E t \in Teachers, is \in BOOLEAN : UpdateTeacherRole(a, t, is)

MoveStep(a) ==
  \/ \E c \in Classes, to \in Classes \cup {Nowhere} : StartPromote(a, c, to)
  \/ \E some \in SUBSET Students : Promote(a, some)
  \/ \E from \in Sessions, some \in SUBSET Students : PreviewTransition(a, from, some)
  \/ \E m \in Placings : StartTransition(a, m)
  \/ Transition(a)
  \/ \E p \in snapshots : RollbackPromotion(a, p)

TableStep(a) ==
  \/ \E n \in Numbers, t \in Spans : CreatePeriod(a, n, t)
  \/ \E n \in Numbers, side \in {1, 2}, t \in Times : StartUpdatePeriod(a, n, side, t)
  \/ UpdatePeriod(a)
  \/ \E n \in Numbers : StartDeletePeriod(a, n)
  \/ DeletePeriod(a)
  \/ \E k \in Slot : StartCreateTimeslot(a, k)
  \/ CreateTimeslot(a)
  \/ \E l \in slots : DeleteTimeslot(a, l)
  \/ \E from, to \in Sessions : CopyTimetable(a, from, to)

Next ==
  \/ \E a \in Admins : RecordStep(a)
  \/ \E a \in Admins : MoveStep(a)
  \/ \E a \in Admins : TableStep(a)

Spec == Init /\ [][Next]_vars

(***************************************************************************)
(* Properties                                                              *)
(***************************************************************************)
Requests ==
  {Idle}
  \cup [op : {"class"}, class : Classes]
  \cup [op : {"seat"}, student : Students, class : Classes \cup {Nowhere}, new : BOOLEAN]
  \cup [op : {"promote"}, from : Classes, to : Classes \cup {Nowhere}]
  \cup [op : {"transition"}, placing : Placings]
  \cup [op : {"delete"}, rest : SUBSET Rows, now : Rows \cup {Nothing}]
  \cup [op : {"period"}, number : Numbers, side : {1, 2}, time : Times]
  \cup [op : {"dropPeriod"}, number : Numbers]
  \cup [op : {"slot"}, slot : Slot]

(* Every column and every request is within its type.                      *)
TypeOK ==
  /\ state \in [Rows -> {"none", "live", "deleted"}]
  /\ classOf \in [Students -> Classes \cup {Nowhere}]
  /\ snapshots \subseteq Placings
  /\ teaches \subseteq Teachers
  /\ Configured \subseteq Numbers /\ \A n \in Configured : periods[n] \in Times \X Times
  /\ slots \subseteq Slot
  /\ req \in [Admins -> Requests]

(* A lesson has its subject, its teacher and its period and a live class   *)
(* its batch, for one Admin request at a time, bulk deletions that end     *)
(* half way included.  A deleted class keeps its lessons, no deletion      *)
(* looks for them.                                                         *)
ReferencesResolve ==
  /\ \A l \in slots : Live(l.subject) /\ Live(l.teacher) /\ l.number \in Configured
  /\ \A c \in Classes : Live(c) => Live(BatchOf[c])

(* A student of no class is not astray.                                    *)
Astray(s) == Live(s) /\ classOf[s] # Nowhere /\ ~Live(classOf[s])

RolledBack == \E a \in Admins, p \in snapshots : RollbackPromotion(a, p)

(* However students are enrolled, imported, moved, promoted and graduated  *)
(* and classes deleted, for one Admin request at a time nobody comes to be *)
(* in a deleted class but by the rollback of a promotion.                  *)
NobodyGoesAstray == [][\A s \in Students : Astray(s)' => Astray(s) \/ RolledBack]_vars

(* Not kept by the code: every student's class is there.  A class is left  *)
(* by a promotion, deleted, and the promotion rolled back.                 *)
StudentsHaveTheirClass == \A s \in Students : ~Astray(s)

(* A class is never in two lessons at once, however lessons are created,   *)
(* deleted and copied.                                                     *)
OneLessonAtATime == \A k, l \in slots : SamePlace(k, l) => k = l

(* A period ends after it starts, whichever of its times is changed.       *)
PeriodsRunForward == \A n \in Configured : periods[n] \in Spans
=============================================================================
