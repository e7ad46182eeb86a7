----------------------------- MODULE Promotions -----------------------------
(***************************************************************************)
(* Academic sessions and the promotion of students from the classes of one *)
(* to those of another: the handlers of modules/academic-sessions, the     *)
(* handlers of modules/classes and modules/students that move students     *)
(* too, and the clean-up of expired previews.                              *)
(*                                                                         *)
(* A promotion is previewed, committed and perhaps rolled back.  Commit    *)
(* and rollback are transactions that update student after student, each   *)
(* from the unlocked read of a preview or a log made before they begin.    *)
(***************************************************************************)
EXTENDS Integers, FiniteSets

CONSTANTS
  Admins,        \* one request in flight each
  Sessions,      \* academic_sessions ids
  Students,
  Classes,
  SessionOf,     \* classes.session_id
  Batches,
  BatchOf,       \* classes.batch_id
  ShapeOf,       \* a class's level and section
  Previews,      \* promotion_previews ids
  Logs,          \* promotion_logs ids
  ClassMoves,    \* the pairs of classes Admins promote between; Nowhere graduates
  Edits,         \* what updateStudent is asked for: a class, or Nowhere, and a
                 \* status, or kept
  Nowhere,       \* class_id IS NULL
  Hand           \* put there by no promotion

ASSUME ClassesAssumption ==
  /\ SessionOf \in [Classes -> Sessions] /\ BatchOf \in [Classes -> Batches]
  /\ Nowhere \notin Classes /\ Hand \notin Logs

ASSUME InputsAssumption ==
  /\ ClassMoves \subseteq {m \in Classes \X (Classes \cup {Nowhere}) : m[1] # m[2]}
  /\ Edits \subseteq (Classes \cup {Nowhere}) \X {"Active", "DroppedOff", "kept"}

VARIABLES
  status,        \* academic_sessions.status; none is no row
  seat,          \* students.class_id, and which promotion put the student there
  life,          \* students.status
  preview,       \* promotion_previews
  stale,         \* the previews past expires_at
  log,           \* promotion_logs
  undone,        \* promotion_logs.rolled_back
  req

sessionVars == <<status>>
studentVars == <<seat, life>>
promotionVars == <<preview, stale, log, undone>>
vars == <<sessionVars, studentVars, promotionVars, req>>

Idle == [op |-> "idle"]
NoRow == [row |-> "none"]
Gone == [row |-> "deleted"]

Seats == [class : Classes \cup {Nowhere}, by : Logs \cup {Hand}]
Lives == {"Active", "DroppedOff", "Graduated"}

(* A snapshot: the students it names and their classes.                    *)
Snapshots == UNION {[some -> Classes] : some \in SUBSET Students}
Plans == [row : {"kept"}, from : Sessions, to : Sessions, snapshot : Snapshots]

(* A log keeps the snapshot; which preview it came from is told apart here.*)
Entries == [row : {"kept"}, of : Previews, plan : Plans]

Requests ==
  {Idle}
  \cup [op : {"activate", "activating", "close"}, session : Sessions]
  \cup [op : {"preview"}, plan : Plans]
  \cup [op : {"commit"}, of : Previews, plan : Plans, goal : Snapshots,
        left : SUBSET Students, held : SUBSET Students]
  \cup [op : {"rollback"}, of : Logs, plan : Plans, goal : Snapshots,
        left : SUBSET Students, held : SUBSET Students]
  \cup [op : {"class"}, from : Classes, to : Classes \cup {Nowhere}, found : SUBSET Students]
  \cup [op : {"edit"}, student : Students, seat : Seats, life : Lives,
        keeps : SUBSET {"class", "status"}]

TypeOK ==
  /\ status \in [Sessions -> {"none", "UPCOMING", "ACTIVE", "COMPLETED"}]
  /\ seat \in [Students -> Seats]
  /\ life \in [Students -> Lives]
  /\ preview \in [Previews -> Plans \cup {NoRow, Gone}]
  /\ stale \subseteq Previews
  /\ log \in [Logs -> Entries \cup {NoRow}]
  /\ undone \subseteq Logs
  /\ req \in [Admins -> Requests]

(* The students have been enrolled in classes.                             *)
Init ==
  /\ status = [x \in Sessions |-> "none"]
  /\ seat \in [Students -> [class : Classes, by : {Hand}]]
  /\ life = [s \in Students |-> "Active"]
  /\ preview = [p \in Previews |-> NoRow]
  /\ stale = {}
  /\ log = [l \in Logs |-> NoRow]
  /\ undone = {}
  /\ req = [a \in Admins |-> Idle]

Done(a) == req' = [req EXCEPT ![a] = Idle]

Ask(a, r) == req[a] = Idle /\ req' = [req EXCEPT ![a] = r]

-----------------------------------------------------------------------------
(* The rows of students a transaction has updated are locked until it ends.*)
InTransaction(a) == req[a].op \in {"commit", "rollback"}

RowFree(s) == \A a \in Admins : InTransaction(a) => s \notin req[a].held

-----------------------------------------------------------------------------
(* POST /academic-sessions.                                                *)
CreateSession(x) ==
  /\ status[x] = "none"
  /\ status' = [status EXCEPT ![x] = "UPCOMING"]
  /\ UNCHANGED <<studentVars, promotionVars, req>>

(* PUT /academic-sessions/:id/activate: two reads, and a write by id.      *)
StartActivate(a, x) ==
  /\ status[x] = "UPCOMING"
  /\ Ask(a, [op |-> "activate", session |-> x])
  /\ UNCHANGED <<sessionVars, studentVars, promotionVars>>

OthersActive(x) == {y \in Sessions \ {x} : status[y] = "ACTIVE"}

CheckActive(a) ==
  /\ req[a].op = "activate"
  /\ OthersActive(req[a].session) = {}
  /\ req' = [req EXCEPT ![a] = [op |-> "activating", session |-> req[a].session]]
  /\ UNCHANGED <<sessionVars, studentVars, promotionVars>>

(* idx_academic_sessions_single_active.                                    *)
(* A bug to detect: there is no such index.                                *)
NoIndex(x) == TRUE

IndexAllows(x) == OthersActive(x) = {}

ActivateSession(a) ==
  /\ req[a].op = "activating"
  /\ IndexAllows(req[a].session)
  /\ status' = [status EXCEPT ![req[a].session] = "ACTIVE"]
  /\ Done(a)
  /\ UNCHANGED <<studentVars, promotionVars>>

(* PUT /academic-sessions/:id/close, also of a session that never began.   *)
StartClose(a, x) ==
  /\ status[x] \in {"UPCOMING", "ACTIVE"}
  /\ Ask(a, [op |-> "close", session |-> x])
  /\ UNCHANGED <<sessionVars, studentVars, promotionVars>>

CloseSession(a) ==
  /\ req[a].op = "close"
  /\ status' = [status EXCEPT ![req[a].session] = "COMPLETED"]
  /\ Done(a)
  /\ UNCHANGED <<studentVars, promotionVars>>

-----------------------------------------------------------------------------
(* POST .../transition/preview: the Active students of the classes of the  *)
(* active session.                                                         *)
PlanOf(from, to) ==
  LET found == {s \in Students : life[s] = "Active" /\ seat[s].class \in Classes
                                 /\ SessionOf[seat[s].class] = from}
  IN [row |-> "kept", from |-> from, to |-> to,
      snapshot |-> [s \in found |-> seat[s].class]]

(* A bug to detect: any session may be left.                               *)
StartPreviewOfAny(a, from, to) ==
  /\ from # to
  /\ status[from] # "none" /\ status[to] # "none"
  /\ Ask(a, [op |-> "preview", plan |-> PlanOf(from, to)])
  /\ UNCHANGED <<sessionVars, studentVars, promotionVars>>

StartPreview(a, from, to) ==
  /\ from # to
  /\ status[from] = "ACTIVE" /\ status[to] # "none"
  /\ Ask(a, [op |-> "preview", plan |-> PlanOf(from, to)])
  /\ UNCHANGED <<sessionVars, studentVars, promotionVars>>

SavePreview(a, p) ==
  /\ req[a].op = "preview"
  /\ preview[p] = NoRow
  /\ preview' = [preview EXCEPT ![p] = req[a].plan]
  /\ Done(a)
  /\ UNCHANGED <<sessionVars, studentVars, stale, log, undone>>

(* Ten minutes pass; the job of the clean-up runs.                         *)
Expire(p) ==
  /\ preview[p] \in Plans
  /\ stale' = stale \cup {p}
  /\ UNCHANGED <<sessionVars, studentVars, preview, log, undone, req>>

CleanUp(p) ==
  /\ p \in stale
  /\ preview' = [preview EXCEPT ![p] = Gone]
  /\ stale' = stale \ {p}
  /\ UNCHANGED <<sessionVars, studentVars, log, undone, req>>

-----------------------------------------------------------------------------
(* POST .../transition/commit.  The request names students, each under a   *)
(* batch of its choice; who is named twice ends where the last batch that  *)
(* has a class leads.  A student of the preview moves to the class of that *)
(* batch which has, in the other session, the level and section of the     *)
(* class left; if there is none, and if the preview does not list the      *)
(* student, nothing is done.  Whether the student is of the batch nobody   *)
(* asks.                                                                   *)
Onward(c, to) == {d \in Classes : SessionOf[d] = to /\ ShapeOf[d] = ShapeOf[c]}

Peers(c, batch, to) == {d \in Onward(c, to) : BatchOf[d] = batch}

Namings == UNION {[some -> Batches] : some \in SUBSET Students}

Movable(plan, named) ==
  {s \in DOMAIN named \cap DOMAIN plan.snapshot :
     Peers(plan.snapshot[s], named[s], plan.to) # {}}

GoalOf(plan, named) ==
  [s \in Movable(plan, named) |->
     CHOOSE d \in Peers(plan.snapshot[s], named[s], plan.to) : TRUE]

StartCommit(a, p, named) ==
  /\ preview[p] \in Plans
  /\ p \notin stale
  /\ Ask(a, [op |-> "commit", of |-> p, plan |-> preview[p],
             goal |-> GoalOf(preview[p], named),
             left |-> Movable(preview[p], named), held |-> {}])
  /\ UNCHANGED <<sessionVars, studentVars, promotionVars>>

(* The UPDATE of one student, seen by others when the transaction commits. *)
Updated(r, s) == [r EXCEPT !.left = r.left \ {s}, !.held = r.held \cup {s}]

UpdateStudent(a, s) ==
  /\ InTransaction(a)
  /\ s \in req[a].left
  /\ RowFree(s)
  /\ req' = [req EXCEPT ![a] = Updated(req[a], s)]
  /\ UNCHANGED <<sessionVars, studentVars, promotionVars>>

(* What the updates of a transaction amount to.                            *)
SeatsAfter(a, by) ==
  [s \in Students |->
     IF s \in req[a].held THEN [class |-> req[a].goal[s], by |-> by] ELSE seat[s]]

EntryOf(a) == [row |-> "kept", of |-> req[a].of, plan |-> req[a].plan]

(* A bug to detect: the log is not written.                                *)
CommitUnlogged(a, l) ==
  /\ req[a].op = "commit" /\ req[a].left = {}
  /\ log[l] = NoRow
  /\ seat' = SeatsAfter(a, l)
  /\ preview' = [preview EXCEPT ![req[a].of] = Gone]
  /\ Done(a)
  /\ UNCHANGED <<sessionVars, life, stale, log, undone>>

(* A bug to detect: the preview is not used up.                            *)
CommitAndKeep(a, l) ==
  /\ req[a].op = "commit" /\ req[a].left = {}
  /\ log[l] = NoRow
  /\ seat' = SeatsAfter(a, l)
  /\ log' = [log EXCEPT ![l] = EntryOf(a)]
  /\ Done(a)
  /\ UNCHANGED <<sessionVars, life, preview, stale, undone>>

(* The log is written, the preview deleted, whether it is still there or   *)
(* not, and the transaction commits.                                       *)
CommitPromotion(a, l) ==
  /\ req[a].op = "commit" /\ req[a].left = {}
  /\ log[l] = NoRow
  /\ seat' = SeatsAfter(a, l)
  /\ log' = [log EXCEPT ![l] = EntryOf(a)]
  /\ preview' = [preview EXCEPT ![req[a].of] = Gone]
  /\ Done(a)
  /\ UNCHANGED <<sessionVars, life, stale, undone>>

-----------------------------------------------------------------------------
(* POST /promotions/:id/rollback: all students of the snapshot go back to  *)
(* the class it names, those the promotion did not move included.          *)
(* A bug to detect: only Active students are put back.                     *)
StartRollbackOfActive(a, l) ==
  /\ log[l] # NoRow /\ l \notin undone
  /\ Ask(a, [op |-> "rollback", of |-> l, plan |-> log[l].plan,
             goal |-> log[l].plan.snapshot,
             left |-> {s \in DOMAIN log[l].plan.snapshot : life[s] = "Active"},
             held |-> {}])
  /\ UNCHANGED <<sessionVars, studentVars, promotionVars>>

(* A bug to detect: the log is marked before the students are put back.    *)
StartRollbackMarked(a, l) ==
  /\ log[l] # NoRow /\ l \notin undone
  /\ Ask(a, [op |-> "rollback", of |-> l, plan |-> log[l].plan,
             goal |-> log[l].plan.snapshot,
             left |-> DOMAIN log[l].plan.snapshot, held |-> {}])
  /\ undone' = undone \cup {l}
  /\ UNCHANGED <<sessionVars, studentVars, preview, stale, log>>

StartRollback(a, l) ==
  /\ log[l] # NoRow /\ l \notin undone
  /\ Ask(a, [op |-> "rollback", of |-> l, plan |-> log[l].plan,
             goal |-> log[l].plan.snapshot,
             left |-> DOMAIN log[l].plan.snapshot, held |-> {}])
  /\ UNCHANGED <<sessionVars, studentVars, promotionVars>>

FinishRollback(a) ==
  /\ req[a].op = "rollback" /\ req[a].left = {}
  /\ seat' = SeatsAfter(a, Hand)
  /\ undone' = undone \cup {req[a].of}
  /\ Done(a)
  /\ UNCHANGED <<sessionVars, life, preview, stale, log>>

-----------------------------------------------------------------------------
(* PUT /classes/:id/promote: one UPDATE moves the Active students of a     *)
(* class to another, or graduates them.  It looks for them, waits for the  *)
(* rows that are locked, and looks at those again.                         *)
Here(s, c) == life[s] = "Active" /\ seat[s].class = c

StartPromoteClass(a, c, d) ==
  /\ Ask(a, [op |-> "class", from |-> c, to |-> d, found |-> {s \in Students : Here(s, c)}])
  /\ UNCHANGED <<sessionVars, studentVars, promotionVars>>

PromoteClass(a) ==
  /\ req[a].op = "class"
  /\ \A s \in req[a].found : RowFree(s)
  /\ LET moved == {s \in req[a].found : Here(s, req[a].from)}
     IN /\ seat' = [s \in Students |->
                      IF s \in moved THEN [class |-> req[a].to, by |-> Hand] ELSE seat[s]]
        /\ life' = [s \in Students |->
                      IF s \in moved /\ req[a].to = Nowhere THEN "Graduated" ELSE life[s]]
  /\ Done(a)
  /\ UNCHANGED <<sessionVars, promotionVars>>

(* PUT /students/:id reads the student and writes every column back.  The  *)
(* request may leave out the class (Nowhere) or the status (kept).         *)
EditOf(s, edit, kept) ==
  [op |-> "edit", student |-> s,
   seat |-> IF edit[1] = Nowhere THEN seat[s] ELSE [class |-> edit[1], by |-> Hand],
   life |-> IF edit[2] = "kept" THEN kept ELSE edit[2],
   keeps |-> {k \in {"class"} : edit[1] = Nowhere} \cup {k \in {"status"} : edit[2] = "kept"}]

(* A bug to detect: a status that is not given is Active.                  *)
StartEditActive(a, s, edit) ==
  /\ Ask(a, EditOf(s, edit, "Active"))
  /\ UNCHANGED <<sessionVars, studentVars, promotionVars>>

StartEdit(a, s, edit) ==
  /\ Ask(a, EditOf(s, edit, life[s]))
  /\ UNCHANGED <<sessionVars, studentVars, promotionVars>>

UpdateColumns(a) ==
  /\ req[a].op = "edit"
  /\ RowFree(req[a].student)
  /\ seat' = [seat EXCEPT ![req[a].student] = req[a].seat]
  /\ life' = [life EXCEPT ![req[a].student] = req[a].life]
  /\ Done(a)
  /\ UNCHANGED <<sessionVars, promotionVars>>

-----------------------------------------------------------------------------
(* A statement fails, a transaction loses a deadlock, the server stops.    *)
AbortRequest(a) ==
  /\ req[a] # Idle
  /\ Done(a)
  /\ UNCHANGED <<sessionVars, studentVars, promotionVars>>

SessionHandler(a) ==
  \/ \E x \in Sessions : StartActivate(a, x)
  \/ CheckActive(a)
  \/ ActivateSession(a)
  \/ \E x \in Sessions : StartClose(a, x)
  \/ CloseSession(a)

PromotionHandler(a) ==
  \/ \E from, to \in Sessions : StartPreview(a, from, to)
  \/ \E p \in Previews : SavePreview(a, p)
  \/ \E p \in Previews, named \in Namings : StartCommit(a, p, named)
  \/ \E s \in Students : UpdateStudent(a, s)
  \/ \E l \in Logs : CommitPromotion(a, l)
  \/ \E l \in Logs : StartRollback(a, l)
  \/ FinishRollback(a)

StudentHandler(a) ==
  \/ \E m \in ClassMoves : StartPromoteClass(a, m[1], m[2])
  \/ PromoteClass(a)
  \/ \E s \in Students, edit \in Edits : StartEdit(a, s, edit)
  \/ UpdateColumns(a)

Next ==
  \/ \E x \in Sessions : CreateSession(x)
  \/ \E p \in Previews : Expire(p)
  \/ \E p \in Previews : CleanUp(p)
  \/ \E a \in Admins : SessionHandler(a)
  \/ \E a \in Admins : PromotionHandler(a)
  \/ \E a \in Admins : StudentHandler(a)
  \/ \E a \in Admins : AbortRequest(a)

Spec == Init /\ [][Next]_vars

-----------------------------------------------------------------------------
(* Invariant 1 of the freeze document: however activations and closings    *)
(* interleave, at most one session is ACTIVE.                              *)
OneActiveSession ==
  \A x, y \in Sessions : status[x] = "ACTIVE" /\ status[y] = "ACTIVE" => x = y

(* A student whom a promotion moved is in the snapshot of its log, and in  *)
(* a class of the session the log leads to, of the level and section of    *)
(* the class in the snapshot: a rollback can find the student again.  Of   *)
(* which batch that class is the request decides.                          *)
PromotedAreLogged ==
  \A s \in Students, l \in Logs : seat[s].by = l =>
    /\ log[l] # NoRow
    /\ s \in DOMAIN log[l].plan.snapshot
    /\ seat[s].class \in Onward(log[l].plan.snapshot[s], log[l].plan.to)

(* A promotion is marked as rolled back in the step that puts all students *)
(* of its snapshot back, never before and never for a part of them.        *)
RollbackIsWhole ==
  [][\A l \in undone' \ undone : \A s \in DOMAIN log[l].plan.snapshot :
       seat'[s] = [class |-> log[l].plan.snapshot[s], by |-> Hand]]_vars

(* Students are promoted out of a session that was ACTIVE once, however    *)
(* late the commit comes, and out of its own classes.                      *)
SourceWasActive ==
  \A l \in Logs : log[l] # NoRow =>
    /\ status[log[l].plan.from] \in {"ACTIVE", "COMPLETED"}
    /\ \A s \in DOMAIN log[l].plan.snapshot :
         SessionOf[log[l].plan.snapshot[s]] = log[l].plan.from

-----------------------------------------------------------------------------
(* With one request at a time:                                             *)
OneRequest == \A a, b \in Admins : req[a] # Idle /\ req[b] # Idle => a = b

(* A promotion is rolled back once ("Can only be done once per promotion   *)
(* log", server/docs/openapi.yaml).                                        *)
RolledBackOnce ==
  [][\A a \in Admins : FinishRollback(a) => req[a].of \notin undone]_vars

(* A preview is committed once: "Clean up the used preview".               *)
CommittedOnce ==
  \A k, l \in Logs : k # l /\ log[k] # NoRow /\ log[l] # NoRow => log[k].of # log[l].of

(* Nobody is left where a promotion that was rolled back put them.         *)
RolledBackLeavesNobody == \A s \in Students : seat[s].by \notin undone

(* updateStudent keeps what the request does not change ("preserve         *)
(* existing status if not changing", modules/students/controller.ts).      *)
EditsKeepTheRest ==
  [][\A a \in Admins : UpdateColumns(a) =>
       LET s == req[a].student
       IN /\ "class" \in req[a].keeps => seat'[s] = seat[s]
          /\ "status" \in req[a].keeps => life'[s] = life[s]]_vars

(* Invariant 5 of the freeze document: "Student class_id is NULL for        *)
(* DroppedOff and Graduated students".                                     *)
LeaversHaveNoClass == \A s \in Students : life[s] # "Active" => seat[s].class = Nowhere

(* A session that is over stays over ("Cannot activate a COMPLETED         *)
(* session").                                                              *)
CompletedStays ==
  [][\A x \in Sessions : status[x] = "COMPLETED" => status'[x] = "COMPLETED"]_vars

(* "BatchPromotionPreview", "studentIds" by batch (the frontend freeze): a *)
(* promotion moves students within their batch.                            *)
PromotedKeepTheirBatch ==
  \A s \in Students, l \in Logs : seat[s].by = l =>
    BatchOf[seat[s].class] = BatchOf[log[l].plan.snapshot[s]]
=============================================================================
