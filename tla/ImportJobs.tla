---------------------------- MODULE ImportJobs -----------------------------
(***************************************************************************)
(* Bulk imports of students or users: the handlers of modules/import and   *)
(* the clean-up of services/cron.service.ts, next to the handlers that     *)
(* enter and delete single students.                                       *)
(*                                                                         *)
(* confirmImport reads the job, decides, and in a transaction locks the    *)
(* row of the job, looks at its status again and inserts row after row.    *)
(* A row is told from others by its key: the admission number, or the      *)
(* email, of which the database has one live owner.                        *)
(***************************************************************************)
EXTENDS Integers, FiniteSets

CONSTANTS
  Admins,        \* one request in flight each
  Jobs,          \* import_jobs ids
  Keys,
  Lines,         \* line numbers of a file
  Files,         \* uploads: the keys of their lines, and whether one is malformed
  None,          \* imported_rows IS NULL
  Free,          \* no live student has the key
  ByHand         \* entered by createStudent

ASSUME KeysAssumption == IsFiniteSet(Keys)

Tables == UNION {[L -> Keys] : L \in SUBSET Lines}

ASSUME FilesAssumption == Lines \subseteq Nat /\ Files \subseteq [rows : Tables, bad : BOOLEAN]

ASSUME NamesAssumption == None \notin Nat /\ {Free, ByHand} \cap Jobs = {} /\ Free # ByHand

VARIABLES
  job,           \* import_jobs.status; none and deleted are no rows
  rows,          \* preview_data: the keys of the valid rows
  errors,        \* error_rows > 0
  expired,       \* expires_at is past
  imported,      \* imported_rows
  roll,          \* who entered the live student of a key
  req

jobVars == <<job, rows, errors, expired, imported>>
vars == <<jobVars, roll, req>>

Idle == [op |-> "idle"]

Requests ==
  {Idle}
  \cup [op : {"preview"}, rows : Tables, errors : BOOLEAN]
  \cup [op : {"confirm", "cancel", "failed"}, job : Jobs]
  \cup [op : {"import"}, job : Jobs, left : SUBSET Lines, added : SUBSET Keys]

TypeOK ==
  /\ job \in [Jobs -> {"none", "PREVIEW", "COMPLETED", "CANCELLED", "FAILED", "deleted"}]
  /\ rows \in [Jobs -> Tables]
  /\ errors \in [Jobs -> BOOLEAN]
  /\ expired \in [Jobs -> BOOLEAN]
  /\ imported \in [Jobs -> Nat \cup {None}]
  /\ roll \in [Keys -> Jobs \cup {Free, ByHand}]
  /\ req \in [Admins -> Requests]

Init ==
  /\ job = [j \in Jobs |-> "none"]
  /\ rows = [j \in Jobs |-> <<>>]
  /\ errors = [j \in Jobs |-> FALSE]
  /\ expired = [j \in Jobs |-> FALSE]
  /\ imported = [j \in Jobs |-> None]
  /\ roll = [k \in Keys |-> Free]
  /\ req = [a \in Admins |-> Idle]

Done(a) == req' = [req EXCEPT ![a] = Idle]

-----------------------------------------------------------------------------
(* Locks: of the row of a job from the second FOR UPDATE to the end of the *)
(* transaction, and of a key from its insert.                              *)
Importing(a) == req[a].op = "import"

JobRowFree(j) == \A a \in Admins : Importing(a) => req[a].job # j

KeyFree(k, a) == \A b \in Admins \ {a} : Importing(b) => k \notin req[b].added

-----------------------------------------------------------------------------
(* POST /import/preview: the rows whose key is taken are errors; the same  *)
(* key twice in one file is not.                                           *)
StartPreview(a, file) ==
  /\ req[a] = Idle
  /\ LET valid == {i \in DOMAIN file.rows : roll[file.rows[i]] = Free}
     IN req' = [req EXCEPT ![a] = [op |-> "preview",
                                   rows |-> [i \in valid |-> file.rows[i]],
                                   errors |-> file.bad \/ valid # DOMAIN file.rows]]
  /\ UNCHANGED <<jobVars, roll>>

CreateJob(a, j) ==
  /\ req[a].op = "preview"
  /\ job[j] = "none"
  /\ job' = [job EXCEPT ![j] = "PREVIEW"]
  /\ rows' = [rows EXCEPT ![j] = req[a].rows]
  /\ errors' = [errors EXCEPT ![j] = req[a].errors]
  /\ Done(a)
  /\ UNCHANGED <<expired, imported, roll>>

(* POST /import/:jobId/confirm.                                            *)
(* A bug to detect: errors are not looked at.                              *)
StartConfirmAnyway(a, j) ==
  /\ req[a] = Idle
  /\ JobRowFree(j)
  /\ job[j] = "PREVIEW" /\ ~ expired[j]
  /\ req' = [req EXCEPT ![a] = [op |-> "confirm", job |-> j]]
  /\ UNCHANGED <<jobVars, roll>>

StartConfirm(a, j) ==
  /\ req[a] = Idle
  /\ JobRowFree(j)
  /\ job[j] = "PREVIEW" /\ ~ expired[j] /\ ~ errors[j]
  /\ req' = [req EXCEPT ![a] = [op |-> "confirm", job |-> j]]
  /\ UNCHANGED <<jobVars, roll>>

(* A bug to detect: the first look at the status is trusted.               *)
LockJobUnchecked(a) ==
  /\ req[a].op = "confirm"
  /\ JobRowFree(req[a].job)
  /\ req' = [req EXCEPT ![a] =
               [op |-> "import", job |-> req[a].job,
                left |-> DOMAIN rows[req[a].job], added |-> {}]]
  /\ UNCHANGED <<jobVars, roll>>

LockJob(a) ==
  /\ req[a].op = "confirm"
  /\ JobRowFree(req[a].job)
  /\ req' = [req EXCEPT ![a] =
               IF job[req[a].job] = "PREVIEW"
               THEN [op |-> "import", job |-> req[a].job,
                     left |-> DOMAIN rows[req[a].job], added |-> {}]
               ELSE Idle]
  /\ UNCHANGED <<jobVars, roll>>

NextRow(a, i) ==
  /\ Importing(a)
  /\ i \in req[a].left
  /\ \A n \in req[a].left : i <= n

(* A bug to detect: rows are inserted outside the transaction.             *)
InsertRowAtOnce(a, i) ==
  /\ NextRow(a, i)
  /\ LET k == rows[req[a].job][i]
     IN /\ roll' = [roll EXCEPT ![k] = IF roll[k] = Free THEN req[a].job ELSE roll[k]]
        /\ req' = [req EXCEPT ![a] = [req[a] EXCEPT !.left = @ \ {i}]]
  /\ UNCHANGED jobVars

(* The next row: inserted, or skipped when its key is taken.  It waits for *)
(* another transaction that is inserting the key.                          *)
InsertRow(a, i) ==
  /\ NextRow(a, i)
  /\ LET k == rows[req[a].job][i]
     IN /\ KeyFree(k, a)
        /\ req' = [req EXCEPT ![a] =
             [op |-> "import", job |-> req[a].job, left |-> req[a].left \ {i},
              added |-> req[a].added \cup (IF roll[k] = Free THEN {k} ELSE {})]]
  /\ UNCHANGED <<jobVars, roll>>

CommitImport(a) ==
  /\ Importing(a)
  /\ req[a].left = {}
  /\ job' = [job EXCEPT ![req[a].job] = "COMPLETED"]
  /\ imported' = [imported EXCEPT ![req[a].job] = Cardinality(req[a].added)]
  /\ roll' = [k \in Keys |-> IF k \in req[a].added THEN req[a].job ELSE roll[k]]
  /\ Done(a)
  /\ UNCHANGED <<rows, errors, expired>>

(* The transaction fails, and is rolled back; then the handler marks the   *)
(* job, whatever has become of it.                                         *)
RollbackImport(a) ==
  /\ Importing(a)
  /\ req' = [req EXCEPT ![a] = [op |-> "failed", job |-> req[a].job]]
  /\ UNCHANGED <<jobVars, roll>>

(* A bug to detect: a failed job may be tried again.                       *)
MarkRetryable(a) ==
  /\ req[a].op = "failed"
  /\ JobRowFree(req[a].job)
  /\ job' = IF job[req[a].job] = "deleted" THEN job
            ELSE [job EXCEPT ![req[a].job] = "PREVIEW"]
  /\ Done(a)
  /\ UNCHANGED <<rows, errors, expired, imported, roll>>

MarkFailed(a) ==
  /\ req[a].op = "failed"
  /\ JobRowFree(req[a].job)
  /\ job' = IF job[req[a].job] = "deleted" THEN job
            ELSE [job EXCEPT ![req[a].job] = "FAILED"]
  /\ Done(a)
  /\ UNCHANGED <<rows, errors, expired, imported, roll>>

(* DELETE /import/:jobId: the look and the write.                          *)
StartCancel(a, j) ==
  /\ req[a] = Idle
  /\ job[j] = "PREVIEW"
  /\ req' = [req EXCEPT ![a] = [op |-> "cancel", job |-> j]]
  /\ UNCHANGED <<jobVars, roll>>

CancelImport(a) ==
  /\ req[a].op = "cancel"
  /\ JobRowFree(req[a].job)
  /\ job' = IF job[req[a].job] = "deleted" THEN job
            ELSE [job EXCEPT ![req[a].job] = "CANCELLED"]
  /\ Done(a)
  /\ UNCHANGED <<rows, errors, expired, imported, roll>>

(* A statement fails before or after the transaction.                      *)
AbortRequest(a) ==
  /\ req[a] # Idle /\ ~ Importing(a)
  /\ Done(a)
  /\ UNCHANGED <<jobVars, roll>>

Crash ==
  /\ req' = [a \in Admins |-> Idle]
  /\ UNCHANGED <<jobVars, roll>>

-----------------------------------------------------------------------------
(* Thirty minutes pass; the job of the clean-up runs.                      *)
Expire(j) ==
  /\ job[j] = "PREVIEW" /\ ~ expired[j]
  /\ expired' = [expired EXCEPT ![j] = TRUE]
  /\ UNCHANGED <<job, rows, errors, imported, roll, req>>

CleanUp(j) ==
  /\ job[j] = "PREVIEW" /\ expired[j]
  /\ JobRowFree(j)
  /\ job' = [job EXCEPT ![j] = "deleted"]
  /\ UNCHANGED <<rows, errors, expired, imported, roll, req>>

(* POST and DELETE /students.                                              *)
CreateStudent(k) ==
  /\ roll[k] = Free
  /\ \A a \in Admins : Importing(a) => k \notin req[a].added
  /\ roll' = [roll EXCEPT ![k] = ByHand]
  /\ UNCHANGED <<jobVars, req>>

DeleteStudent(k) ==
  /\ roll[k] # Free
  /\ roll' = [roll EXCEPT ![k] = Free]
  /\ UNCHANGED <<jobVars, req>>

Handler(a) ==
  \/ \E file \in Files : StartPreview(a, file)
  \/ \E j \in Jobs : CreateJob(a, j)
  \/ \E j \in Jobs : StartConfirm(a, j)
  \/ LockJob(a)
  \/ \E i \in Lines : InsertRow(a, i)
  \/ CommitImport(a)
  \/ RollbackImport(a)
  \/ MarkFailed(a)
  \/ \E j \in Jobs : StartCancel(a, j)
  \/ CancelImport(a)
  \/ AbortRequest(a)

Next ==
  \/ \E a \in Admins : Handler(a)
  \/ \E j \in Jobs : Expire(j)
  \/ \E j \in Jobs : CleanUp(j)
  \/ \E k \in Keys : CreateStudent(k)
  \/ \E k \in Keys : DeleteStudent(k)
  \/ Crash

Spec == Init /\ [][Next]_vars

-----------------------------------------------------------------------------
KeysOf(table) == {table[i] : i \in DOMAIN table}

(* A student who came with an import came with a job that was confirmed,   *)
(* and is one of its rows: nothing is left of an import that failed.       *)
ImportsItsRows ==
  \A k \in Keys : roll[k] \in Jobs =>
    imported[roll[k]] # None /\ k \in KeysOf(rows[roll[k]])

(* Invariant 20 of the freeze document: a job with errors is not imported. *)
ErrorsImportNothing == \A j \in Jobs : errors[j] => imported[j] = None

(* A job that was imported cannot be confirmed again, whatever late        *)
(* cancellation or failure overwrites its status.                          *)
ConfirmedStaysClosed == \A j \in Jobs : imported[j] # None => job[j] # "PREVIEW"

(* Two transactions never import one job, or insert one key, and what they *)
(* insert nobody has: the two locks, and the unique index.                 *)
ImportsExclude ==
  /\ \A a, b \in Admins : Importing(a) /\ Importing(b) /\ a # b =>
       req[a].job # req[b].job /\ req[a].added \cap req[b].added = {}
  /\ \A a \in Admins : Importing(a) => \A k \in req[a].added : roll[k] = Free

(* Invariant 21: however confirmations, failures, cancellations and clean- *)
(* ups interleave, a job is added in one step, once, and its imported_rows *)
(* is the number of rows that were added.                                  *)
Batch == INSTANCE ImportBatch
ImplementsBatch == Batch!Spec

(* The test suite: "returns 400 when trying to cancel committed job".      *)
CompletedStays ==
  [][\A j \in Jobs : job[j] = "COMPLETED" => job'[j] = "COMPLETED"]_vars
=============================================================================
