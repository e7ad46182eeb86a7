------------------------- MODULE ImportJobs_proofs --------------------------
(***************************************************************************)
(* Proofs about ImportJobs, for any number of Admins, jobs, keys and files.*)
(* ImportInv is the inductive invariant: a transaction that holds a job    *)
(* holds it in PREVIEW, without errors and not imported yet, and what it   *)
(* has inserted are free keys of its rows that no other transaction has.   *)
(***************************************************************************)
EXTENDS ImportJobs, FiniteSetTheorems, TLAPS

(* What a request in flight carries.                                       *)
LEMMA RequestFields ==
  ASSUME TypeOK, NEW a \in Admins
  PROVE  /\ req[a].op = "preview" => req[a].rows \in Tables /\ req[a].errors \in BOOLEAN
         /\ req[a].op \in {"confirm", "cancel", "failed", "import"} => req[a].job \in Jobs
         /\ req[a].op = "import" => req[a].left \in SUBSET Lines /\ req[a].added \in SUBSET Keys
  BY DEF TypeOK, Requests, Idle

LEMMA TableFields ==
  ASSUME NEW t \in Tables
  PROVE  /\ DOMAIN t \in SUBSET Lines
         /\ \A i \in DOMAIN t : t[i] \in Keys
<1>1. PICK L \in SUBSET Lines : t \in [L -> Keys]
  BY DEF Tables
<1> QED
  BY <1>1

LEMMA TableOfLines ==
  ASSUME NEW L \in SUBSET Lines, NEW t \in [L -> Keys]
  PROVE  t \in Tables
  BY DEF Tables

(* The number of rows added is a number: keys are finite.                  *)
LEMMA AddedAreCounted ==
  ASSUME NEW S \in SUBSET Keys
  PROVE  Cardinality(S) \in Nat /\ Cardinality(S) # None
  BY FS_Subset, FS_CardinalityType, KeysAssumption, NamesAssumption

(* What is left to insert are rows of the job.                             *)
LeftAreRows ==
  \A a \in Admins : Importing(a) => req[a].left \subseteq DOMAIN rows[req[a].job]

(* The type invariant.                                                     *)
LEMMA TypeInit == Init => TypeOK
<1>1. <<>> \in Tables
  <2>1. <<>> \in [{} -> Keys]
    OBVIOUS
  <2> QED
    BY <2>1, TableOfLines
<1> QED
  BY <1>1 DEF Init, TypeOK, Requests

LEMMA TypeNext ==
  ASSUME TypeOK, LeftAreRows, [Next]_vars
  PROVE  TypeOK'
<1> USE DEF jobVars
<1>1. ASSUME NEW a \in Admins, NEW r \in Requests, req' = [req EXCEPT ![a] = r],
             UNCHANGED <<jobVars, roll>>
      PROVE  TypeOK'
  BY <1>1 DEF TypeOK
<1>2. ASSUME NEW a \in Admins, Done(a)
      PROVE  req' \in [Admins -> Requests]
  BY <1>2 DEF TypeOK, Done, Requests
<1>3. ASSUME NEW a \in Admins, NEW file \in Files, StartPreview(a, file)
      PROVE  TypeOK'
  <2> DEFINE valid == {i \in DOMAIN file.rows : roll[file.rows[i]] = Free}
             r == [op |-> "preview", rows |-> [i \in valid |-> file.rows[i]],
                   errors |-> file.bad \/ valid # DOMAIN file.rows]
  <2>1. file.rows \in Tables /\ file.bad \in BOOLEAN
    BY FilesAssumption
  <2>2. [i \in valid |-> file.rows[i]] \in Tables
    <3>1. valid \in SUBSET Lines /\ [i \in valid |-> file.rows[i]] \in [valid -> Keys]
      BY <2>1, TableFields
    <3> HIDE DEF valid
    <3> QED
      BY <3>1, TableOfLines
  <2>3. r \in Requests
    <3> HIDE DEF valid
    <3> QED
      BY <2>1, <2>2 DEF Requests
  <2> QED
    BY <1>1, <1>3, <2>3 DEF StartPreview
<1>4. ASSUME NEW a \in Admins, NEW j \in Jobs, CreateJob(a, j)
      PROVE  TypeOK'
  BY <1>2, <1>4, RequestFields DEF TypeOK, CreateJob
<1>5. ASSUME NEW a \in Admins, NEW j \in Jobs, StartConfirm(a, j) \/ StartCancel(a, j)
      PROVE  TypeOK'
  BY <1>1, <1>5 DEF StartConfirm, StartCancel, Requests
<1>6. ASSUME NEW a \in Admins, LockJob(a)
      PROVE  TypeOK'
  <2>1. req[a].job \in Jobs /\ DOMAIN rows[req[a].job] \in SUBSET Lines
    BY <1>6, RequestFields, TableFields DEF LockJob, TypeOK
  <2>2. /\ [op |-> "import", job |-> req[a].job,
            left |-> DOMAIN rows[req[a].job], added |-> {}] \in Requests
        /\ Idle \in Requests
    BY <2>1 DEF Requests
  <2> QED
    BY <1>1, <1>6, <2>2 DEF LockJob
<1>7. ASSUME NEW a \in Admins, NEW i \in Lines, InsertRow(a, i)
      PROVE  TypeOK'
  <2> DEFINE k == rows[req[a].job][i]
             taken == req[a].added \cup (IF roll[k] = Free THEN {k} ELSE {})
  <2>1. req[a].job \in Jobs /\ req[a].left \in SUBSET Lines /\ req[a].added \in SUBSET Keys
    BY <1>7, RequestFields DEF InsertRow, NextRow, Importing
  <2>2. i \in DOMAIN rows[req[a].job] /\ rows[req[a].job] \in Tables
    BY <1>7, <2>1 DEF InsertRow, NextRow, LeftAreRows, TypeOK
  <2>3. taken \in SUBSET Keys
    BY <2>1, <2>2, TableFields
  <2>4. [op |-> "import", job |-> req[a].job, left |-> req[a].left \ {i}, added |-> taken]
          \in Requests
    BY <2>1, <2>3 DEF Requests
  <2> QED
    BY <1>1, <1>7, <2>4 DEF InsertRow
<1>8. ASSUME NEW a \in Admins, CommitImport(a)
      PROVE  TypeOK'
  <2>1. req[a].job \in Jobs /\ req[a].added \in SUBSET Keys
    BY <1>8, RequestFields DEF CommitImport, Importing
  <2>2. Cardinality(req[a].added) \in Nat
    BY <2>1, AddedAreCounted
  <2> QED
    BY <1>2, <1>8, <2>1, <2>2 DEF TypeOK, CommitImport
<1>9. ASSUME NEW a \in Admins, RollbackImport(a)
      PROVE  TypeOK'
  BY <1>1, <1>9, RequestFields DEF RollbackImport, Importing, Requests
<1>10. ASSUME NEW a \in Admins, MarkFailed(a) \/ CancelImport(a)
       PROVE  TypeOK'
  BY <1>2, <1>10 DEF TypeOK, MarkFailed, CancelImport
<1>11. ASSUME NEW a \in Admins, AbortRequest(a)
       PROVE  TypeOK'
  BY <1>2, <1>11 DEF TypeOK, AbortRequest
<1>12. ASSUME NEW j \in Jobs, Expire(j) \/ CleanUp(j)
       PROVE  TypeOK'
  BY <1>12 DEF TypeOK, Expire, CleanUp
<1>13. ASSUME NEW k \in Keys, CreateStudent(k) \/ DeleteStudent(k)
       PROVE  TypeOK'
  BY <1>13 DEF TypeOK, CreateStudent, DeleteStudent
<1>14. CASE Crash
  BY <1>14 DEF TypeOK, Crash, Requests
<1>15. CASE UNCHANGED vars
  BY <1>15 DEF TypeOK, vars
<1> QED
  BY <1>3, <1>4, <1>5, <1>6, <1>7, <1>8, <1>9, <1>10, <1>11, <1>12, <1>13, <1>14, <1>15
     DEF Next, Handler

-----------------------------------------------------------------------------
(* A request that knows a job was answered a row of the table, and one     *)
(* that confirms it a row without errors.                                  *)
RequestsKnowTheirJob ==
  \A a \in Admins :
    /\ req[a].op \in {"confirm", "import", "cancel", "failed"} => job[req[a].job] # "none"
    /\ req[a].op \in {"confirm", "import"} => ~ errors[req[a].job]

NewJobsAreNotImported == \A j \in Jobs : job[j] = "none" => imported[j] = None

HoldersHoldPreviews ==
  \A a \in Admins : Importing(a) =>
    job[req[a].job] = "PREVIEW" /\ req[a].added \subseteq KeysOf(rows[req[a].job])

ImportInv ==
  /\ TypeOK
  /\ LeftAreRows
  /\ RequestsKnowTheirJob
  /\ NewJobsAreNotImported
  /\ HoldersHoldPreviews
  /\ ImportsExclude
  /\ ImportsItsRows
  /\ ErrorsImportNothing
  /\ ConfirmedStaysClosed

LEMMA InvInit == Init => ImportInv
<1>1. Init => TypeOK
  BY TypeInit
<1>2. Init => /\ LeftAreRows /\ RequestsKnowTheirJob /\ NewJobsAreNotImported
              /\ HoldersHoldPreviews /\ ImportsExclude
  BY DEF Init, Idle, LeftAreRows, RequestsKnowTheirJob, NewJobsAreNotImported,
         HoldersHoldPreviews, ImportsExclude, Importing
<1>3. Init => ImportsItsRows /\ ErrorsImportNothing /\ ConfirmedStaysClosed
  BY NamesAssumption DEF Init, ImportsItsRows, ErrorsImportNothing, ConfirmedStaysClosed
<1> QED
  BY <1>1, <1>2, <1>3 DEF ImportInv

(* A step of a request that writes nothing: what matters is the request it *)
(* becomes.                                                                *)
LEMMA RequestStep ==
  ASSUME ImportInv, NEW a \in Admins, NEW r,
         req' = [req EXCEPT ![a] = r], UNCHANGED <<jobVars, roll>>, TypeOK',
         r.op \in {"confirm", "import", "cancel", "failed"} => job[r.job] # "none",
         r.op \in {"confirm", "import"} => ~ errors[r.job],
         r.op = "import" =>
           /\ r.left \subseteq DOMAIN rows[r.job]
           /\ job[r.job] = "PREVIEW"
           /\ r.added \subseteq KeysOf(rows[r.job])
           /\ \A k \in r.added : roll[k] = Free
           /\ \A b \in Admins \ {a} : Importing(b) =>
                req[b].job # r.job /\ req[b].added \cap r.added = {}
  PROVE  ImportInv'
<1> USE DEF jobVars
<1>1. /\ \A b \in Admins \ {a} : req'[b] = req[b]
      /\ req'[a] = r
  BY DEF ImportInv, TypeOK
<1>2. LeftAreRows'
  BY <1>1 DEF ImportInv, LeftAreRows, Importing
<1>3. RequestsKnowTheirJob'
  BY <1>1 DEF ImportInv, RequestsKnowTheirJob
<1>4. HoldersHoldPreviews'
  BY <1>1 DEF ImportInv, HoldersHoldPreviews, Importing
<1>5. ImportsExclude'
  BY <1>1 DEF ImportInv, ImportsExclude, Importing
<1>6. /\ NewJobsAreNotImported' /\ ImportsItsRows' /\ ErrorsImportNothing'
      /\ ConfirmedStaysClosed'
  BY DEF ImportInv, NewJobsAreNotImported, ImportsItsRows, ErrorsImportNothing,
         ConfirmedStaysClosed
<1> QED
  BY <1>2, <1>3, <1>4, <1>5, <1>6 DEF ImportInv

(* A step that leaves the transactions alone, but for those that end, and  *)
(* writes to no job that one of them holds.                                *)
LEMMA JobStep ==
  ASSUME ImportInv, TypeOK',
         \A a \in Admins : req'[a] = req[a] \/ req'[a] = Idle,
         rows' = rows, errors' = errors, imported' = imported, roll' = roll,
         \A j \in Jobs : job'[j] # job[j] =>
           /\ job[j] # "none" /\ job'[j] \notin {"none", "PREVIEW"}
           /\ JobRowFree(j)
  PROVE  ImportInv'
<1>1. \A a \in Admins : Importing(a)' => Importing(a) /\ req'[a] = req[a]
  BY DEF Importing, Idle
<1>2. \A a \in Admins : Importing(a)' => job'[req[a].job] = job[req[a].job]
  BY <1>1, RequestFields DEF ImportInv, JobRowFree, Importing
<1>3. LeftAreRows'
  BY <1>1 DEF ImportInv, LeftAreRows
<1>4. RequestsKnowTheirJob'
  BY RequestFields DEF ImportInv, RequestsKnowTheirJob, Idle
<1>5. NewJobsAreNotImported'
  BY DEF ImportInv, NewJobsAreNotImported
<1>6. HoldersHoldPreviews'
  BY <1>1, <1>2 DEF ImportInv, HoldersHoldPreviews
<1>7. ImportsExclude'
  BY <1>1 DEF ImportInv, ImportsExclude
<1>8. ImportsItsRows' /\ ErrorsImportNothing' /\ ConfirmedStaysClosed'
  BY DEF ImportInv, ImportsItsRows, ErrorsImportNothing, ConfirmedStaysClosed
<1> QED
  BY <1>3, <1>4, <1>5, <1>6, <1>7, <1>8 DEF ImportInv

LEMMA InvNext ==
  ASSUME ImportInv, [Next]_vars
  PROVE  ImportInv'
<1> USE DEF jobVars
<1>0. TypeOK' /\ TypeOK
  BY TypeNext DEF ImportInv
<1>1. ASSUME NEW a \in Admins, NEW file \in Files, StartPreview(a, file)
      PROVE  ImportInv'
  <2> DEFINE valid == {i \in DOMAIN file.rows : roll[file.rows[i]] = Free}
             r == [op |-> "preview", rows |-> [i \in valid |-> file.rows[i]],
                   errors |-> file.bad \/ valid # DOMAIN file.rows]
  <2>1. req' = [req EXCEPT ![a] = r] /\ UNCHANGED <<jobVars, roll>>
    BY <1>1 DEF StartPreview
  <2>2. r.op = "preview"
    OBVIOUS
  <2> HIDE DEF r
  <2> QED
    BY <1>0, <2>1, <2>2, RequestStep
<1>2. ASSUME NEW a \in Admins, NEW j \in Jobs, CreateJob(a, j)
      PROVE  ImportInv'
  <2>1. \A b \in Admins : req'[b] = req[b] \/ req'[b] = Idle
    BY <1>0, <1>2 DEF CreateJob, Done, TypeOK
  <2>2. \A b \in Admins : Importing(b)' => Importing(b) /\ req'[b] = req[b] /\ req[b].job # j
    BY <1>2, <2>1 DEF ImportInv, HoldersHoldPreviews, Importing, Idle, CreateJob
  <2>3. imported[j] = None /\ imported' = imported /\ roll' = roll
    BY <1>2 DEF CreateJob, ImportInv, NewJobsAreNotImported
  <2>4. LeftAreRows' /\ HoldersHoldPreviews'
    BY <1>0, <1>2, <2>2, RequestFields
       DEF CreateJob, ImportInv, LeftAreRows, HoldersHoldPreviews, TypeOK, Importing
  <2>5. RequestsKnowTheirJob'
    BY <1>0, <1>2, <2>1, RequestFields
       DEF CreateJob, ImportInv, RequestsKnowTheirJob, Idle, TypeOK
  <2>6. ImportsExclude'
    BY <2>2, <2>3 DEF ImportInv, ImportsExclude
  <2>7. ImportsItsRows'
    BY <1>0, <1>2, <2>3 DEF CreateJob, ImportInv, ImportsItsRows, TypeOK
  <2>8. NewJobsAreNotImported' /\ ErrorsImportNothing' /\ ConfirmedStaysClosed'
    BY <1>0, <1>2, <2>3
       DEF CreateJob, ImportInv, NewJobsAreNotImported, ErrorsImportNothing,
           ConfirmedStaysClosed, TypeOK
  <2> QED
    BY <1>0, <2>4, <2>5, <2>6, <2>7, <2>8 DEF ImportInv
<1>3. ASSUME NEW a \in Admins, NEW j \in Jobs, StartConfirm(a, j) \/ StartCancel(a, j)
      PROVE  ImportInv'
  <2>1. CASE StartConfirm(a, j)
    BY <1>0, <2>1, RequestStep DEF StartConfirm
  <2>2. CASE StartCancel(a, j)
    BY <1>0, <2>2, RequestStep DEF StartCancel
  <2> QED
    BY <1>3, <2>1, <2>2
<1>4. ASSUME NEW a \in Admins, LockJob(a)
      PROVE  ImportInv'
  <2> DEFINE r == [op |-> "import", job |-> req[a].job,
                   left |-> DOMAIN rows[req[a].job], added |-> {}]
  <2>1. job[req[a].job] # "none" /\ ~ errors[req[a].job]
    BY <1>4 DEF LockJob, ImportInv, RequestsKnowTheirJob
  <2>2. \A b \in Admins : Importing(b) => req[b].job # req[a].job
    BY <1>4 DEF LockJob, JobRowFree
  <2>3. CASE job[req[a].job] = "PREVIEW"
    <3>1. req' = [req EXCEPT ![a] = r] /\ UNCHANGED <<jobVars, roll>>
      BY <1>4, <2>3 DEF LockJob
    <3>2. /\ r.op = "import" /\ r.job = req[a].job
          /\ r.left = DOMAIN rows[r.job] /\ r.added = {}
      OBVIOUS
    <3> HIDE DEF r
    <3> QED
      BY <1>0, <2>1, <2>2, <2>3, <3>1, <3>2, RequestStep
  <2>4. CASE job[req[a].job] # "PREVIEW"
    BY <1>0, <1>4, <2>4, RequestStep DEF LockJob, Idle
  <2> QED
    BY <2>3, <2>4
<1>5. ASSUME NEW a \in Admins, NEW i \in Lines, InsertRow(a, i)
      PROVE  ImportInv'
  <2> DEFINE k == rows[req[a].job][i]
             r == [op |-> "import", job |-> req[a].job, left |-> req[a].left \ {i},
                   added |-> req[a].added \cup (IF roll[k] = Free THEN {k} ELSE {})]
  <2>1. /\ Importing(a) /\ i \in req[a].left /\ KeyFree(k, a)
        /\ req' = [req EXCEPT ![a] = r] /\ UNCHANGED <<jobVars, roll>>
    BY <1>5 DEF InsertRow, NextRow
  <2>2. job[req[a].job] = "PREVIEW" /\ ~ errors[req[a].job]
    BY <2>1 DEF ImportInv, HoldersHoldPreviews, RequestsKnowTheirJob, Importing
  <2>3. req[a].left \subseteq DOMAIN rows[req[a].job]
    BY <2>1 DEF ImportInv, LeftAreRows
  <2>4. k \in KeysOf(rows[req[a].job])
    BY <2>1, <2>3 DEF KeysOf
  <2>5. r.added \subseteq KeysOf(rows[req[a].job])
    BY <2>1, <2>4 DEF ImportInv, HoldersHoldPreviews
  <2>6. \A n \in r.added : roll[n] = Free
    BY <2>1 DEF ImportInv, ImportsExclude
  <2>7. \A b \in Admins \ {a} : Importing(b) =>
          req[b].job # req[a].job /\ req[b].added \cap r.added = {}
    BY <2>1 DEF ImportInv, ImportsExclude, KeyFree
  <2>8. r.op = "import" /\ r.job = req[a].job /\ r.left = req[a].left \ {i}
    OBVIOUS
  <2> HIDE DEF r, k
  <2> QED
    BY <1>0, <2>1, <2>2, <2>3, <2>5, <2>6, <2>7, <2>8, RequestStep
<1>6. ASSUME NEW a \in Admins, CommitImport(a)
      PROVE  ImportInv'
  <2> DEFINE j == req[a].job
             added == req[a].added
  <2>1. j \in Jobs /\ added \in SUBSET Keys /\ Importing(a)
    BY <1>0, <1>6, RequestFields DEF CommitImport, Importing
  <2>2. /\ job[j] = "PREVIEW" /\ ~ errors[j]
        /\ added \subseteq KeysOf(rows[j])
        /\ \A k \in added : roll[k] = Free
    BY <2>1 DEF ImportInv, HoldersHoldPreviews, RequestsKnowTheirJob, ImportsExclude, Importing
  <2>3. imported[j] = None
    BY <2>1, <2>2 DEF ImportInv, ConfirmedStaysClosed
  <2>4. /\ job' = [job EXCEPT ![j] = "COMPLETED"]
        /\ imported' = [imported EXCEPT ![j] = Cardinality(added)]
        /\ Cardinality(added) # None
        /\ roll' = [k \in Keys |-> IF k \in added THEN j ELSE roll[k]]
        /\ rows' = rows /\ errors' = errors
    BY <1>6, <2>1, AddedAreCounted DEF CommitImport
  <2>5. req' = [req EXCEPT ![a] = Idle]
    BY <1>6 DEF CommitImport, Done
  <2>6. \A b \in Admins : Importing(b)' =>
          Importing(b) /\ req'[b] = req[b] /\ req[b].job # j /\ req[b].added \cap added = {}
    BY <1>0, <2>1, <2>5 DEF ImportInv, ImportsExclude, Importing, Idle, TypeOK
  <2> HIDE DEF j, added
  <2>7. LeftAreRows' /\ HoldersHoldPreviews'
    BY <1>0, <2>4, <2>6 DEF ImportInv, LeftAreRows, HoldersHoldPreviews, TypeOK
  <2>8. RequestsKnowTheirJob'
    BY <1>0, <2>4, <2>5, RequestFields
       DEF ImportInv, RequestsKnowTheirJob, Idle, TypeOK
  <2>9. ImportsExclude'
    BY <1>0, <2>4, <2>6, RequestFields DEF ImportInv, ImportsExclude, Importing
  <2>10. ImportsItsRows'
    BY <1>0, <2>1, <2>2, <2>4 DEF ImportInv, ImportsItsRows, TypeOK
  <2>11. NewJobsAreNotImported' /\ ErrorsImportNothing' /\ ConfirmedStaysClosed'
    BY <1>0, <2>1, <2>2, <2>4
       DEF ImportInv, NewJobsAreNotImported, ErrorsImportNothing, ConfirmedStaysClosed, TypeOK
  <2> QED
    BY <1>0, <2>7, <2>8, <2>9, <2>10, <2>11 DEF ImportInv
<1>7. ASSUME NEW a \in Admins, RollbackImport(a)
      PROVE  ImportInv'
  <2>1. job[req[a].job] # "none"
    BY <1>7 DEF RollbackImport, ImportInv, RequestsKnowTheirJob, Importing
  <2> QED
    BY <1>0, <1>7, <2>1, RequestStep DEF RollbackImport
<1>8. ASSUME NEW a \in Admins, MarkFailed(a) \/ CancelImport(a)
      PROVE  ImportInv'
  <2>1. req[a].job \in Jobs /\ job[req[a].job] # "none" /\ JobRowFree(req[a].job)
    BY <1>0, <1>8, RequestFields
       DEF MarkFailed, CancelImport, ImportInv, RequestsKnowTheirJob
  <2>2. \A b \in Admins : req'[b] = req[b] \/ req'[b] = Idle
    BY <1>0, <1>8 DEF MarkFailed, CancelImport, Done, TypeOK
  <2>3. \A j \in Jobs : job'[j] # job[j] =>
          j = req[a].job /\ job'[j] \in {"FAILED", "CANCELLED"}
    BY <1>0, <1>8 DEF MarkFailed, CancelImport, TypeOK
  <2>4. UNCHANGED <<rows, errors, imported, roll>>
    BY <1>8 DEF MarkFailed, CancelImport
  <2> QED
    BY <1>0, <2>1, <2>2, <2>3, <2>4, JobStep
<1>9. ASSUME NEW a \in Admins, AbortRequest(a)
      PROVE  ImportInv'
  BY <1>0, <1>9, JobStep DEF AbortRequest, Done, TypeOK
<1>10. ASSUME NEW j \in Jobs, Expire(j)
       PROVE  ImportInv'
  BY <1>0, <1>10, JobStep DEF Expire
<1>11. ASSUME NEW j \in Jobs, CleanUp(j)
       PROVE  ImportInv'
  <2>1. \A i \in Jobs : job'[i] # job[i] => i = j /\ job'[i] = "deleted"
    BY <1>0, <1>11 DEF CleanUp, TypeOK
  <2> QED
    BY <1>0, <1>11, <2>1, JobStep DEF CleanUp
<1>12. ASSUME NEW k \in Keys, CreateStudent(k) \/ DeleteStudent(k)
       PROVE  ImportInv'
  <2>1. /\ UNCHANGED <<jobVars, req>>
        /\ \A n \in Keys \ {k} : roll'[n] = roll[n]
        /\ roll'[k] \in {Free, ByHand}
    BY <1>0, <1>12 DEF CreateStudent, DeleteStudent, TypeOK
  <2>2. ImportsExclude'
    <3>1. CASE CreateStudent(k)
      <4>1. \A a \in Admins : Importing(a) => k \notin req[a].added
        BY <3>1 DEF CreateStudent
      <4> QED
        BY <1>0, <2>1, <4>1, RequestFields DEF ImportInv, ImportsExclude, Importing
    <3>2. CASE DeleteStudent(k)
      <4>1. roll'[k] = Free
        BY <1>0, <3>2 DEF DeleteStudent, TypeOK
      <4> QED
        BY <1>0, <2>1, <4>1, RequestFields DEF ImportInv, ImportsExclude, Importing
    <3> QED
      BY <1>12, <3>1, <3>2
  <2>3. ImportsItsRows'
    BY <2>1, NamesAssumption DEF ImportInv, ImportsItsRows
  <2>4. /\ LeftAreRows' /\ RequestsKnowTheirJob' /\ NewJobsAreNotImported'
        /\ HoldersHoldPreviews' /\ ErrorsImportNothing' /\ ConfirmedStaysClosed'
    BY <2>1 DEF ImportInv, LeftAreRows, RequestsKnowTheirJob, NewJobsAreNotImported,
                HoldersHoldPreviews, ErrorsImportNothing, ConfirmedStaysClosed, Importing
  <2> QED
    BY <1>0, <2>2, <2>3, <2>4 DEF ImportInv
<1>13. CASE Crash
  BY <1>0, <1>13, JobStep DEF Crash
<1>14. CASE UNCHANGED vars
  BY <1>0, <1>14, JobStep DEF vars
<1> QED
  BY <1>1, <1>2, <1>3, <1>4, <1>5, <1>6, <1>7, <1>8, <1>9, <1>10, <1>11, <1>12, <1>13, <1>14
     DEF Next, Handler

LEMMA ImportInvariant == Spec => []ImportInv
  BY InvInit, InvNext, PTL DEF Spec

(* Every column and every request keeps its type.                          *)
THEOREM TypeCorrect == Spec => []TypeOK
<1>1. ImportInv => TypeOK
  BY DEF ImportInv
<1> QED
  BY ImportInvariant, <1>1, PTL

(* Who came with an import is one of the rows of a job that was confirmed. *)
THEOREM ImportsItsRowsHolds == Spec => []ImportsItsRows
<1>1. ImportInv => ImportsItsRows
  BY DEF ImportInv
<1> QED
  BY ImportInvariant, <1>1, PTL

(* A job with errors is never imported.                                    *)
THEOREM ErrorsImportNothingHolds == Spec => []ErrorsImportNothing
<1>1. ImportInv => ErrorsImportNothing
  BY DEF ImportInv
<1> QED
  BY ImportInvariant, <1>1, PTL

(* A job that was imported is never open for a confirmation again.         *)
THEOREM ConfirmedStaysClosedHolds == Spec => []ConfirmedStaysClosed
<1>1. ImportInv => ConfirmedStaysClosed
  BY DEF ImportInv
<1> QED
  BY ImportInvariant, <1>1, PTL

(* Two transactions share neither job nor key, and insert free keys.       *)
THEOREM ImportsExcludeHolds == Spec => []ImportsExclude
<1>1. ImportInv => ImportsExclude
  BY DEF ImportInv
<1> QED
  BY ImportInvariant, <1>1, PTL

-----------------------------------------------------------------------------
(* The handlers implement ImportBatch: what the transaction of a           *)
(* confirmation did becomes visible at its commit, to a job that was not   *)
(* imported before.                                                        *)
LEMMA BatchInit == Init => Batch!Init
  BY DEF Init, Batch!Init

LEMMA BatchStep ==
  ASSUME ImportInv, [Next]_vars
  PROVE  Batch!Next \/ UNCHANGED Batch!vars
<1>1. ASSUME NEW a \in Admins, CommitImport(a)
      PROVE  \E j \in Jobs, added \in SUBSET Keys : Batch!Apply(j, added)
  <2>1. req[a].job \in Jobs /\ req[a].added \in SUBSET Keys /\ Importing(a)
    BY <1>1, RequestFields DEF CommitImport, Importing, ImportInv
  <2>2. imported[req[a].job] = None /\ \A k \in req[a].added : roll[k] = Free
    BY <2>1 DEF ImportInv, HoldersHoldPreviews, ConfirmedStaysClosed, ImportsExclude
  <2> DEFINE j == req[a].job
             added == req[a].added
  <2>3. /\ imported' = [imported EXCEPT ![j] = Cardinality(added)]
        /\ roll' = [k \in Keys |-> IF k \in added THEN j ELSE roll[k]]
    BY <1>1 DEF CommitImport
  <2> HIDE DEF j, added
  <2>4. Batch!Apply(j, added)
    BY <2>2, <2>3 DEF Batch!Apply, j, added, Cardinality, Batch!Cardinality
  <2> QED
    BY <2>1, <2>4 DEF j, added
<1>2. ASSUME NEW k \in Keys, CreateStudent(k) \/ DeleteStudent(k)
      PROVE  Batch!Enter(k) \/ Batch!Leave(k)
  BY <1>2 DEF CreateStudent, DeleteStudent, Batch!Enter, Batch!Leave, jobVars
<1>3. ASSUME NEW a \in Admins, Handler(a), ~ CommitImport(a)
      PROVE  UNCHANGED Batch!vars
  BY <1>3 DEF Handler, StartPreview, CreateJob, StartConfirm, LockJob, InsertRow,
              RollbackImport, MarkFailed, StartCancel, CancelImport, AbortRequest,
              jobVars, Batch!vars
<1>4. ASSUME Crash \/ UNCHANGED vars \/ \E j \in Jobs : Expire(j) \/ CleanUp(j)
      PROVE  UNCHANGED Batch!vars
  BY <1>4 DEF Crash, Expire, CleanUp, vars, jobVars, Batch!vars
<1> QED
  BY <1>1, <1>2, <1>3, <1>4 DEF Next, Batch!Next

(* Every behaviour of the handlers is one of ImportBatch.                  *)
THEOREM ImplementsBatchHolds == Spec => ImplementsBatch
<1>1. ImportInv /\ [Next]_vars => [Batch!Next]_(Batch!vars)
  BY BatchStep
<1> QED
  BY ImportInvariant, BatchInit, <1>1, PTL DEF Spec, ImplementsBatch, Batch!Spec
=============================================================================
