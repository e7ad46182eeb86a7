# White-label school management: a verification development

This directory holds TLA+ specifications of the server of this repository
(`src/server`, an Express application over PostgreSQL) and of the school's web
application (`src/apps/tenant-app`, React), the TLC configurations that check
them on small instances, and proofs that TLAPS checks for every instance. The
definitions are translated from the controllers, services, migrations, routes
and pages; `PROJECT.json` gives, for each definition, the lines it stands for.

Paths below are relative to `src/server/src` unless they start with `src/` or
`apps/` (for `src/apps/tenant-app/src`). "The freeze document" is
`src/docs/freeze/white_label_backend_architecture_freeze.md`, whose numbered
invariants several properties state; "the frontend freeze" is the document of the
web application beside it, and `white_label_openapi.yaml` the third.

Contents: [the system](#the-system), [inventory](#inventory),
[modules](#modules), [from code to actions](#from-code-to-actions),
[runs](#runs), [fairness](#fairness), [proofs](#proofs),
[where code and documents part](#where-code-and-documents-part),
[limits](#limits), [plan](#plan).

## The system

The server is one Node process. A handler runs without interruption between two
`await`s, and others run while it waits. The database runs at READ COMMITTED:
each statement sees what was committed when it began. So a handler that reads
with one statement, decides, and writes with another acts on what may no longer
be true, unless it holds a row lock (`SELECT ... FOR UPDATE`) from the one to
the other, or its `UPDATE` repeats the condition, or an index refuses the write.
Most handlers of this server read without a lock and write by id; a few lock
and look again. Which of them need to is what most of the properties are about.

Four interval jobs of `services/cron.service.ts` run in the same process, next
to the requests and next to a late run of themselves. Nothing is queued: what
was in flight when the process stops is lost, and what was committed stays.

Rows are deleted softly, so foreign keys do not hold references together: who
deletes looks for references first, who refers looks for the row first.

The web application keeps a session in the tab and a cache of answers under keys
that each page types by hand. A page shows what its keys have; a change is seen
elsewhere only if the page that made it named the keys that depend on it.

## Inventory

| Part | State | Operations that write | What is hard | Correct when |
|---|---|---|---|---|
| Leave requests | `leave_requests` | submit, approve, reject, cancel, depart, return; overdue job | two reviewers, unlocked reads, an approval writes attendance and results too | the first review wins, the status never runs ahead of what happened, late leaves are flagged |
| Attendance | `attendance_records` | record a class, correct a record; absence alert | three writers of one record; seven reports with joins of their own, over students who move and lessons that go | approved days have a record; the reports agree; the alert follows its rule |
| Fees | `fee_charges`, `fee_payments` | charge, bulk charge, pay, delete | sums under a lock, money in doubles, half-done bulks | nobody overpays, no payment loses its charge, what is owed is the same wherever it is read |
| Exams | `exams`, `exam_subjects`, `exam_results`, `exam_student_summaries` | create, change, publish, unpublish, delete an exam; add, change, remove a paper; enter marks | a publication of many statements next to marks and papers | summary and papers agree; published means complete and locked; school, student and guardian are told the same |
| Bulk imports | `import_jobs`, `students`, `users` | preview, confirm, cancel; clean-up | confirm twice, fail half way, keys taken meanwhile | all of a job or nothing, once, counted right |
| Sessions and promotion | `academic_sessions`, `promotion_previews`, `promotion_logs`, `students` | create, activate, close, copy a timetable, preview, commit, roll back; clean-up | stale previews, row-by-row moves, rollback of a snapshot | one ACTIVE session; every move can be undone, whole and once |
| Classes | `classes`, `students` | create, rename, delete, promote or graduate a class | moves students a promotion is moving | as above; no live class without its batch |
| Students | `students`, `users` | create, change, delete, link to an account | writes all columns from an old read; user and student in step | an edit keeps what it does not name; one student per account, and it lives |
| Announcements and push | `announcements`, `push_subscriptions` | create, change, delete; subscribe, unsubscribe; push job | overlapping runs, lost answers, edits at the moment of publication | nothing is shown early or too often, nothing due is forgotten |
| Accounts | `users.token_version`, `password_hash`, `tenants.status`, `slug`; the JWT | sign in and out, switch role, change and reset a password; deactivate a school | tokens outlive what they say; versions are raised by racing requests | a session once closed is never open again |
| Users | `users`, `students.user_id` | create, set roles, delete, bulk delete | counts before writes, two statements per deleted user | a school keeps an Admin; no link to a deleted account |
| Guardians, guardian portal | `guardians`, `student_guardians` | create, change, delete | links across three tables | a guardian is shown what the school is |
| Assignments | `assignments`, `assignment_submissions` | create, change, close, delete, mark | marking row by row, students who join later | what was answered as marked is written |
| Timetable, periods | `timeslots`, `school_periods` | create, change, delete, copy | references checked before writes | no class in two lessons, no lesson without its class, subject, teacher and period |
| Batches, subjects | one table each | create, rename, delete, bulk delete | reference checks, row by row; six handlers move students between classes | references hold; nobody is put into a class that is gone |
| Web application | `sessionStorage`, the query cache | sign in and out, switch role, every page's changes | 401s, switches and changed passwords that come late or together, a cache cleared under a page, forgotten invalidations, roles kept in two places | a page shows this tab's changes; a role has nothing in its cache that another asked for; what a page asks for is answered |
| Events, notifications, profile, settings, features, super administration, external results | one table each | single-row writes | little | |

How they interact: an approval of a leave writes attendance records and exam
results; promotion, graduation, imports and edits write the same students; the
overdue job, the push job and the clean-up write what handlers write; deleting
a user unlinks students and leaves guardians; every request passes the token check,
which reads the user and the school anew, and takes the roles from the token.
The web applications (`src/apps`) call this interface and write nothing else.

## Modules

| Module | What it models |
|---|---|
| `LeaveLifecycle` | the leave handlers and the overdue job, with the attendance and the marks handlers that share tables with them |
| `LeaveMilestones` | abstract: what the leave handlers keep however they interleave |
| `LeaveStateMachine` | abstract: the state machine `utils/leaveStateMachine.ts` documents |
| `FeeLedger` | the fee handlers as transactions under row locks |
| `FeeAccount` | abstract: charges and payments, one atomic step each |
| `FeeViews` | on `FeeLedger`: the list, the summary, the guardian's page and the totals |
| `ExamPublication`, `GradeScale` | the handlers of one exam; grades and boundaries |
| `ExamViews` | on `ExamPublication`: what the marks sheet, the results, a student and a guardian are shown |
| `ImportJobs` | the import handlers, the clean-up, and the single entries next to them |
| `ImportBatch` | abstract: a job is added in one step, once |
| `Promotions` | sessions, promotion previews, commits and rollbacks, with the handlers that move the same students |
| `AnnouncementPush` | announcements, subscriptions, the push job and its retries |
| `Accounts` | sign-in, the middleware, roles, passwords, users, and the students and guardians whose records lead to an account |
| `SignIns` | abstract: sessions that are open or closed |
| `SchoolRecords` | batches, classes, subjects, teachers, students, periods and the timetable, with `bulkSoftDelete`, `copyTimetable` and all that puts a student into a class: `createStudent`, `updateStudent`, `confirmImport`, `promoteClass`, `transitionCommit`, `rollbackPromotion` |
| `Assignments` | on `SchoolRecords`: assignments, submissions and marking |
| `AttendanceReports` | on `SchoolRecords`: the register, the seven reports read from it, the absence alert and the guardian's view |
| `ServerRoutes` | the routes: who is let in, from which tables a GET answers and which the others write |
| `PortalPages` | on `ServerRoutes`: each page of the web application, its queries and their keys, its changes and what they invalidate, and the router |
| `Portal` | on `PortalPages`: a tab, its session, the page it shows, its gate, and one entry of the cache with the requests on their way |
| `MC...` | the instances TLC checks |
| `..._proofs` | the theorems about the module of that name; `FeeLedger_proofs` and `ExamPublication_proofs` also prove about the views, `SchoolRecords_proofs` about `Assignments` and `AttendanceReports`, and `AnnouncementPush_proofs` about `Portal`, which shares no name with it |

The modules are separate machines because the tables they write are; where a
handler of one part writes the tables of another, the module that owns the
question has it as an action (`RecordAttendance`, `EnterMarks` in
`LeaveLifecycle`; absences by approved leaves in `ExamPublication`; deletions and
single entries in `ImportJobs`; class moves and student edits in `Promotions`;
the creation of students with their accounts in `Accounts`; imports, commits and
rollbacks, for the classes they lead to, in `SchoolRecords`).

Operators named as bugs to detect (`...Anyway`, `...Unlocked`, `...Twice` and the
like) belong to no specification: each is a mistake one could make in the code,
and replacing the real definition by it breaks the property it is listed with.

## From code to actions

One pattern runs through all modules. `req[u]` is the request a signed-in user
has in flight: what its handler has read and decided and not yet written. A
handler that awaits between its look and its write is two actions, `Start...` or
`Read...` with the guards of its early returns, and one that writes; what the
write does not check again it does not check in the model. A row lock is a
condition on the requests of the others (`LeaveRowFree`, `RowFree`,
`ExamRowFree`, `JobRowFree`), held from the locking read to the commit. A
transaction shows its rows at its commit; `Abort...` is its rollback, whatever
the cause, a deadlock victim included. `Crash` empties all requests and keeps
the tables. One request per user is no loss: two tabs of one person are two
users of the same role.

- **Leave.** `status` is the column; `review`, `departed`, `returned` are the
  columns that record who did what. `StartReview` and `ApproveLeave` are the two
  halves of `approveLeave`; the lock also covers the student's row, which the
  query joins. `MarksAfterApproval` and `CoveredMarks` are the loop over days and
  timeslots. `DetectOverdueLeaves` is one UPDATE of all late rows;
  `AnnounceOverdue` sends afterwards and is lost in a crash.
- **Fees.** A request's amount is in mills, a stored one in cents, so that the
  rounding of `NUMERIC(10,2)` shows; `FloatNoise` is what the subtraction of two
  doubles may lose. `bulkCharge` is its read and then one action per INSERT; its list
  is not searched for repetitions, and `charged` holds what it has raised so far.
- **Exams.** `paper` is `marks_status`. A publication is `StartPublication`
  (checks on unlocked reads, then the lock) followed by `PublishExam`; entering
  marks is one step per row and a last one, `FinishMarks`, that compares two
  counts. Grades are computed by `GradeScale`, boundaries and half per cents
  included.
- **Imports.** A file is the keys of its lines and whether one is malformed; a
  key is the admission number or the email. `InsertRow` is one row of the loop,
  the duplicate that `ON CONFLICT` or the check skips included; `CommitImport`
  shows them all; `MarkFailed` is the separate statement after a failure.
- **Sessions and promotion.** `seat` is `class_id`, with the promotion that wrote
  it, which the table does not keep: it is there to say what a rollback leaves
  behind. A commit names its students under batches of its choice (`named`), which
  nobody compares with theirs; of that batch is the class they go to (`Peers`).
  Commit and rollback take one student's row after another and hold it.
- **Announcements.** `edition` counts how often `push_sent` became false. A run of
  the job is what its claim returned, the announcement being sent, the users
  still to be read and the sends under way, up to three attempts each.
  `LoseAnswer` is a message shown whose answer came too late.
- **Accounts.** A token is the user, the roles and the version of the row its
  sign-in read; `Read` is that look and `IssueToken` the answer, so a sign-out may
  come between. `Admit` is the middleware: tenant active, user not deleted, version
  not behind. Passwords are left out: that a caller knows the one in the row is a
  choice of the environment. `CreateStudent` is one transaction; `DeleteUser` of one
  user is one too, the bulk deletion two statements per user (`BulkUnlinkUser`,
  `BulkDeleteUser`). `signOuts` counts answers and is there for the refinement.
- **Records and timetable.** Creating a class, a lesson or a period, seating a
  student and changing a period are a look and a write. A deletion takes one id after the
  other: `PassRow` skips, `PickRow` has found no reference, `DeleteRow` deletes
  what was picked. A lesson is its columns; `CopyTimetable` is one transaction.
  `snapshots` are the previews, any of which a commit makes a log; a rollback puts one
  back without a look at what has become of its students and classes. An edit that
  names no class writes back the one it read.
- **Assignments.** A request to mark is a list of students and marks, `PENDING` among
  them, that may name a student twice. `StartMark` is the checks, `MarkSubmission` one row,
  `FailSubmission` a row whose error is logged and passed over, `AnswerMark` the
  answer with its counts.
- **Attendance reports.** `register` maps student, lesson and date to a status. Each
  report is an operator with the joins and conditions of its statement; `Orders`
  is every order a statement without a tie-breaker may return. `StreakLength` is
  the job's window query, `ConsecutiveAbsences` the function beside it.
- **Views of fees and exams.** One operator for each handler or component that
  reads; a refused read is no rows.
- **Web application.** A change `Touches` a query if it writes a table the answer is
  made of (joined and counted tables included; what `ServerRoutes` leaves out is said
  there), and `Tells` it if it invalidates a prefix of its key; both come from the
  records of `PortalPages` and `ServerRoutes`. `fetch`, `change` and `auth` are
  requests on their way, and answered, refused or lost in any order. `auth` is a set:
  the switcher and the page of the password guard themselves only, and both can be
  left, so several may be out at once. `queryClient.clear()` empties the cache and
  tells no observer: `gate` and `onshow` say whether the gate and the page follow the
  cache, or still have what they had until they are drawn anew. Entries of
  the cache do not influence each other, so one, `watched`, is followed, and every
  key is watched in some behaviour.

## Runs

Run one with `tlc -workers 2 -config <cfg> <module>.tla`. Deadlock is checked in all
of them but `accounts` and `school`, where a version that has reached its bound, or
a school with nothing left to create, may end the behaviour.

| Run | Module and cfg | Expected | Properties | Distinct states | What it shows |
|---|---|---|---|---|---|
| `leave_one` | `MCLeave`, `leave_one.cfg` | pass | `TypeOK`, `ApprovedDaysAreMarked`, `DecisionsStayTrue`, `ExcusedByApprovalOrAdmin`, `LateLeavesAreFlagged`, `KeepsMilestones` | 112,590 | One leave, an Admin, a class teacher and a guardian: every interleaving of the leave handlers with attendance, marks, the overdue job, the calendar and crashes keeps the register complete, the decisions true until they are written and the late leaves flagged, and implements the milestones of LeaveMilestones. |
| `leave_race_bug` | `MCLeave`, `leave_race_bug.cfg` | violation | `FollowsStateMachine` | until the violation | With two users the leave handlers leave the documented state machine: a cancellation that read PENDING overwrites an approval. |
| `fees_race` | `MCFees`, `fees_race.cfg` | pass | `FeeViewsAgree`, `NeverOverpaid`, `NoOrphanPayments`, `ImplementsAccount` | 65,432 | Two Admins pay, delete and raise charges at once, with amounts that round, bulk requests and crashes: no overpayment, no orphan payment, what is read of them agrees, and the transactions implement the atomic account. |
| `exams_race` | `MCExams`, `exams_race.cfg` | pass | `FailedPaperFailsExam`, `GradedAreSummarised` | 284,345 | Two Admins of one exam, with marks, absences, papers and publications in any order and with crashes: a failed paper always fails the exam and nobody is graded without a summary. |
| `exams_one` | `MCExams`, `exams_one.cfg` | pass | `GradesFollowMarks`, `MarkedIsComplete`, `PublishedIsLocked`, `ResultsAgree` | 284,764 | One Admin, two papers and two students of the class, one request at a time: a paper that is graded is graded by its marks, a publication starts from complete marks, what is published stays locked, and the school, the student and the guardian are told the same. |
| `imports_race` | `MCImports`, `imports_race.cfg` | pass | `ImportsItsRows`, `ConfirmedStaysClosed`, `ImplementsBatch` | 1,571,508 | Two Admins preview, confirm and cancel two jobs next to single entries and deletions, the clean-up, failures and crashes: a job is added in one step, once and counted right, nothing of a failed import stays, and what was imported is never open again. |
| `sessions_race` | `MCPromotions`, `sessions_race.cfg` | pass | `OneActiveSession`, `PromotedAreLogged`, `RollbackIsWhole` | 3,041,107 | Two Admins activate and close sessions, preview, commit and roll back promotions, graduate a class and edit a student at once, with commits that name students under any batch, failures, deadlock victims and expiring previews: one session is ACTIVE, whom a promotion moved its log names, and a rollback is whole. |
| `push_race` | `MCPush`, `push_race.cfg` | pass | `TypeOK`, `PushedIsPublished`, `ShownAtMostThrice`, `DueArePushed`, `RunsEnd` | 276,844 | One announcement, one editor, one subscription and two overlapping runs of the push job, with lost answers, gone end points and crashes: what counts as pushed has been published, nothing is shown to one end point more than three times, each due one is claimed in the end, and every run ends. |
| `accounts` | `MCAccounts`, `accounts_race.cfg` | pass | `ImplementsSignIns`, `OneStudentPerAccount`, `LinkedAccountsLive` | 779,368 | Sign-ins, requests with old tokens, switches of role, passwords, roles, deletions, students, guardians, links and the tenant's deactivation interleave: an account is let in only with a token of its present version, belongs to one student at most, and the account of a student lives. |
| `school` | `MCSchool`, `school_race.cfg` | pass | `ReferencesResolve`, `NobodyGoesAstray`, `OneLessonAtATime`, `AbsentAreNamed`, `MonthsAgree`, `AlertsFollowTheRule`, `AnsweredIsWritten` | 1,142,028 | One Admin works on classes, subjects, periods and lessons, with failures between two statements; or imports, seats, promotes, graduates and rolls back students and deletes their classes; or a teacher and the office mark an assignment, with lists that may name a student twice, while a student joins the class; or the register of a student is kept, who moves and is deleted: what a row refers to is there, nobody comes to be in a deleted class but by a rollback, no class has two lessons at once, the reports agree, the alert follows its rule, and what was answered as marked is written. |
| `portal` | `MCPortal`, `portal.cfg` | pass | `OwnChangesAreShown`, `SwitchStartsAfresh`, `RequestsAreAdmitted` | 2,443,946 | Every page and query of the school's web application, with sign-ins, switches of role and changes of password on their way together, 401s, reloads, and answers lost or out of order: what a page shows has this tab's changes but for the keys known to be forgotten, a sign-in has nothing in its cache that another role has asked for, but for a password changed in another role than it was sent in, and what a page asks for it may ask for but for the known refusals. |
| `portal_gate_bug` | `MCPortal`, `portal_gate_bug.cfg` | violation | `GatesOpen` | until the violation | A page behind the FeatureGate never opens for a Teacher, Student or Guardian: the features are answered to an Admin only. |

Three further configurations pass and are kept for what they add: `leave_two.cfg`
(`MCLeave`: two leaves of one student, whose row a review locks with the leave;
`DecisionsStayTrue` and `KeepsMilestones`), `sessions_one.cfg` (`MCPromotions`, one
Admin, two previews and promotions: `CommittedOnce`, `RolledBackLeavesNobody`,
`EditsKeepTheRest`) and `fees_bulk.cfg` (`MCFees`, one Admin, a list that names a
student twice among the lists: `BulkSkipsTheCharged`).
With `Users = {admin}`, so one request at a time, `leave_race_bug.cfg` passes: the
handlers then implement the documented state machine.

The type invariants that no run lists (`FeeLedger`, `ExamPublication`, `ImportJobs`,
`Promotions`, `Accounts`, `SchoolRecords`, `WorkTypeOK`, `RegisterTypeOK`, and
`TabTypeOK` of `Portal`) are proved, and so are `JobCountsAsTheRule` (the alert's statement and
`calculateConsecutiveAbsences` count the same) and `GuardiansSeeTheLessons`, which pass
with the constants of `school_race.cfg`.

**Bounds.** Two users cover the races listed as hazards: every one of them is between one
who decided and one who wrote in between, and three (an Admin, a teacher, a
guardian) are there where rights differ. Two leaves of one student, two charges,
two papers, two jobs with a key in common, two promotions, two overlapping runs
are the fewest that can meet. Days 1 and 2 are a first and a last day, one of
which has an exam, with a day past due. Amounts of 4, 5, 14, 21 and 30 mills are rounded down,
to nothing, up, down, and not at all, and add up to less, to as much and to
more than one another. Two scores make a pass and a fail. An edition is
armed at most twice and the clock has three values, so an announcement can be
moved from due to future and become due again. Symmetry is used for papers and
students of exams, where no property is temporal.

`MCAccounts` and `MCSchool` hold several small instances in one run, told apart by
`scope`, since their product says no more than their parts. `accounts`: in
"sessions" an Admin and a second session of two users, versions to 2 and two
tokens, so a version can be raised twice under a sign-in that read before; in
"links" one request at a time on three users, two students and a guardian, who keep
the roles and versions they have. `school`: in "records" the office builds and takes
apart one batch, two classes, two subjects, a teacher, a period and their lessons; in
"moves", without lessons, it imports, seats, promotes, graduates and deletes two
students in the classes of two sessions, and one preview is kept, to commit and to
roll back; in "work" the records stand, and the office and a teacher mark one
assignment with lists of at most `MaxEntries` = 2 entries, of which the first
marker's name one student twice with two marks or two students with one, while a
student joins the class and lessons go; in "reports" two
lessons on two dates give four records, more than the three an alert takes, of a
student who moves between two classes and is deleted. `portal`: every page and every key, a user with one role and one with two,
one who must change the password first; at most `MaxAwaited` = 2 answers awaited at a
time, which is enough for a switch and a changed password, for two switches, and for
either next to a fetch or a change. `MCPortal` keeps users away whom no page lets near
the key that is followed, and lets nobody sign in while such an answer of the session
before is awaited; the theorems have neither bound.

## Fairness

Only two specifications need it.

- `LeaveLifecycle!FairSpec`: weak fairness of the overdue job and of the clock.
  `setInterval` calls the job for as long as the process runs and it is started
  again with it; a failed run is logged and the next is a new try. Nothing is
  assumed of users. From it follows `LateLeavesAreFlagged`.
- `AnnouncementPush!FairSpec`: weak fairness of the claims, and of the steps of
  each run. A claim that fails leaves the rows unclaimed for the next minute;
  it is assumed not to fail for ever. Every call a run awaits answers or times
  out, and no answer is promised to be the good one: a run that only loses
  messages is fair. From it follow `DueArePushed` and `RunsEnd`.

Accounts, records, assignments, reports and the web application act on requests of
people alone; nothing there is promised to happen.

## Proofs

`tlapm <module>_proofs.tla` checks them. They hold for any sets of users, rows
and inputs under the assumptions named in the modules: what the constants are
(`RolesAssumption`, `DirectoryAssumption`, `MillsAssumption`, `KeysAssumption`,
`IdsAssumption`, `RowsAssumption`, `RolesOfAssumption` and so on), that the values
that stand for no row, and for no mark, are none of the rows or marks, that pass marks do not exceed
total marks (checked by the handlers). A theorem that adds up or counts rows says of
which set that it is finite; a table always is.

Some theorems have a hypothesis about the behaviour, as the code keeps the property
under it and not without it (the table of the next section lists what breaks it):

- `[]OneRequest` (`LeaveLifecycle`, `ExamPublication`, `Promotions`): at most one
  request on those tables has read and not written yet, of any number of users,
  before, between and next to anything that is not such a request.
- `[]OneUpdate` (`AnnouncementPush`): at most one update of an announcement is in
  flight; creations, claims, runs and lost answers interleave freely.
- `[]ClassMarked` (`ExamPublication`): marks are entered for classmates, which
  `enterMarks` does not check.
- `Admins = {one}` or a `...ForOneAdmin` in the name: one caller may do what only an
  Admin may, as a school with one office has it.

Each of these is satisfied by behaviours that a run walks: `exams_one`,
`sessions_one`, `fees_bulk`, `push`, `school` and `accounts`.

| Module | Proved for every instance | Inductive invariant |
|---|---|---|
| `LeaveLifecycle_proofs` | `TypeOK`, `StatusIsEarned`, `DepartureNeedsApproval`, `ReviewsExclude` and `DecisionsStayTrue`, `FirstReviewWins`, `ApprovedDaysAreMarked`, `ExcusedByApprovalOrAdmin`, `PresentSurvivesApproval`, `AlertsAreEarned`, the refinement of `LeaveMilestones`; for one request at a time the documented state machine `FollowsStateMachine` | `LeaveInv`: the type, the status that follows the milestones, the locks, and what each request in flight relies on. `StatusIsEarned` alone is not inductive: a departure that writes late is justified only by what it decided on. `SerialInv` for the state machine: what the one request read is what the row still is, the job apart, which only flags |
| `FeeLedger_proofs` | `TypeOK`, `NeverOverpaid`, `NoOrphanPayments`, `LockedSumIsCurrent`, `LocksExclude`, `PaymentsAreFinal`, the refinement of `FeeAccount`, `FeeViewsAgree`; for one Admin `BulkSkipsTheCharged` | `LedgerInv`: that nobody overpays rests on the sum read under the lock still being the sum, and that on the locks excluding each other. The lemma `RoundingIsSafe` carries the rounding. `BulkIsFresh`: what those the loop still has to charge are charged for, the request has raised itself. The views agree by lemmas on sums over finite sets |
| `ExamPublication_proofs` | `TypeOK`, `FailedPaperFailsExam`, `GradedAreSummarised`, `PublicationsExclude`; for one request at a time `GradesFollowMarks`, `PublishedIsLocked`, `ResultsAgree`, `MarkedIsComplete` | `ExamInv`: in addition, who has a verdict has a row, and the sheet of a publication under way covers all who have a verdict. `SerialInv`: what the one request has looked at is so still, the sheet of a publication under way is that of the marks, and a published exam has its grades, its locks and no failure without a failed paper |
| `ImportJobs_proofs` | `TypeOK`, `ImportsItsRows`, `ErrorsImportNothing`, `ConfirmedStaysClosed`, `ImportsExclude`, the refinement of `ImportBatch` | `ImportInv`: in addition, a request's job exists and was looked at, an import under way holds a PREVIEW job, new jobs have imported nothing, what is left to insert are rows of the job |
| `Promotions_proofs` | `TypeOK`, `OneActiveSession`, `PromotedAreLogged`, `SourceWasActive`, `RollbackIsWhole`; for one request at a time `CommittedOnce`, `RolledBackLeavesNobody`, `RolledBackOnce`, `EditsKeepTheRest`, `CompletedStays` | `PromotionInv`: in addition, a transaction's rows are those of its plan, the session of a plan was ACTIVE, a seat a promotion gave is in its log, and leads on from the class in the snapshot whatever batch the request named. `SerialInv`: what the request read of previews, logs, students and sessions is current, and a preview that has a log is used up |
| `AnnouncementPush_proofs` | `TypeOK`, `ShownAtMostThrice`; for one update at a time `PushedIsPublished` | `PushInv`: two runs never claimed one edition, an edition not claimed or still waiting was shown to nobody, and one being sent was shown less often than its attempt counts. `EditInv`: an update in flight that will not arm its announcement again keeps its time, or moves it to one that has come |
| the same, on `Portal` | `TabTypeOK`, `SwitchStartsAfresh`; `OwnChangesAreShown` from `ChangesAreTold`, `RequestsAreAdmitted` from `RequestsAreServed` | `TabInv`: what is the tab's own (its entry, what it awaits, what it changes) is of the role signed in, unless a password was changed in another role than it was sent in (`crossed`), and what a fresh entry is behind of is a change of a page of that role that does not tell it |
| `Accounts_proofs` | `TypeOK`, `OneStudentPerAccount`, `NeverAhead`, the refinement of `SignIns`; for one Admin request at a time `LinkedAccountsLive` | `AccountInv`: in addition, tokens, requests and links lead to users that exist, and no token, nor a sign-in about to be answered, is ahead of its user. The refinement goes through `StepKinds`: a step keeps the versions, closes one user's sessions, issues a token or changes a password. `OneStaffInv` for the links: only one caller is at work on records, whom it is about to link lives, and whom it is about to delete is linked to nobody |
| `SchoolRecords_proofs` | `TypeOK`, `OneLessonAtATime`; for one Admin request at a time `ReferencesResolve`, `NobodyGoesAstray`, `PeriodsRunForward` | `TimetableInv` for the first two. `ReferenceInv`: what the request in flight has looked at is still so when it writes: who it creates refers to rows that live, the class it moves students to lives, whom it is about to delete nothing refers to. `PeriodInv`: the times the request in flight checked fit the row it will write |
| the same, on `Assignments` | `WorkTypeOK`, `AnsweredIsWritten` | `WorkInv`: whom a request to mark has gone through, and did not fail on, has a submission, with its mark unless another marker wrote since |
| the same, on `AttendanceReports` | `RegisterTypeOK`, `AbsentAreNamed`, `MonthsAgree`, `AlertsFollowTheRule`, `JobCountsAsTheRule`; for one Admin `GuardiansSeeTheLessons` | `ReportInv`: the type, and finitely many records. `StreakIsBounded` and `WalkCounts` carry the alert: the walk backwards through the register, a recursive function, and the count of the statement agree at every length |

Each proof has one step per action and goes through a few lemmas for the shapes
of steps that many actions share (a request begins, a request ends, a row is
written).

The library's induction theorems take a predicate as a parameter and are out of the
provers' reach. Where an induction is needed it is made on a set instead: the numbers
(or the subsets) at which a statement fails have a least member if they have any
(`LeastNumber`, `GreatestNumber`, `SubsetInduction`), and at the least one it does
not fail. This is how sums over the charges, the walk through the register and the
completeness of marks are proved for sets of any finite size.

The two hypotheses about `Portal`, `ChangesAreTold` (each change invalidates the
queries it touches, up to `Forgotten`) and `RequestsAreServed` (each query is one the
server answers to the roles of its page, up to `Refused`), are constant formulas
about the tables of `PortalPages`: 58 pages and as many queries. TLC evaluates
both to be true of the application's tables, and the run `portal` follows every
query through every page. What is proved is that they are enough: whatever is sent, lost,
late or invalidated in whatever order, no key but the forgotten ones is shown without a
change of the tab's own, and no other request is refused for the role.

Checked by TLC only: liveness (`LateLeavesAreFlagged`, `DueArePushed`, `RunsEnd`),
which is out of reach of the prover; the tables of the pages, for the reason just
given; and, naturally, the two properties that are violated.

## Where code and documents part

Two runs are expected to be violated and are listed as findings:
`leave_race_bug` (a cancellation that read PENDING overwrites an approval) and
`portal_gate_bug` (the server answers the features to an Admin only, the web
application asks for them for every role, so a page behind a `FeatureGate` stays
empty for a Teacher, Student or Guardian).

Further configurations (`..._documents.cfg`) list properties that the documents, or a
reader, would expect and the code does not keep. TLC stops at the first it refutes;
each of them is refuted when it stands alone.

| Where | Property | What it shows |
|---|---|---|
| `leave_one.cfg` | `ApprovalExcusesEveryLesson` | section 4.4 of the freeze document sets every lesson of an approved leave to Excused; the code leaves Present alone |
| `fees_bulk.cfg` with two Admins | `BulkSkipsTheCharged` | two requests charge a student twice: the bulk request trusts a read made before its loop |
| `fees_bulk.cfg` | `NobodyIsChargedTwice` | a student whom a list of `studentIds` names twice is charged twice by one request (`modules/fees/controller.ts:330-336`) |
| `fees_race.cfg` with `Mills = {10, 30}` | `ExactBalanceIsAccepted` | the exact remaining balance may be refused, a difference of doubles being below it |
| `exams_documents.cfg` | `AbsentGetsAB` | a leave approved after the publication makes a student absent who keeps a grade (invariant 16) |
| | `PublishedOnce` | two publications that read DRAFT both publish (section 4.5) |
| | `PublishedTakesNoMarks` | marks accepted before a publication are written after it |
| | `MarkedIsComplete` | a result of a student of another class completes a paper a classmate is missing from |
| the same with `MCHundred`, `MCHundredTerms` | `FailedGetsF` | what passes is decided by the pass marks, the grade by the scale: 45 of 100 with 50 to pass is a failed C (invariant 15) |
| the same with `MCGap`, `MCGapTerms` | `GradedOnScale` | boundaries are whole numbers: 89.5 per cent has no grade |
| `sessions_documents.cfg` | `RolledBackOnce` | two rollbacks of one log both restore the snapshot |
| | `CommittedOnce` | two commits of one preview both go through |
| | `EditsKeepTheRest` | `updateStudent` writes back columns it read before another handler changed them |
| | `CompletedStays` | an activation decided before a closing reopens the session |
| | `PromotedKeepTheirBatch` | a commit believes the batch in its body (`modules/academic-sessions/controller.ts:608`): a student listed under another batch moves to that batch's class |
| | `LeaversHaveNoClass` | a rollback, or an edit of a leaver, gives a class to a student who has left (invariant 5) |
| `push_documents.cfg` | `PushedIsPublished` | one editor brings an announcement forward and it is pushed; another, who read it before, writes the later time back and does not arm it: it is hidden again, and not pushed when its time comes |
| | `PublishedStaysUnedited` | an edit that looked before the publication writes after it |
| `accounts_documents.cfg` | `AlwaysAnAdmin` | the bulk deletion counts no Admins, and two who step down, or delete each other, at once both pass the guard LASTADMIN |
| | `LinkedAccountsLive` | with two Admins a student is linked to an account that is deleted meanwhile |
| | `ChangesFollowTheirRead` | a password that was reset is overwritten by a change that compared the old one before |
| | `EveryAccountCanSignIn` | `createGuardian` stores the address as it was written, the sign-in looks it up in lower case |
| | `LoginIdsWork` | a login id carries the slug the school had: after a change of the slug the school is shown login ids with the new one, and students sign in with the old |
| `school_documents.cfg` | `ReferencesResolve` | with two Admins a lesson is created for a subject that is deleted meanwhile |
| | `PeriodsRunForward` | two changes of a period, of its start and of its end, each checked against the other time as it was |
| | `StudentsHaveTheirClass` | one Admin deletes a class that a promotion has emptied and rolls the promotion back: its students are in a class that is gone (`modules/academic-sessions/controller.ts:719-725`) |
| | `AlertedMissedDays` | the alert counts lessons and says days (`services/cron.service.ts:299`): three lessons missed on one day are "3 consecutive days"; lines 1183, 1351 and 1421 of the freeze document mean days |
| | `AbsenteesHaveStreaks` | "streak is always >= 1" (`modules/attendance/controller.ts:1449`) is not so for an absentee of an earlier date, or of one lesson among two |
| `portal.cfg` | `FeeSummaryIsTold` | charging a class invalidates the charges and not the summary (line 1429 of the frontend freeze wants both) |
| | `NothingOfTheUserBefore` | a sign-out keeps the cache (line 1573 of the frontend freeze clears it): the next user of the tab is shown what the one before had asked for |
| | `SignedOutStaysOut` | the answer of a switch of role that comes after the sign-out signs the user in again |
| | `RolesStayApart` | a password sent as one role and changed after a switch to another signs the first one in again (`apps/features/auth/ChangePasswordPage.tsx:65`) and keeps the cache the second has filled |
| | `ShownToTheRole` | a page that is not drawn anew keeps showing what the other role had asked for: clearing the cache tells no observer (`apps/app/App.tsx:1212`) |
| | `SwitchedPagesAskAgain` | so does one whose first answer was dropped with the cache: it waits for it |
| | `LateAnswersAreFresh` | a first answer that was on its way when a change was answered is shown as fresh |

The exceptions of `OwnChangesAreShown` (`Forgotten`) and of `RequestsAreAdmitted`
(`Refused`) are lists of what the code forgets or refuses today. Among the former, 118
pairs of a page and a key, are the marking and the leave pages, which do not tell the
attendance reports; the pages that enrol, move and delete students, which do not tell
the reports and the fees that list or count them (the day's absentees and summary join
`students`, `modules/attendance/controller.ts:449-469` and `1407-1417`); and the marking
of an assignment, which does not tell the list that counts its submissions
(`modules/assignments/controller.ts:122-135`). Among the latter,
`GET /academic-sessions/:id`, which line 979 of the freeze document and line 425 of
the frontend freeze promise and no route answers, the exams a student lists, and the
pages the router leaves open to a guardian.

Seen while reading, and outside what is modelled or without a property:

- `transitionCommit` moves students to the class of the same level while the preview
  announces the next (`modules/academic-sessions/controller.ts:626`); the guard
  CLASSES_NOT_CONFIGURED of section 4.10 is missing there; `createClass` never fills
  the columns promotion matches classes by (`modules/classes/controller.ts:63`).
- The rate of a student's history counts Present, the summaries Present and Late; a
  streak at its end point stops at Excused, the rule passes over it.
- `recordClassAttendance` takes any students, of the class or not, and any weekday;
  the day's summary counts the absences of students who were deleted; the guardian's
  reads are still answered for a deleted student, and the results of a deleted exam
  (`modules/guardian-portal/controller.ts:245`).
- The frontend freeze shows a `consecutiveAbsentStreak` (lines 1064, 1094, 1316) that
  no answer carries.
- Bulk marking is not in a transaction (line 1407 of the freeze document);
  `auth.resetPassword` of the web application has no route.
- The web application drops its token in the step in which it calls `POST /auth/logout`;
  axios reads the token in an interceptor that runs afterwards, so the call is
  answered 401 and the version is not raised by it.

## Limits

- Who may call what comes from the token; in `Accounts` it is modelled, in the other
  modules a constant: roles, class teachers, wards.
- `SchoolRecords` leaves `students.batch_id` out, which no deletion looks at and imports
  fill in without a look, and the status of a student, which decides who a promotion
  may move: any part of a class is.
- One school; active, with its features on, outside of `Accounts` and `Portal`; one
  active session where a handler asks for it; the timetable is a constant of
  `LeaveLifecycle` and the audience of an announcement one of `AnnouncementPush`.
- Days for leaves and the register, abstract instants for announcements; one clock for
  server and database, and one time zone. The hour the alert waits for is left to the
  environment: a run may come on any day, or on none.
- Names, texts, remarks, passwords and formatting are left out, and so are percentages,
  totals, ranks, paging and orders by name; batches of marks and attendance are well
  formed, as the handlers check before they write.
- Tokens do not run out by time, which `Expire` of `Portal` stands for on the other side.
- Rows are locked where a handler asks for it or updates row after row; locks
  within one statement are not modelled, since a statement is one step.
- A page of the web application is what it reads and changes; its forms, and what
  it computes, are not modelled. Of other tabs and users `Portal` says nothing: a page
  may always be behind what they do.

Not modelled: calendar events, notifications, school profile and settings, external
results and report cards, which are single rows or output nothing else depends on;
the switching of features and the lists of the super administration, and the super
admin's application, a second client of the same shape; the updates of a batch, a
class, a subject and a guardian, which write labels; start-up, configuration,
logging and error handling, which keep no state.

## Plan

Done, the parts with most of the concurrency and most of the promises first: leaves
with attendance, fees, exams, imports, promotions, announcements; then accounts,
records and timetable, assignments, the register's reports, the views of fees and
exams, and the web application. What would come next:

1. The super admin's application and the features in `Accounts` and `Portal`.
2. Exams: totals, percentages and ranks of the summary, external results; an
   exam and a leave in one module, to follow an absence through both.
3. Proofs: abstract specifications of a promotion (whole, once, undone whole), of a
   publication (grades appear together and stay) and of an announcement's delivery,
   and that the handlers implement them as those of leaves, fees, imports and
   accounts do; the audience of an edition; what `Forgotten` would have to lose for
   `OwnChangesAreShown` to hold without it.
