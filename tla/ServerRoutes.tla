---------------------------- MODULE ServerRoutes ----------------------------
(***************************************************************************)
(* The routes of the server, one record per router: who is let in          *)
(* (requireRole), the tables whose rows decide what a GET lists, counts or *)
(* sums, those it joins to choose among them included, and the tables the  *)
(* others write.  Left out are names and other columns that a GET only     *)
(* looks up by their id, the row that a request itself names (404 when it  *)
(* is gone), what narrows a GET to the lessons of the teacher or to the    *)
(* class of the student or child who asks, features that may be off, and   *)
(* the numbers on a row.  The account of a student, students.user_id, is   *)
(* a table of its own here, student_accounts.                              *)
(***************************************************************************)

Everyone == {"Admin", "Teacher", "Student", "Guardian"}
Office == {"Admin"}
Staff == {"Admin", "Teacher"}
School == {"Admin", "Teacher", "Student"}
Family == {"Guardian"}

Get(roles, tables) == [roles |-> roles, of |-> tables, to |-> {}]
Put(roles, tables) == [roles |-> roles, of |-> {}, to |-> tables]
NoRoute == Get({}, {})

AuthRoutes == [
  changePassword |-> Put(Everyone, {}),
  switchRole |-> Put(Everyone, {})]

UserRoutes == [
  list |-> Get(Everyone, {"users"}),
  create |-> Put(Office, {"users"}),
  updateRoles |-> Put(Office, {"users"}),
  delete |-> Put(Office, {"users", "student_accounts"}),
  bulkDelete |-> Put(Office, {"users", "student_accounts"})]

StudentRoutes == [
  list |-> Get(Everyone, {"students", "student_accounts"}),
  get |-> Get(Everyone, {"students", "student_accounts"}),
  guardians |-> Get(Office, {"guardians"}),
  create |-> Put(Office, {"students", "users"}),
  update |-> Put(Office, {"students", "users"}),
  delete |-> Put(Office, {"students"}),
  bulkDelete |-> Put(Office, {"students"})]

GuardianRoutes == [
  create |-> Put(Office, {"guardians", "users"}),
  update |-> Put(Office, {"guardians"}),
  delete |-> Put(Office, {"guardians"})]

BatchRoutes == [
  list |-> Get(Everyone, {"batches"}),
  create |-> Put(Office, {"batches"}),
  update |-> Put(Office, {"batches"}),
  delete |-> Put(Office, {"batches"}),
  bulkDelete |-> Put(Office, {"batches"})]

ClassRoutes == [
  list |-> Get(Everyone, {"classes"}),
  create |-> Put(Office, {"classes"}),
  update |-> Put(Office, {"classes"}),
  delete |-> Put(Office, {"classes"}),
  bulkDelete |-> Put(Office, {"classes"}),
  promote |-> Put(Office, {"students"})]

SubjectRoutes == [
  list |-> Get(Everyone, {"subjects"}),
  create |-> Put(Office, {"subjects"}),
  update |-> Put(Office, {"subjects"}),
  delete |-> Put(Office, {"subjects"}),
  bulkDelete |-> Put(Office, {"subjects"})]

(* GET /academic-sessions/:id is asked for by the client and has no route. *)
SessionRoutes == [
  current |-> Get(Everyone, {"academic_sessions"}),
  list |-> Get(Office, {"academic_sessions"}),
  getById |-> NoRoute,
  create |-> Put(Office, {"academic_sessions"}),
  activate |-> Put(Office, {"academic_sessions"}),
  close |-> Put(Office, {"academic_sessions"}),
  copyTimetable |-> Put(Office, {"timeslots"}),
  transitionPreview |-> Put(Office, {"promotion_previews"}),
  transitionCommit |-> Put(Office, {"students", "promotion_previews", "promotion_logs"})]

TimetableRoutes == [
  list |-> Get(Everyone, {"timeslots"}),
  create |-> Put(Office, {"timeslots"}),
  delete |-> Put(Office, {"timeslots"})]

(* A timetable row shows the times of its period.                          *)
PeriodRoutes == [
  list |-> Get(Everyone, {"school_periods"}),
  create |-> Put(Office, {"school_periods"}),
  update |-> Put(Office, {"school_periods", "timeslots"}),
  delete |-> Put(Office, {"school_periods"})]

AttendanceRoutes == [
  recordClass |-> Put(Staff, {"attendance_records"}),
  correct |-> Put(Staff, {"attendance_records"}),
  summary |-> Get(Staff, {"attendance_records", "students"}),
  streaks |-> Get(School, {"attendance_records", "students"}),
  toppers |-> Get(School, {"attendance_records", "students"}),
  dailySummary |-> Get(School, {"attendance_records", "students", "timeslots"}),
  monthlySheet |-> Get(Staff, {"attendance_records", "students"}),
  absentees |-> Get(Staff, {"attendance_records", "students"}),
  studentHistory |-> Get(School, {"attendance_records"}),
  studentSummary |-> Get(School, {"attendance_records"})]

LeaveRoutes == [
  onCampus |-> Get(Staff, {"leave_requests"}),
  submit |-> Put(Everyone \ {"Student"}, {"leave_requests"}),
  list |-> Get(Everyone \ {"Student"}, {"leave_requests", "students"}),
  approve |-> Put(Staff, {"leave_requests", "attendance_records", "exam_results"}),
  reject |-> Put(Staff, {"leave_requests"}),
  cancel |-> Put({"Admin", "Guardian"}, {"leave_requests"}),
  depart |-> Put(Staff, {"leave_requests"}),
  return |-> Put(Staff, {"leave_requests"})]

ExamRoutes == [
  list |-> Get(Staff, {"exams", "exam_subjects"}),
  get |-> Get(Everyone, {"exams", "exam_subjects"}),
  marks |-> Get(Staff, {"exam_subjects", "exam_results", "students"}),
  results |-> Get(Staff, {"exams", "exam_subjects", "exam_results", "exam_student_summaries"}),
  studentResult |-> Get(Everyone, {"exams", "exam_subjects", "exam_results", "exam_student_summaries"}),
  create |-> Put(Office, {"exams"}),
  publish |-> Put(Office, {"exams", "exam_subjects", "exam_results", "exam_student_summaries"}),
  unpublish |-> Put(Office, {"exams", "exam_subjects"}),
  addSubject |-> Put(Office, {"exam_subjects"}),
  removeSubject |-> Put(Office, {"exam_subjects"}),
  enterMarks |-> Put(Staff, {"exam_results", "exam_subjects"})]

FeeRoutes == [
  charges |-> Get(Everyone, {"fee_charges", "fee_payments", "students"}),
  summary |-> Get(Staff, {"fee_charges", "fee_payments", "students"}),
  create |-> Put(Office, {"fee_charges"}),
  bulk |-> Put(Office, {"fee_charges"}),
  delete |-> Put(Office, {"fee_charges"}),
  recordPayment |-> Put(Office, {"fee_payments"})]

AnnouncementRoutes == [
  list |-> Get(Everyone, {"announcements"}),
  get |-> Get(Everyone, {"announcements"}),
  create |-> Put(Staff, {"announcements"}),
  update |-> Put(Staff, {"announcements"}),
  delete |-> Put(Staff, {"announcements"})]

AssignmentRoutes == [
  list |-> Get(Everyone, {"assignments", "assignment_submissions"}),
  submissions |-> Get(Staff, {"assignments", "assignment_submissions"}),
  create |-> Put(Staff, {"assignments", "assignment_submissions"}),
  delete |-> Put(Staff, {"assignments"}),
  close |-> Put(Office, {"assignments"}),
  bulkMark |-> Put(Staff, {"assignment_submissions"})]

ImportRoutes == [
  history |-> Get(Office, {"import_jobs"}),
  preview |-> Put(Office, {"import_jobs"}),
  confirm |-> Put(Office, {"import_jobs", "students", "users"}),
  cancel |-> Put(Office, {"import_jobs"})]

EventRoutes == [
  list |-> Get(School, {"events"}),
  create |-> Put(Office, {"events"}),
  update |-> Put(Office, {"events"}),
  delete |-> Put(Office, {"events"})]

(* A slip: requireRole without the guardians. *)
NotificationRoutesOfSchool == [
  list |-> Get(School, {"notifications"}),
  markRead |-> Put(School, {"notifications"}),
  markAllRead |-> Put(School, {"notifications"})]

NotificationRoutes == [
  list |-> Get(Everyone, {"notifications"}),
  markRead |-> Put(Everyone, {"notifications"}),
  markAllRead |-> Put(Everyone, {"notifications"})]

ProfileRoutes == [
  get |-> Get(Everyone, {"tenants"}),
  update |-> Put(Office, {"tenants"}),
  upload |-> Put(Office, {})]

FeatureRoutes == [list |-> Get(Office, {"tenant_features"})]

ChildRoutes == [
  children |-> Get(Family, {"students"}),
  attendance |-> Get(Family, {"attendance_records"}),
  timetable |-> Get(Family, {"timeslots"}),
  results |-> Get(Family, {"exams", "exam_student_summaries"}),
  fees |-> Get(Family, {"fee_charges", "fee_payments"}),
  assignments |-> Get(Family, {"assignments", "assignment_submissions"}),
  leave |-> Get(Family, {"leave_requests"})]
=============================================================================
