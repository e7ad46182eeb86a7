---------------------------- MODULE PortalPages ----------------------------
(***************************************************************************)
(* The pages of the school's web application: what each asks the server    *)
(* for, under which key of the query cache it keeps the answer, what it    *)
(* changes, and which keys it marks out of date when a change is answered. *)
(* The router then says which active role a page is for and whether it     *)
(* waits for the features of the school.  Filters, dates and page numbers  *)
(* in a key are one "filters", the identifiers one "id"; what a page       *)
(* computes from its answers and how it shows them is left out.            *)
(***************************************************************************)
EXTENDS ServerRoutes, Sequences

Query(key, route) == [key |-> key, route |-> route]
Change(route, tells) == [route |-> route, tells |-> tells]
PartFor(roles, reads) == [roles |-> roles, reads |-> reads, does |-> {}]
Part(reads, does) == [roles |-> Everyone, reads |-> reads, does |-> does]

(* Queries that several pages share.                                       *)
Batches == Query(<<"batches">>, BatchRoutes.list)
Classes == Query(<<"classes">>, ClassRoutes.list)
Subjects == Query(<<"subjects">>, SubjectRoutes.list)
Students == Query(<<"students">>, StudentRoutes.list)
StudentsBy == Query(<<"students", "filters">>, StudentRoutes.list)
SessionChoice == Query(<<"academic-sessions">>, SessionRoutes.list)
SessionsList == Query(<<"sessions", "list">>, SessionRoutes.list)
Periods == Query(<<"school-periods">>, PeriodRoutes.list)
Timetable == Query(<<"timetable">>, TimetableRoutes.list)
TimetableBy == Query(<<"timetable", "filters">>, TimetableRoutes.list)
Teachers == Query(<<"users", "filters">>, UserRoutes.list)
OnCampus == Query(<<"leave", "on-campus">>, LeaveRoutes.onCampus)
LeaveBy == Query(<<"leave", "filters">>, LeaveRoutes.list)
LeaveList == Query(<<"leave", "list">>, LeaveRoutes.list)
ExamsBy == Query(<<"exams", "filters">>, ExamRoutes.list)
ExamsList == Query(<<"exams", "list">>, ExamRoutes.list)
ExamById == Query(<<"exams", "id">>, ExamRoutes.get)
AssignmentsList == Query(<<"assignments", "list">>, AssignmentRoutes.list)
AnnouncementsBy == Query(<<"announcements", "filters">>, AnnouncementRoutes.list)
AnnouncementsList == Query(<<"announcements", "list">>, AnnouncementRoutes.list)
HistoryOf(id) == Query(<<"student-attendance", id>>, AttendanceRoutes.studentHistory)
StudentSummary == Query(<<"student-attendance-summary", "id">>, AttendanceRoutes.studentSummary)
Toppers == Query(<<"toppers", "filters">>, AttendanceRoutes.toppers)
Streaks == Query(<<"streaks", "id">>, AttendanceRoutes.streaks)
DailySummary == Query(<<"daily-summary", "filters">>, AttendanceRoutes.dailySummary)
Charges == Query(<<"fees", "charges", "filters">>, FeeRoutes.charges)

(* Hooks and parts that appear on several pages.                           *)
NotificationBell ==
  Part({Query(<<"notifications", "unread-count">>, NotificationRoutes.list)}, {})
FeatureFlag == Query(<<"features">>, FeatureRoutes.list)
CurrentSession == Query(<<"sessions", "current">>, SessionRoutes.current)
Children == Query(<<"guardian-portal", "children">>, ChildRoutes.children)
OfChild(what) == Query(<<"guardian-portal", "id", what>>, ChildRoutes[what])

---------------------------------------------------------------------------
(* Dashboards and the timetable.                                           *)
AdminDashboardPage ==
  Part({Query(<<"students", "count">>, StudentRoutes.list), OnCampus, LeaveBy, ExamsBy,
        Query(<<"attendance-summary", "filters">>, AttendanceRoutes.summary)}, {})

UpcomingEventsCard == Part({Query(<<"events", "upcoming">>, EventRoutes.list)}, {})
ClassRankingsCard == PartFor(Staff, {Toppers})
StudentDashboard == PartFor({"Student"}, {HistoryOf("filters"), Timetable, Streaks})
DashboardPage == Part({TimetableBy, Periods, DailySummary}, {})
AbsenteePopup ==
  PartFor(Staff, {Query(<<"absentees", "filters">>, AttendanceRoutes.absentees)})

TeacherDashboardPage == Part({TimetableBy, AssignmentsList}, {})

TimetablePage == Part({TimetableBy, Periods, Classes, Teachers, DailySummary}, {})
CreateSlotDrawer ==
  Part({Classes, Subjects, Teachers},
       {Change(TimetableRoutes.create, {<<"timetable">>, <<"school-periods">>})})
DeleteSlotDialog == Part({}, {Change(TimetableRoutes.delete, {<<"timetable">>})})
TeacherTimetablePage == Part({TimetableBy, Periods}, {})

(* Attendance.                                                             *)
Marking == {Change(AttendanceRoutes.recordClass, {<<"student-attendance">>, <<"attendance-summary", "">>}),
            Change(AttendanceRoutes.correct, {<<"student-attendance">>, <<"attendance-summary", "">>})}
RecordAttendancePage == Part({TimetableBy, Streaks, Students, HistoryOf("id")}, Marking)
RankingsTab == Part({Classes, Toppers}, {})
AttendanceSummaryPage ==
  Part({Query(<<"students-list-picker">>, StudentRoutes.list), StudentSummary}, {})
StudentAttendanceHistoryPage ==
  Part({HistoryOf("id")},
       {Change(AttendanceRoutes.correct, {<<"student-attendance", "id">>})})
AttendanceCorrectionPage ==
  Part({Classes, StudentsBy, HistoryOf("id")},
       {Change(AttendanceRoutes.correct, {<<"student-attendance">>})})
MonthlySheetPage ==
  Part({Classes, Subjects,
        Query(<<"attendance-monthly-sheet", "filters">>, AttendanceRoutes.monthlySheet)}, {})

(* The tables an Admin manages.                                            *)
Managing(routes, tells) == {Change(routes[r], tells) : r \in DOMAIN routes \ {"list"}}

UsersPage == Part({Teachers}, Managing(UserRoutes, {<<"users">>}))
StudentsPage ==
  Part({StudentsBy, Classes, Batches},
       {Change(StudentRoutes[r], {<<"students">>}) : r \in {"create", "update", "delete", "bulkDelete"}})
ClassesPage ==
  Part({Classes, Batches},
       {Change(ClassRoutes[r], {<<"classes">>}) : r \in {"create", "update", "delete", "bulkDelete"}}
         \cup {Change(ClassRoutes.promote, {<<"classes">>, <<"students">>})})
BatchesPage == Part({Batches}, Managing(BatchRoutes, {<<"batches">>}))
SubjectsPage == Part({Subjects}, Managing(SubjectRoutes, {<<"subjects">>}))

(* A slip: a change of a period that tells the periods alone.              *)
PeriodsToldAlone == Part({Periods}, Managing(PeriodRoutes, {<<"school-periods">>}))

SchoolPeriodsPage ==
  Part({Periods}, Managing(PeriodRoutes, {<<"school-periods">>, <<"timetable">>}))
EventsPage ==
  Part({Query(<<"events", "manage">>, EventRoutes.list)}, Managing(EventRoutes, {<<"events">>}))
StudentListPage == Part({StudentsBy}, {})
CreateStudentPage ==
  Part({Classes, Batches}, {Change(StudentRoutes.create, {<<"students">>})})
StudentDetailPage ==
  Part({Query(<<"students", "list">>, StudentRoutes.list),
        Query(<<"guardians", "student", "id">>, StudentRoutes.guardians)},
       {Change(GuardianRoutes.delete, {<<"guardians", "student", "id">>})})

(* Academic sessions, the school's profile and features.                   *)
Told(routes, tells, names) == {Change(routes[r], tells) : r \in names}

SessionListPage ==
  Part({SessionsList}, Told(SessionRoutes, {<<"sessions">>}, {"create", "activate", "close"}))
SessionDetailPage ==
  Part({Query(<<"sessions", "id">>, SessionRoutes.getById),
        Query(<<"classes", "filters">>, ClassRoutes.list)},
       Told(SessionRoutes, {<<"sessions">>}, {"activate", "close"})
         \cup {Change(SessionRoutes.copyTimetable, {})})
BatchPromotionWizardPage ==
  Part({SessionsList},
       {Change(SessionRoutes.transitionPreview, {}),
        Change(SessionRoutes.transitionCommit, {<<"sessions">>})})
SchoolProfilePage ==
  Part({Query(<<"school-profile">>, ProfileRoutes.get)},
       {Change(ProfileRoutes.update, {<<"school-profile">>}), Change(ProfileRoutes.upload, {})})
FeatureFlagsPage == Part({FeatureFlag}, {})

(* Leave, exams, fees, assignments, imports.                               *)
LeaveManagementAdminPage ==
  Part({Classes, LeaveBy, OnCampus}, Told(LeaveRoutes, {<<"leave">>}, {"approve", "reject"}))
LeaveQueueClassTeacherPage ==
  Part({LeaveList},
       Told(LeaveRoutes, {<<"leave">>}, {"approve", "reject", "depart", "return"}))

ExamListPage == Part({Classes, SessionChoice, ExamsBy}, {Change(ExamRoutes.create, {<<"exams">>})})
ExamDetailPage ==
  Part({ExamById, Subjects, SessionChoice},
       Told(ExamRoutes, {<<"exams", "id">>}, {"publish", "unpublish"})
         \cup Told(ExamRoutes, {}, {"addSubject", "removeSubject"}))
ConsolidatedResultsPage ==
  Part({ExamById, Query(<<"exams", "id", "results">>, ExamRoutes.results)}, {})
AssignedExamListPage == Part({ExamsList}, {})
MarksEntrySheetPage ==
  Part({ExamById, Query(<<"exams", "id", "subjects", "id", "marks">>, ExamRoutes.marks)},
       {Change(ExamRoutes.enterMarks, {<<"exams", "id", "subjects", "id", "marks">>})})

FeeChargeListPage ==
  Part({Classes, SessionChoice, Charges},
       Told(FeeRoutes, {<<"fees", "charges">>}, {"recordPayment", "delete"}))
BulkChargeWizardPage ==
  Part({Classes, SessionChoice, Students}, {Change(FeeRoutes.bulk, {<<"fees", "charges">>})})
OutstandingFeesSummaryPage ==
  Part({SessionChoice, Query(<<"fees", "summary", "filters">>, FeeRoutes.summary)}, {})

CreateAssignmentForm ==
  Part({Classes, Subjects, SessionChoice}, {Change(AssignmentRoutes.create, {<<"assignments">>})})
AssignmentListAdminPage ==
  Part({Classes, Query(<<"assignments", "filters">>, AssignmentRoutes.list)},
       Told(AssignmentRoutes, {<<"assignments">>}, {"close", "delete"}))
AssignmentListTeacherPage == Part({AssignmentsList}, {})
SubmissionPanel ==
  Part({Query(<<"assignments", "id", "submissions">>, AssignmentRoutes.submissions)},
       {Change(AssignmentRoutes.bulkMark, {<<"assignments", "id", "submissions">>})})

CsvImportWizardPage == Part({}, Told(ImportRoutes, {}, {"preview", "confirm", "cancel"}))
ImportHistoryPage == Part({Query(<<"import", "history">>, ImportRoutes.history)}, {})

(* Announcements and notifications.                                        *)
AnnouncementFeedPage ==
  Part({AnnouncementsBy}, {Change(AnnouncementRoutes.delete, {<<"announcements">>})})
CreateAnnouncementPage ==
  Part({Classes}, {Change(AnnouncementRoutes.create, {<<"announcements">>})})
EditAnnouncementPage ==
  Part({Query(<<"announcements", "id">>, AnnouncementRoutes.get), Classes},
       {Change(AnnouncementRoutes.update, {<<"announcements">>})})
NotificationHistoryPage ==
  Part({Query(<<"notifications", "filters">>, NotificationRoutes.list)},
       Told(NotificationRoutes, {<<"notifications">>}, {"markRead", "markAllRead"}))

(* The pages of a student and of a guardian.                               *)
StudentDashboardPage == Part({StudentSummary, AnnouncementsList, ExamsList, CurrentSession}, {})
StudentAttendancePage == Part({HistoryOf("id"), StudentSummary}, {})
StudentResultsPage == Part({ExamsList, CurrentSession}, {})
ExamResultCard == Part({Query(<<"exams", "id", "report-card">>, ExamRoutes.studentResult)}, {})
StudentAssignmentsPage == Part({CurrentSession, AssignmentsList}, {})
StudentFeesPage == Part({Charges}, {})
StudentAnnouncementsPage == Part({AnnouncementsList}, {})
StudentTimetablePage == Part({TimetableBy, Periods}, {})

GuardianDashboardPage ==
  Part({Children, OfChild("attendance"), OfChild("results"), AnnouncementsList}, {})
GuardianAttendancePage == Part({Children, OfChild("attendance")}, {})
GuardianTimetablePage == Part({Children, OfChild("timetable")}, {})
GuardianResultsPage == Part({Children, OfChild("results")}, {})
GuardianFeesPage == Part({Children, OfChild("fees")}, {})
GuardianAssignmentsPage == Part({Children, OfChild("assignments")}, {})
GuardianLeaveHistoryPage ==
  Part({Children, OfChild("leave")},
       {Change(LeaveRoutes.cancel, {<<"guardian-portal", "id", "leave">>})})
GuardianLeaveFormPage ==
  Part({Children}, {Change(LeaveRoutes.submit, {<<"guardian-portal", "id", "leave">>})})

---------------------------------------------------------------------------
(* The router: the roles of a page, and whether it sits behind a           *)
(* FeatureGate.  A page asks for what its parts for the active role ask    *)
(* for.  Every page but the change of the password also has the bell of    *)
(* the layout.                                                             *)
Page(name, roles, gated, parts) ==
  [name |-> name, roles |-> roles, gated |-> gated,
   reads |-> [r \in Everyone |->
     UNION {p.reads : p \in {p \in parts \cup {NotificationBell} : r \in p.roles}}],
   does |-> UNION {p.does : p \in parts}]

Gated(name, roles, parts) == Page(name, roles, TRUE, parts)
Open(name, roles, parts) == Page(name, roles, FALSE, parts)

ChangePasswordPage ==
  [name |-> "/change-password", roles |-> Everyone, gated |-> FALSE,
   reads |-> [r \in Everyone |-> {}], does |-> {}]

TeachingPages == {
  Gated("/dashboard", Everyone, {DashboardPage, UpcomingEventsCard, ClassRankingsCard, StudentDashboard, AbsenteePopup}),
  Gated("/timetable", Everyone, {TimetablePage, CreateSlotDrawer, DeleteSlotDialog}),
  Gated("/attendance/record", Staff, {RecordAttendancePage}),
  Gated("/attendance/summary", Office, {AttendanceSummaryPage, RankingsTab}),
  Gated("/students/:studentId/attendance", Office, {StudentAttendanceHistoryPage}),
  Gated("/attendance/monthly-sheet", Staff, {MonthlySheetPage})}

ManagePages == {
  Open("/manage/users", Office, {UsersPage}),
  Open("/manage/students", Office, {StudentsPage}),
  Open("/manage/classes", Office, {ClassesPage}),
  Open("/manage/batches", Office, {BatchesPage}),
  Open("/manage/subjects", Office, {SubjectsPage}),
  Gated("/manage/school-periods", Office, {SchoolPeriodsPage}),
  Open("/manage/events", Office, {EventsPage}),
  Open("/admin/sessions", Office, {SessionListPage}),
  Open("/admin/sessions/:id", Office, {SessionDetailPage}),
  Open("/admin/sessions/:id/promote", Office, {BatchPromotionWizardPage}),
  Open("/admin/settings/profile", Office, {SchoolProfilePage}),
  Open("/admin/students", Office, {StudentListPage}),
  Open("/admin/students/new", Office, {CreateStudentPage}),
  Open("/admin/students/:id", Office, {StudentDetailPage})}

AdminPages == {
  Open("/admin/leave", Office, {LeaveManagementAdminPage}),
  Gated("/admin/attendance/correction", Office, {AttendanceCorrectionPage}),
  Open("/admin/exams", Office, {ExamListPage}),
  Open("/admin/exams/:examId", Office, {ExamDetailPage}),
  Open("/admin/exams/:examId/results", Office, {ConsolidatedResultsPage}),
  Open("/admin/fees", Office, {FeeChargeListPage}),
  Open("/admin/fees/bulk", Office, {BulkChargeWizardPage}),
  Open("/admin/fees/summary", Office, {OutstandingFeesSummaryPage}),
  Open("/admin/assignments", Office, {AssignmentListAdminPage, CreateAssignmentForm}),
  Open("/admin/import", Office, {CsvImportWizardPage}),
  Open("/admin/import/history", Office, {ImportHistoryPage}),
  Open("/admin/settings/features", Office, {FeatureFlagsPage}),
  Open("/admin/dashboard", Office, {AdminDashboardPage})}

SharedPages == {
  Open("/announcements", Everyone, {AnnouncementFeedPage}),
  Open("/announcements/new", Staff, {CreateAnnouncementPage}),
  Open("/announcements/:announcementId/edit", Staff, {EditAnnouncementPage}),
  Open("/notifications", Everyone, {NotificationHistoryPage}),
  Open("/teacher/leave", {"Teacher"}, {LeaveQueueClassTeacherPage}),
  Open("/teacher/exams", {"Teacher"}, {AssignedExamListPage}),
  Open("/teacher/exams/:examId/subjects/:subjectId/marks", {"Teacher"}, {MarksEntrySheetPage}),
  Open("/teacher/assignments", {"Teacher"}, {AssignmentListTeacherPage, SubmissionPanel})}

FamilyPages == {
  Gated("/student/attendance", {"Student"}, {StudentAttendancePage}),
  Open("/student/results", {"Student"}, {StudentResultsPage, ExamResultCard}),
  Open("/student/assignments", {"Student"}, {StudentAssignmentsPage}),
  Open("/student/fees", {"Student"}, {StudentFeesPage}),
  Open("/student/announcements", {"Student"}, {StudentAnnouncementsPage}),
  Open("/guardian/dashboard", Family, {GuardianDashboardPage}),
  Gated("/guardian/attendance", Family, {GuardianAttendancePage}),
  Open("/guardian/leave", Family, {GuardianLeaveHistoryPage}),
  Open("/guardian/leave/new", Family, {GuardianLeaveFormPage}),
  Open("/guardian/results", Family, {GuardianResultsPage}),
  Open("/guardian/fees", Family, {GuardianFeesPage}),
  Open("/guardian/assignments", Family, {GuardianAssignmentsPage}),
  Gated("/guardian/timetable", Family, {GuardianTimetablePage})}

RolePages == {
  Open("/teacher/dashboard", {"Teacher"}, {TeacherDashboardPage}),
  Open("/student/dashboard", {"Student"}, {StudentDashboardPage}),
  Gated("/teacher/timetable", {"Teacher"}, {TeacherTimetablePage}),
  Gated("/student/timetable", {"Student"}, {StudentTimetablePage})}

AllPages == TeachingPages \cup ManagePages \cup AdminPages \cup SharedPages
              \cup FamilyPages \cup RolePages
=============================================================================
