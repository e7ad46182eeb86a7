SPECIFICATION MCSpec
CONSTANTS
  Batches = {b1}
  Classes = {c1, c2}
  Subjects = {maths, art}
  Teachers = {tom}
  Students = {s1, s2}
  BatchOf <- OneBatch
  SessionOf <- TwoSessions
  ShapeOf <- OneShape
  Days = {"Monday"}
  Numbers = {1}
  Times = {8, 9}
  Admins = {office}
  Nowhere = Nowhere
  Nothing = Nothing
  Works = {w1}
  Markers = {m1, m2}
  UserOf <- OfficeAndTeacher
  Office = Office
  ClassTeacherOf <- NobodysTeacher
  Marks = {"PENDING", "COMPLETED"}
  MaxEntries = 2
  LastDay = 1
  Dates = {1, 2}
  WeekdayOf <- EveryDayTheSame
  AlertAt = 3
CHECK_DEADLOCK FALSE
INVARIANTS
  ReferencesResolve
  OneLessonAtATime
  AbsentAreNamed
  MonthsAgree
PROPERTIES
  NobodyGoesAstray
  AlertsFollowTheRule
  AnsweredIsWritten
