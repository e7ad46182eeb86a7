SPECIFICATION MCSpec
CONSTANTS
  Users = {boss, kim, lee}
  Students = {s1, s2}
  Guardians = {g1}
  FirstAdmin = boss
  Callers = {office, kim_s}
  Staff = {office}
  Third = lee
  Second = kim_s
  Renamed = {"school"}
  Admissions = {"a1"}
  Slugs = {"school", "renamed"}
  Mails <- StaffMails
  Capitals = {}
  RoleSets <- TeacherOrAdmin
  Teaching = {}
  Attending = {}
  NoOne = NoOne
  MaxVersion = 2
  MaxTokens = 2
CHECK_DEADLOCK FALSE
INVARIANTS
  OneStudentPerAccount
  LinkedAccountsLive
PROPERTIES
  ImplementsSignIns
