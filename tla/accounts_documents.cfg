SPECIFICATION MCSpec
CONSTANTS
  Users = {boss, kim, lee}
  Students = {s1, s2}
  Guardians = {g1}
  FirstAdmin = boss
  Callers = {office, kim_s}
  Staff = {office, kim_s}
  Third = lee
  Second = none
  Renamed = {"school", "renamed"}
  Admissions = {"a1"}
  Slugs = {"school", "renamed"}
  Mails <- WrittenMails
  Capitals <- WrittenInCapitals
  RoleSets <- TeacherOrAdmin
  Teaching = {}
  Attending = {}
  NoOne = NoOne
  MaxVersion = 2
  MaxTokens = 2
CHECK_DEADLOCK FALSE
INVARIANTS
  AlwaysAnAdmin
  LinkedAccountsLive
  LoginIdsWork
  EveryAccountCanSignIn
PROPERTIES
  ChangesFollowTheirRead
