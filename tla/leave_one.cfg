SPECIFICATION FairSpec
CONSTANTS
  admin = admin
  teacher = teacher
  guardian = guardian
  s1 = s1
  c1 = c1
  p1 = p1
  NoClass = NoClass
  NoLeave = NoLeave
  NoForm = NoForm
  l1 = l1
  l2 = l2
  Leaves = {l1}
  Users = {admin, teacher, guardian}
  Students = {s1}
  Classes = {c1}
  Slots = {p1}
  ExamDays = {2}
  MaxDay = 2
  Role <- MCRole
  TeacherClass <- MCTeacherClass
  Ward <- MCWard
  MaySubmit <- MCMaySubmit
  ClassOf <- MCClassOf
  SlotClass <- MCSlotClass
  SlotTeacher <- MCSlotTeacher
INVARIANTS
  TypeOK
  ApprovedDaysAreMarked
  DecisionsStayTrue
PROPERTIES
  ExcusedByApprovalOrAdmin
  LateLeavesAreFlagged
  KeepsMilestones
