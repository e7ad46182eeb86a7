SPECIFICATION Spec
CONSTANTS
  amy = amy
  bob = bob
  p1 = p1
  p2 = p2
  s1 = s1
  s2 = s2
  Users = {amy}
  Admins = {amy}
  Papers = {p1, p2}
  SubjectOf <- MCSubjectOf
  Students = {s1, s2}
  Classmates = {s1, s2}
  Scores <- MCZero
  Terms <- MCTwoTerms
  Tables <- MCTables
  Absent = Absent
  NoRow = NoRow
SYMMETRY MCSymmetry
INVARIANTS
  GradesFollowMarks
  MarkedIsComplete
  PublishedIsLocked
  ResultsAgree
