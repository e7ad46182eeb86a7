SPECIFICATION Spec
CONSTANTS
  amy = amy
  bob = bob
  p1 = p1
  p2 = p2
  s1 = s1
  s2 = s2
  Users = {amy, bob}
  Admins = {amy, bob}
  Papers = {p1, p2}
  SubjectOf <- MCSubjectOf
  Students = {s1}
  Classmates = {s1}
  Scores <- MCScores
  Terms <- MCTerms
  Tables <- MCDefault
  Absent = Absent
  NoRow = NoRow
SYMMETRY MCSymmetry
INVARIANTS
  FailedPaperFailsExam
  GradedAreSummarised
