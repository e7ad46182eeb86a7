SPECIFICATION Spec
CONSTANTS
  amy = amy
  bob = bob
  p1 = p1
  p2 = p2
  s1 = s1
  s2 = s2
  Users = {amy, bob}
  Admins = {amy, bob}
  Papers = {p1}
  SubjectOf <- MCSubjectOf
  Students = {s1, s2}
  Classmates = {s1}
  Scores <- MCScores
  Terms <- MCTwoTerms
  Tables <- MCDefault
  Absent = Absent
  NoRow = NoRow
INVARIANTS
  AbsentGetsAB
  MarkedIsComplete
PROPERTIES
  PublishedOnce
  PublishedTakesNoMarks
