SPECIFICATION Spec
CONSTANTS
  s1 = s1
  s2 = s2
  c1 = c1
  c2 = c2
  c3 = c3
  Charges = {c1, c2, c3}
  Admins = {"amy"}
  Students = {s1, s2}
  Labels = {"tuition"}
  Mills = {10}
  Targets <- MCLists
  Nothing = Nothing
PROPERTIES
  BulkSkipsTheCharged
