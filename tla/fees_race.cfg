SPECIFICATION Spec
CONSTANTS
  s1 = s1
  s2 = s2
  c1 = c1
  c2 = c2
  c3 = c3
  Charges = {c1, c2}
  Admins = {"amy", "bob"}
  Students = {s1}
  Labels = {"tuition"}
  Mills = {4, 5, 14, 21, 30}
  Targets <- MCOneByOne
  Nothing = Nothing
INVARIANTS
  FeeViewsAgree
  NeverOverpaid
  NoOrphanPayments
PROPERTIES
  ImplementsAccount
