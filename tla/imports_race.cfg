SPECIFICATION Spec
CONSTANTS
  k1 = k1
  k2 = k2
  Admins = {amy, ben}
  Jobs = {j1, j2}
  Keys = {k1, k2}
  Lines = {1, 2}
  Files <- MCFiles
  None = None
  Free = Free
  ByHand = ByHand
INVARIANTS
  ImportsItsRows
  ConfirmedStaysClosed
PROPERTIES
  ImplementsBatch
