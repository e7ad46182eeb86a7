SPECIFICATION MCSpec
CONSTANTS
  Pages <- AllPages
  RolesOf <- OneOfEach
  Forced = {"sam"}
  None = None
INVARIANT
  GatesOpen
