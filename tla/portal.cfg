SPECIFICATION MCSpec
CONSTANTS
  Pages <- AllPages
  RolesOf <- OneOfEach
  Forced = {"sam"}
  None = None
INVARIANTS
  OwnChangesAreShown
  SwitchStartsAfresh
  RequestsAreAdmitted
