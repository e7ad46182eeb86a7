SPECIFICATION FairSpec
CONSTANTS
  a1 = a1
  a2 = a2
  u1 = u1
  d1 = d1
  d2 = d2
  Announcements = {a1}
  Users = {u1}
  AudienceOf <- MCAudience
  Subscriptions = {d1}
  UserOf <- MCUserOf
  Editors = {amy}
  Admins = {amy}
  Runs = {r1, r2}
  Texts = {"first"}
  Expiries <- MCExpiries
  MaxTime = 2
  MaxEdition = 2
  NoRow = NoRow
  Nothing = Nothing
INVARIANTS
  TypeOK
  PushedIsPublished
  ShownAtMostThrice
PROPERTIES
  DueArePushed
  RunsEnd
