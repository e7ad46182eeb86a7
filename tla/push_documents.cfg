SPECIFICATION Spec
CONSTANTS
  a1 = a1
  a2 = a2
  u1 = u1
  d1 = d1
  d2 = d2
  Announcements = {a1}
  Users = {u1}
  AudienceOf <- MCAudience
  Subscriptions = {d1}
  UserOf <- MCUserOf
  Editors = {amy, ben}
  Admins = {amy, ben}
  Runs = {r1}
  Texts = {"first", "second"}
  Expiries <- MCExpiries
  MaxTime = 2
  MaxEdition = 1
  NoRow = NoRow
  Nothing = Nothing
INVARIANTS
  PushedIsPublished
PROPERTIES
  PublishedStaysUnedited
