SPECIFICATION MCSpec
CONSTANTS
  Admins = {"amy", "ben"}
  Sessions = {"old", "new"}
  Students = {"s1", "s2"}
  Classes <- MCClasses
  SessionOf <- MCSessionOf
  Batches = {"b1", "b2"}
  BatchOf <- MCBatchOf
  ShapeOf <- MCShapeOf
  Previews = {"p1"}
  Logs = {"l1", "l2"}
  ClassMoves <- MCGraduation
  Edits <- MCNewName
  Nowhere = Nowhere
  Hand = Hand
INVARIANTS
  OneActiveSession
  PromotedAreLogged
PROPERTIES
  RollbackIsWhole
