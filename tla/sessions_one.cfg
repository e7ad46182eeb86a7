SPECIFICATION MCSpec
CONSTANTS
  Admins = {"amy"}
  Sessions = {"old", "new"}
  Students = {"s1"}
  Classes <- MCClasses
  SessionOf <- MCSessionOf
  Batches = {"b1", "b2"}
  BatchOf <- MCBatchOf
  ShapeOf <- MCShapeOf
  Previews = {"p1", "p2"}
  Logs = {"l1", "l2"}
  ClassMoves <- MCMoves
  Edits <- MCEdits
  Nowhere = Nowhere
  Hand = Hand
INVARIANTS
  CommittedOnce
  RolledBackLeavesNobody
PROPERTIES
  EditsKeepTheRest
