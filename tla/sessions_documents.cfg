SPECIFICATION MCSpec
CONSTANTS
  Admins = {"amy", "ben"}
  Sessions = {"old", "new"}
  Students = {"s1"}
  Classes <- MCClasses
  SessionOf <- MCSessionOf
  Batches = {"b1", "b2"}
  BatchOf <- MCBatchOf
  ShapeOf <- MCShapeOf
  Previews = {"p1"}
  Logs = {"l1", "l2"}
  ClassMoves <- MCMoves
  Edits <- MCEdits
  Nowhere = Nowhere
  Hand = Hand
INVARIANTS
  CommittedOnce
  LeaversHaveNoClass
  PromotedKeepTheirBatch
PROPERTIES
  EditsKeepTheRest
  CompletedStays
  RolledBackOnce
