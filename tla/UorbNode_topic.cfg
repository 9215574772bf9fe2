CONSTANTS
  Publishers = {p1, p2}
  Subs = {w1, b1}
  WorkSubs = {w1}
  BlockingSubs = {b1}
  QueueSizes = {1, 2}
  RequiredUpdates = 2
  Withdrawals = {"unadvertise", "destroy"}
  Modulus = 16
  MaxPublished = 3
  NULL = NULL
SPECIFICATION Spec
SYMMETRY Symmetry
INVARIANTS
  TypeOK
  NewestAreKept
  UnreadIsScheduled
PROPERTY ReadsInOrder
