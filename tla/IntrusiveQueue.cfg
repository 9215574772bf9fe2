CONSTANTS
  Nodes = {n1, n2, n3, n4}
  NULL = NULL
SPECIFICATION Spec
INVARIANTS
  Spells
  QueueInv
PROPERTY RemoveEnds
