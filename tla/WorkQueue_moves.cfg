CONSTANTS
  NULL = NULL
  i1 = i1
  i2 = i2
  t1 = t1
  t2 = t2
  w1 = w1
  w2 = w2
  Items <- OneItem
  Threads <- TwoThreads
  Queues <- TwoQueues
  Overlap = TRUE
SPECIFICATION Spec
INVARIANTS
  TypeOK
  NoLostWakeup
  PostsBounded
  InUseIsAlive
SYMMETRY Symmetry
CHECK_DEADLOCK FALSE
