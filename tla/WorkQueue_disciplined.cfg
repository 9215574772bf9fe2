CONSTANTS
  NULL = NULL
  i1 = i1
  i2 = i2
  t1 = t1
  t2 = t2
  w1 = w1
  w2 = w2
  Items <- TwoItems
  Threads <- TwoThreads
  Queues <- OneQueue
  Overlap = FALSE
SPECIFICATION Spec
INVARIANTS
  DeinitPreventsInsertions
  ScheduleOnLiveQueue
PROPERTIES
  PendingIsServed
  UnusedQueueEnds
CHECK_DEADLOCK FALSE
