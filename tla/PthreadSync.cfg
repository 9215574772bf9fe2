CONSTANTS
  NULL = NULL
  t1 = t1
  t2 = t2
  t3 = t3
  t4 = t4
  Threads <- FourThreads
  Timers <- OneTimer
  Priority <- TwoLevels
  MaxWaiters = 2
  BarrierCount = 4
SPECIFICATION Spec
INVARIANTS
  CountsMatch
  NoSleeperForgotten
  DestroyedIsUnused
  BarrierHolds
PROPERTIES
  ImplementsLock
  LockMovesOn
CHECK_DEADLOCK FALSE
