CONSTANTS
  Threads = {t1}
  Entries = {e1}
  NULL = NULL
  Period = 5
  IntervalMin = 2
  IntervalMax = 3
  First = 2
  Late = 1
  Delays = {0, 4}
  Intervals = {3}
  MaxTime = 10
  Nested = FALSE
SYMMETRY Symmetry
SPECIFICATION Spec
INVARIANT TimeIsKept
