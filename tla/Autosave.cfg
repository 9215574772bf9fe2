CONSTANTS
  Works = {autosave_work, w1}
  autosave_work = autosave_work
  Delays = {0, 3}
  USEC_PER_TICK = 2
  WORKPERIOD = 4
  ClockRange = 10
  MaxRun = 1
  SavesToFlash = TRUE
  NULL = NULL
CHECK_DEADLOCK FALSE
SPECIFICATION Spec
INVARIANTS
  ListIsSound
  SleepIsShort
  ChangeIsPending
PROPERTIES
  NeverEarly
  ChangesAreSaved
