CONSTANTS
  Publishers = {p1}
  Subs = {s1}
  WorkSubs = {}
  BlockingSubs = {}
  QueueSizes = {1, 2, 3}
  RequiredUpdates = 0
  Withdrawals = {"unadvertise", "destroy"}
  Modulus = 16
  MaxPublished = 5
  NULL = NULL
SYMMETRY Symmetry
SPECIFICATION Spec
INVARIANT CopiesWhatWasWritten
