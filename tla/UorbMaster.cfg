CONSTANTS
  MultiPubs = {m1, m2}
  SinglePubs = {s1}
  FileSubs = {f1}
  ObjectSubs = {o1}
  MaxInstances = 2
  MapLength = 2
  StaleErrno = {m1}
  MaxOpens = 4
  NULL = NULL
CHECK_DEADLOCK FALSE
SPECIFICATION Spec
INVARIANTS
  RegisteredIsListed
  OneInstanceEach
  PublisherIsSeen
  HandleIsOwn
  GetsWhatItAskedFor
  LockIsReleased
