CONSTANTS
  NULL = NULL
  c1 = c1
  c2 = c2
  k1 = k1
  k2 = k2
  r1 = r1
  r2 = r2
  r3 = r3
  Clients <- TwoClients
  Configs <- TwoConfigs
  Runners <- ThreeRunners
  Polls = 2
  Careful = TRUE
SPECIFICATION Spec
INVARIANTS
  NoRequestLost
  NoStrayUse
  OneQueuePerName
PROPERTIES
  FindReturns
  StopEnds
