SPECIFICATION Spec
CONSTANTS
  Clients = {c1}
  Configs <- MCConfigs
  Nil = Nil
  ClientKeyMinLength = 8
  MinWindowSizeSeconds = 10
  Requests = {r1, r2}
  TTL = 1
  MaxLag = 2
  Grace = 1
INVARIANTS TypeOK HitIsRecent ClearAllPurges
CHECK_DEADLOCK FALSE
PROPERTIES ChangeTakesEffect StopIsAnswered ShutdownEnds
