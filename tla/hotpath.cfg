SPECIFICATION Spec
CONSTANTS
  q1 = q1  q2 = q2  k1 = k1
  Requests = {q1, q2}
  Keys = {k1}
  Asks <- TwoAsks
  Profiles <- FourKinds
  Worlds <- SomeWorlds
  KeepLast = 12
  Detached = TRUE
  SemanticOn = TRUE
  Fallback = TRUE
  QueueSize = 1
  WorkerCount = 1
  Ttl = 1
  MaxFaults = 1
INVARIANTS TypeOK SnapshotIsCurrent LedgerTagIsTruthful BypassIsPlain BlockedRequestsStayWhole DegradedIsForgotten
PROPERTIES MeteringRefinesLedger MeteringSettles
CHECK_DEADLOCK FALSE
