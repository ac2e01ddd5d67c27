SPECIFICATION FairSpec
CONSTANTS
  q1 = q1  q2 = q2  i1 = i1  i2 = i2
  Requests = {q1, q2}
  Instances = {i1}
  Kinds = {"once", "stream"}
  Threshold = 2
  Reset = 2
  Shared = TRUE
  StoreFails = TRUE
  MaxRetries = 1
  Fallback = TRUE
PROPERTIES EveryRequestAnswered CircuitRecovers
