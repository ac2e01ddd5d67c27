SPECIFICATION FairSpec
CONSTANTS
  s1 = s1  s2 = s2  p1 = p1  p2 = p2
  Sessions = {s1, s2}
  Processes = {p1, p2}
  Instances = {p1}
  Aged = TRUE
  Ttl = 1
  Granted = {"trialing"}
  MaxGrants = 1
INVARIANTS TypeOK ProIsPaid
PROPERTIES TrialGrantedOnce TrialEnds LockReachesProxy
