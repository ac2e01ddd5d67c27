SPECIFICATION FairSpec
CONSTANTS
  j1 = j1  m1 = m1  m2 = m2  b1 = b1  c1 = c1  p1 = p1  p2 = p2
  Jobs = {j1}
  Models = {m1, m2}
  Batches = {b1}
  Clients = {c1}
  Pollers = {p1, p2}
  NoJob = NoJob
  NoBatch = NoBatch
  MaxFaults = 1
PROPERTY FinalizedIsUntouched
