SPECIFICATION UpkeepSpec
CONSTANTS
  Instances = {"i1", "i2"}
  Lookups = {"l1", "l2"}
  Writers = {"w1", "w2"}
  Home <- Homes
  CacheTtl = 2
  MaxWrites = 2
  MaxTroubles = 1
  Segments = {"s1", "s2"}
  RouteOf <- Routes
  Refused = {"s2"}
  Profiles <- GoodOrUnproven
  Decisions = {1, 2}
  TopCandidates = 1
  ApplyLimit = 2
  MinRecommend = 1
  MinAuto = 2
  LastMonth = 2
  MaxFeedback = 3
  MaxDeeds = 1
INVARIANTS OwnKeyWriteIsSeen
PROPERTIES CacheCatchesUp EvidenceIsHeeded
CHECK_DEADLOCK FALSE
