SPECIFICATION Spec
CONSTANTS
  r1 = r1  r2 = r2  m0 = m0  m1 = m1  m2 = m2
  Recs = {r1, r2}
  Models = {m1, m2}
  NoRec = NoRec
  NoModel = NoModel
  Lever <- OneRouteLever
  Target <- SameTarget
  Route <- SameRoute
  DefaultRoute = "default"
  GlobalEnforced = TRUE
  CanaryEnabled = TRUE
  InitialPercent = 10
  Stages <- Ramp
  Switches = {"policy", "auto", "bandit"}
  MaxRuns = 2
INVARIANTS TypeOK GovernedPolicies LivePolicyIsBacked ClearedCandidates
PROPERTIES DecisionIsFinal
SYMMETRY Swaps
CHECK_DEADLOCK FALSE
