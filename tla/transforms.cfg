SPECIFICATION Spec
CONSTANTS
  r1 = r1  r2 = r2  m0 = m0  m1 = m1  m2 = m2
  Recs = {r1, r2}
  Models = {m1}
  NoRec = NoRec
  NoModel = NoModel
  Lever <- TransformLever
  Target <- SameTarget
  Route <- SameRoute
  DefaultRoute = "default"
  GlobalEnforced = FALSE
  CanaryEnabled = TRUE
  InitialPercent = 10
  Stages <- Ramp
  Switches = {"lever", "entitled", "policy", "enforced"}
  MaxRuns = 1
INVARIANTS WithdrawnRequestIsClosed
PROPERTIES OnlyProGoesLive
CHECK_DEADLOCK FALSE
