SPECIFICATION BothSpec
CONSTANTS
  RawPlans <- MCRaw
  Replans <- MCExplored
  Explored <- MCExplored
  MaxSteps = 3
  MaxParallel = 2
  MaxIterations = 1
  MaxExpansion = 2
  Asks = {{"confirm"}}
  Reasons = {"r1", "r2"}
  MaxTurns = 2
  MaxLost = 1
  Loops = {l1}
  Calls = {c1, c2}
  NoRec = NoRec
  NoSched = NoSched
  MaxFailures = 1
INVARIANTS PlanInv ShapeIsRunnable
PROPERTIES RestartsAreNew WavesForecast TurnsEnd ScheduleFollowsRecord UnwantedRunsEnd RequestIsServed
CHECK_DEADLOCK FALSE
