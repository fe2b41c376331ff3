CONSTANTS
  Procs = {p1, p2}
  NSteps = 2
  Entry = {2}
  Engineering = {1}
  MaxPast = 1
  MaxAttempts = 2
  MaxRuns = 2
  MaxCrashes = 1
  f = f
  g = g
  WsFiles = {f, g}
  ContentOf <- MCContentOf
  MaxRepairs = 2
  MaxReads = 2
  MaxWrites = 1
SPECIFICATION MCSpec
SYMMETRY Symmetry
INVARIANTS SuccessEarned PlanRunsOnce DeliveryEarned TaskSound
CHECK_DEADLOCK FALSE
