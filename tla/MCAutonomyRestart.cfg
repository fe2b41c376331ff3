CONSTANTS
  m1 = m1
  m2 = m2
  p1 = p1
  p2 = p2
  Managers = {m1, m2}
  Procs = {p1, p2}
  ProcOf <- TwoProcs
  Runs = {r1, r2}
  Requests <- Few
  NSteps = 2
  ReceiptLimit = 8
  MaxFaults = 1
  UseLease = TRUE
  OneProcess = TRUE
  None = None
SPECIFICATION FairSpec
INVARIANT ActiveHasWorker
PROPERTIES StopEnds
CHECK_DEADLOCK FALSE
