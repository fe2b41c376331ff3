CONSTANTS
  m1 = m1
  m2 = m2
  p1 = p1
  p2 = p2
  Managers = {m1, m2}
  Procs = {p1}
  ProcOf <- SameProc
  Runs = {r1, r2}
  Requests <- Reqs
  NSteps = 1
  ReceiptLimit = 8
  MaxFaults = 0
  UseLease = FALSE
  OneProcess = FALSE
  None = None
  Exporters = {e1, e2}
  MaxChanges = 2
  MaxBreaks = 2
  Alphabet <- SmallAlphabet
  Metadata <- SmallMetadata
  MaxEvents = 5
  MaxOpenAgents = 2
SPECIFICATION MCSpec
SYMMETRY Symmetry
INVARIANTS OneWorker IntentAppliedOnce ReplayFaithful PackSound GenerationKept
CHECK_DEADLOCK FALSE
