CONSTANTS
  c1 = c1
  c2 = c2
  write = write
  Recorders = {c1, c2}
  ScopeOf <- Scope
  Names = {write}
  Payloads = {p}
  Attempts = {a1, a2, a3}
  MaxStarts = 2
  Items = {i1, i2}
  Handlers = {h1}
  None = None
  Nil = Nil
  Keys = {k1}
  Conns = {conn1}
  Callers = {t1}
  Monitors = {m1}
  TTLs = {1}
  MaxTime = 2
  MaxGeneration = 2
  MaxLeases = 1
SPECIFICATION MCSpec
INVARIANTS ActionApproved ExecutedOnce
PROPERTIES AskEnds ExpiredClosed
CHECK_DEADLOCK FALSE
