CONSTANTS
  Keys = {k1}
  Conns = {c1, c2}
  Callers = {p1, p2}
  Monitors = {}
  TTLs = {1}
  MaxTime = 1
  MaxGeneration = 3
  MaxLeases = 2
  None = None
SPECIFICATION Spec
SYMMETRY Symmetry
INVARIANTS OldGenerationBlocked RevocationComplete
PROPERTIES ImplementsTable
