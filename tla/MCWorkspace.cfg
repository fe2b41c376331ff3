SPECIFICATION MCSpec
CONSTANTS
    Procs = {p1, p2}
    Files = {1, 2}
    Versions = {1, 2}
    Nobody = Nobody
    Stranger = Stranger
    First = 1
    MaxFaults = 2
INVARIANTS SessionSound
PROPERTIES ForeignKept LockFreed
CHECK_DEADLOCK FALSE
