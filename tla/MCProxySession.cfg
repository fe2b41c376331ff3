SPECIFICATION MCProxySpec
CONSTANTS
  Clients = {c1}
  Targets = 1
  Heads = {"connect", "malformed"}
  MaxFaults = 1
  Entries <- Sockets
  Leases <- OneLease
  Nobody = Nobody
  Scope <- OneScope
INVARIANTS SocketsAccounted
PROPERTIES LeaseEndCutsOff CloseSucceeds
CHECK_DEADLOCK FALSE
