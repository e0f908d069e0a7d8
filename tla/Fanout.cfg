SPECIFICATION FairSpec
CONSTANTS
  u1 = u1
  u2 = u2
  d1 = d1
  d2 = d2
  Users = {u1, u2}
  Clients = {c1, c2}
  MaxSessions = 3
  None = none
  MaxPasswords = 3
  Scenarios <- FanoutScenarios
  Devices = {d1, d2}
  Owner <- OwnerOf
  MaxSockets = 2
  MaxEvents = 2
INVARIANTS SeenSignedOut RegistryExact OrderedForOwner
PROPERTIES EventReachesOwner
CHECK_DEADLOCK FALSE
