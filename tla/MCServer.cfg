SPECIFICATION ServerSpec
CONSTANTS
  Request = {r1, r2, r3}
  ConcurrentHashes = 1
  MaxOrphans = 1
  Kind = {"ready", "edit", "signup", "login", "change"}
  MaxConnections = 2
  RequestTimeout = 2
  DrainDeadline = 1
  KillAfter = 3
INVARIANTS ServerTypeOK PermitsConserved NobodyWaitsForNothing ClosedIsQuiet ClosedBeforeTheKill
PROPERTY EveryRequestEnds
CHECK_DEADLOCK TRUE
