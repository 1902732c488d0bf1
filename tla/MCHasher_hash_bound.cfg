SPECIFICATION Spec
CONSTANTS
  Request = {r1, r2, r3, r4}
  ConcurrentHashes = 2
  MaxOrphans = 2
INVARIANT HashBound
