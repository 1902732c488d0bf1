SPECIFICATION Spec
CONSTANTS
  Player = {p1, p2, p3}
  Handle <- Handles
  Secret = {s1}
  Temporary = "temporary"
  NoSecret = "none"
  Request = {r1, r2}
  MaxTime = 1
SYMMETRY Symmetry
INVARIANTS TypeOK AnAdminRemains HandlesUnique FreshTokenWorks
CHECK_DEADLOCK FALSE
