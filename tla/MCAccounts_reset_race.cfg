SPECIFICATION Spec
CONSTANTS
  Player = {p1, p2}
  Handle <- Handles
  Secret = {s1}
  Temporary = "temporary"
  NoSecret = "none"
  Request = {r1, r2}
  MaxTime = 0
SYMMETRY Symmetry
PROPERTY ResetStands
CHECK_DEADLOCK FALSE
