SPECIFICATION LiveSpec
CONSTANTS
  NoEntrant = 0
  NoPlayer = NoPlayer
  NoLevel = NoLevel
  Player = {p1, p2, p3}
  Request = {r1, r2}
  Level = {}
  Ops = {"generate", "reorder", "delete_bracket", "report", "clear", "status"}
  MaxEntrants = 3
  MaxEntries = 3
  MaxDraws = 2
  MaxTime = 0
SYMMETRY Symmetry
INVARIANT StoredBracketSound
PROPERTY ActsOnBracketAtomically
CHECK_DEADLOCK FALSE
