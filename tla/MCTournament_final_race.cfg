SPECIFICATION LiveSpec
CONSTANTS
  NoEntrant = 0
  NoPlayer = NoPlayer
  NoLevel = NoLevel
  Player = {p1, p2}
  Request = {r1, r2}
  Level = {}
  Ops = {"generate", "report", "clear", "status"}
  MaxEntrants = 3
  MaxEntries = 2
  MaxDraws = 1
  MaxTime = 0
SYMMETRY Symmetry
INVARIANT FinalNamesWinner
CHECK_DEADLOCK FALSE
