SPECIFICATION Spec
CONSTANTS
  NoEntrant = 0
  NoPlayer = NoPlayer
  NoLevel = NoLevel
  Player = {p1, p2}
  Request = {r1, r2}
  Level = {2}
  Ops = {"register", "retire", "add", "remove", "status", "update", "generate", "report", "clear", "delete", "delete_player"}
  MaxEntrants = 3
  MaxEntries = 2
  MaxDraws = 1
  MaxTime = 1
SYMMETRY Symmetry
INVARIANTS TypeOK ChampionIsWinner
PROPERTIES ConcludedIsFinal BracketFixesField
CHECK_DEADLOCK FALSE
CONSTRAINT ClockBeforeTheDraw
