SPECIFICATION MCSpec
CONSTANTS
  NoEntrant = 0
  NoPlayer = NoPlayer
  NoLevel = NoLevel
  First = p1
  Second = p2
  Player = {p1, p2, p3}
  Request = {r1, r2}
  Level = {2}
  Ops = {"register", "retire", "add", "remove", "status", "update", "generate", "reorder", "delete_bracket", "report", "clear", "delete_player", "delete"}
  MaxEntrants = 2
  MaxEntries = 4
  MaxDraws = 2
  MaxTime = 1
  MaxBegun = 2
SYMMETRY Symmetry
INVARIANTS FieldWithinBounds AnswersAsDocumented ChangedMeansOthers RefusalWroteNothing
PROPERTY QuietConclusionIsRight
CHECK_DEADLOCK FALSE
