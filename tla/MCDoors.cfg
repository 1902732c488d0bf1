SPECIFICATION Spec
CONSTANTS
  Player = {p1, p2}
  Event = {e1, e2}
  Request = {r1, r2}
  CheckinCycles = 100
  Amounts <- AmountSet
  MaxAdjustments = 1
SYMMETRY Symmetry
INVARIANTS TypeOK PaidPerCheckin
PROPERTIES ReceiptTellsTheWrite InactiveMovesNobody
CHECK_DEADLOCK FALSE
