SPECIFICATION Spec
CONSTANTS
  NoEntrant = 0
  NoPlayer = 0
  MaxEntrants = 256
  Entrant = {1, 2, 3, 4, 5, 6, 7, 8, 9, 10, 11, 12, 13, 14, 15, 16}
  Fields = {2, 3, 4, 5, 6, 7, 8, 9, 16}
  Orders <- MCOrders
INVARIANTS TypeOK FeedsAgree OncePerRound NeverStuck ReadsBack SeedsSeated PlacesPayInOrder
PROPERTY DecidedPathSettled
