SPECIFICATION Spec
CONSTANTS
  NoEntrant = 0
  NoPlayer = 0
  MaxEntrants = 8
  Owner = 1
  Rival = {2, 3}
  Tour <- MCTour
  Past = {1, 2, 3}
  SeedOrder <- MCSeedOrder
  CreatedAt <- MCCreatedAt
  Day <- MCDay
  NewDays = {3, 4}
  HandleOrder <- MCHandleOrder
  DoomedTour = {2, 4}
  DoomedAccount = {1, 2}
  Queries <- MCQueries
  MaxWrites = 1
INVARIANTS WinsArePaid NemesisStandsOut AnswerAddsUp
CHECK_DEADLOCK FALSE
