SPECIFICATION FairSpec
CONSTANTS
  MaxMessages = 3
  Old = 1
  PageLimit = 2
  Dispatchers = {1, 2}
  NoMessage = NoMessage
  MaxAttempts = 2
  MaxExtensions = 1
  Scenarios <- MCScenarios
INVARIANTS
  TypeOK
  CursorCovers
  WindowCovers
  HistoryIsNotAnswered
PROPERTIES
  NothingFallsBehind
  ReplayAdmitsNothing
  EveryMessageAttended
CHECK_DEADLOCK FALSE
