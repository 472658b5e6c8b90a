SPECIFICATION Spec
CONSTANTS
  NULL = NULL
  Queries <- MCQueries
  Names <- MCNames
  Values <- MCValues
  Attempts = 3
  MaxRows = 2
  MaxOpens = 2
  MaxCursor = 2
CHECK_DEADLOCK FALSE
INVARIANT ExecutedOnceUnlessAnswerLost
INVARIANT GivesUpOnlyInTrouble
INVARIANT CursorIsOnTheRow
PROPERTY ParametersTakeTheirValues
