SPECIFICATION FairSpec
CONSTANTS
  Handles = {1, 2}
  MaxCalls = 3
  MaxEvents = 2
  UndrainedEnd = FALSE
INVARIANTS
  TypeOK
  MarksMatchStack
  CurrentFigureIsLive
  ClosesAreKept
PROPERTIES
  ClosesAreAnswered
CHECK_DEADLOCK FALSE
