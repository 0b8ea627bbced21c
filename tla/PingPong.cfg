\* Deadlock is not checked: both processes may wait in pause() for ever.
CONSTANTS
  LIMIT = 15
  InitialLines <- Lines
  MaxLine = 20
SPECIFICATION FairSpec
INVARIANTS
  ChildEndsAtLimit
  StopsAtLimit
PROPERTIES
  TakesTurns
  ChildEndsUnlessLost
CHECK_DEADLOCK FALSE
