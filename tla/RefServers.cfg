\* Evictions, ties and unparsed lines; then every outcome of every fetch.
CONSTANTS
  NEAREST_SERVERS_NUM = 3
  Distances = {1, 2}
  Origin = 2
  MaxLines = 4
  Times = {1, 2}
  Garbage <- MCGarbage
SPECIFICATION Spec
CHECK_DEADLOCK FALSE
INVARIANTS
  HoldsTheNearest
  NoneNearerDropped
  CountedAfterAnAnswer
  FastestOfCounted
  ChosenHasAddress
  
  NearestOfFastest
