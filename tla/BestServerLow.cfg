\* What the comment on the last loop of get_best_server says of it.
CONSTANTS
  NEAREST_SERVERS_NUM = 3
  Distances = {1, 2}
  Origin = 2
  MaxLines = 4
  Times = {1, 2}
  Garbage <- MCGarbage
SPECIFICATION Spec
CHECK_DEADLOCK FALSE
INVARIANTS
  SelectsLowLatency
