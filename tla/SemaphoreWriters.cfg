\* The program's three threads; two rounds each instead of five.
CONSTANTS
  NUM_THREADS = 3
  LOOPS = 2
  Earlier <- EmptyOrNot
SPECIFICATION FairSpec
INVARIANTS
  FilesAscend
  EveryNumberOnce
PROPERTIES
  Ends
  LogsTickets
