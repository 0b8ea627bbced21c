\* The HTTPS build with one slot that is used again, two blocks a connection:
\* TLS for the download, whose early returns abandon the slot.
CONSTANTS
  THREAD_NUMBER = 1
  USE_HTTPS = TRUE
  UL_BUFFER_TIMES = 2
  MaxBlocks = 2
  MaxThreads = 5
  MaxFd = 2
SPECIFICATION Spec
INVARIANTS
  UndefinedJoinOnlyAfterLeak
  OpenSocketKeepsItsSlot
  ReportMissesLittle
