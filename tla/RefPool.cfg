\* Two slots, each used once more: the second thread of a slot may belong to
\* the upload while a thread of the download still holds the other slot.
CONSTANTS
  THREAD_NUMBER = 2
  USE_HTTPS = FALSE
  UL_BUFFER_TIMES = 1
  MaxBlocks = 1
  MaxThreads = 3
  MaxFd = 2
SPECIFICATION RefFairSpec
INVARIANTS
  SocketsBounded
  StrayRequestsAreLeftOver
PROPERTIES
  EndsIfArmed
  Overlaps
