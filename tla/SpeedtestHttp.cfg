\* The HTTP build: two slots, each used twice; two descriptors.
CONSTANTS
  THREAD_NUMBER = 2
  USE_HTTPS = FALSE
  UL_BUFFER_TIMES = 1
  MaxBlocks = 1
  MaxThreads = 4
  MaxFd = 2
SPECIFICATION FairSpec
INVARIANTS
  OneWorkerPerSlot
  NoLostUpdate
  RequestMatchesPhase
PROPERTIES
  StopClearedOnlyWhenQuiet
  EndsUnlessPeerSilent
  Measures
