CONSTANTS
  BUFFER = 3
  MaxSent <- SomeServers
  Left <- EarlierLists
SPECIFICATION FairSpec
CHECK_DEADLOCK FALSE
INVARIANTS
  WrittenAsReceived
  
  OnlyRefusedLeaks
PROPERTIES
  StartsUnlessPeerSilent
