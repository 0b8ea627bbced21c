CONSTANTS
  BUFFER = 1
  MaxSent <- FewAndFew
  Left <- EarlierLists
SPECIFICATION FairSpec
CHECK_DEADLOCK FALSE
INVARIANTS
  MissingConfigIsReported
