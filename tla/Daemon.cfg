SPECIFICATION FairSpec
CHECK_DEADLOCK FALSE
CONSTANTS
  Slots = 2
  Users = {ann, bob}
  Accounts = {ann}
  None = None
  OpenMaxs <- MCOpenMaxs
  BD_MAX_CLOSE = 5
  MaxFd = 4
  MaxSignals = 2
  ann = ann
  bob = bob
INVARIANTS Detached WhoStaysIsLogged
PROPERTY StopsWhenAsked
