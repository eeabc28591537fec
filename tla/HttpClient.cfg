SPECIFICATION ClientFairSpec
CONSTANTS
  Adaptors = {"tcp", "ssl"}
  Owner = "client"
  MaxCalls = 3
  MaxUps = 2
INVARIANTS
  ClientTypeOK
  ReaderAlive
  NeverGivesUp
PROPERTIES
  Reconnects
  DestroyedIsSilent
\* A client that has been destroyed does nothing more.
CHECK_DEADLOCK FALSE
