SPECIFICATION Spec
CONSTANTS
  Adaptors = {"ssl"}
  Owner = "server"
  MaxCalls = 3

INVARIANT HandshakeFailureDisconnects
CHECK_DEADLOCK FALSE
