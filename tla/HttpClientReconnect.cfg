SPECIFICATION ClientSpec
CONSTANTS
  Adaptors = {"tcp"}
  Owner = "client"
  MaxCalls = 2
  MaxUps = 2
PROPERTY ReconnectsAfresh
CHECK_DEADLOCK FALSE
