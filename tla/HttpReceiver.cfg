SPECIFICATION Spec
CONSTANTS
  MaxMethod = 2
  MaxUri = 2
  MaxWs = 2
  MaxLine = 7
  MaxHeaders = 3
  MaxHeaderLength = 7
  MaxStatus = 20
  MaxReason = 2
  MaxDigits = 2
  MaxContent = 2
  MaxChunk = 1
  MaxBody = 2
  NoContentStatus = {1}
  Configs <- MCConfigs
  Messages <- MCMessages
  ReadSizes = {1, 2, 3}
INVARIANTS
  ReceiverTypeOK
  CutDoesNotMatter
  LimitsHold
  LoopAdvances
  MeaningIsKept
PROPERTIES
  ReadIsTaken
CHECK_DEADLOCK FALSE
