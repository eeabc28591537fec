SPECIFICATION FairSpec
CONSTANTS
  Adaptors = {"tcp", "ssl"}
  Owner = "server"
  MaxCalls = 3
INVARIANTS
  TypeOK
  NoOverlap
  TransmittingMeansWriting
  ReaderAlive
  NeverSilentlyStuck
  CutOnlyIfForced
PROPERTIES
  DisconnectIsCarriedOut
  KeepsLifecycle
\* A connection that has been released does nothing more.
CHECK_DEADLOCK FALSE
