SPECIFICATION FairSpec
CONSTANTS
  Conns = {c1, c2}
  Builds <- AllBuilds
  MaxCalls <- FewerWithThreads
  Acceptors = {{"v6"}, {"v4", "v6"}}
INVARIANTS
  TypeOK
  CollectionsAgree
  EveryEndIsTold
  AcceptsGoOn
  LastOneCloses
PROPERTY ShutdownEnds
CHECK_DEADLOCK FALSE
