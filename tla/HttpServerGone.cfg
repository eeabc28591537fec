SPECIFICATION Spec
CONSTANTS
  Conns = {c1, c2}
  Builds <- HashMapBuilds
  MaxCalls <- TwoCalls
  Acceptors = {{"v6"}}
INVARIANT ShutdownClosesIdle
CHECK_DEADLOCK FALSE
