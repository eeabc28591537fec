SPECIFICATION Spec
CONSTANTS
  Conns = {c1, c2}
  Builds <- DefaultBuild
  MaxCalls <- TwoCalls
  Acceptors = {{"v6"}, {"v4"}, {"v4", "v6"}}
INVARIANT ShutdownIsDefined
CHECK_DEADLOCK FALSE
