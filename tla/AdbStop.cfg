CONSTANTS
  Pids = {p1, p2}
  None = None
  MaxStops = 2
SPECIFICATION Spec
INVARIANT KillsOnlyOwned
PROPERTY StopScriptEnds
PROPERTY ImplementsInvocation
CHECK_DEADLOCK FALSE
