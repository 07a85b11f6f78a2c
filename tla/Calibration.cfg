CONSTANTS
  Target = 100
  Limits = {16, 64}
  StartLoops = {1, 4, 16}
  StartBatches = {1, 64}
  Clocks <- MCClocks
  ErraticTimes = {20, 70, 120, 900}
  Outlier = 1
SPECIFICATION Spec
INVARIANT TargetIsReal
INVARIANT TurnsTwice
INVARIANT Settles
CHECK_DEADLOCK FALSE
