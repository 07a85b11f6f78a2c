CONSTANTS
  k1 = k1
  k2 = k2
  None = None
  Keys <- MCKeys
  Program <- MCProgram
  Every = 2
  Confirm = 3
  Rates = {68, 80, 94, 106}
  FastFloor = 94
  FastCeiling = 106
  SlowCeiling = 69
  MaxStarts = 2
  MaxGlitches = 1
SPECIFICATION Spec
INVARIANT SlowRowsExplained
INVARIANT DriftNeedsMajority
INVARIANT NoFalseAlarm
INVARIANT FinishedIsBracketed
PROPERTY RunEnds
CHECK_DEADLOCK FALSE
