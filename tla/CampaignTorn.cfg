CONSTANTS
  k1 = k1
  k2 = k2
  None = None
  Keys <- MCKeys
  Program <- SmallProgram
  Every = 2
  Confirm = 3
  Rates = {68, 80, 94, 106}
  FastFloor = 94
  FastCeiling = 106
  SlowCeiling = 69
  MaxStarts = 2
  MaxGlitches = 0
SPECIFICATION Spec
INVARIANT KilledRunResumes
CHECK_DEADLOCK FALSE
