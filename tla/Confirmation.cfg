CONSTANTS
  a = a
  b = b
  c = c
  k1 = k1
  k2 = k2
  Roofs <- MCRoofs
  Configs <- MCConfigs
  RoofOf <- MCRoofOf
  Plans <- MCPlans
  Bases <- MCBases
  Sweeps <- MCSweeps
  Drifts <- MCDrifts
  Every = 4
  MaxRejects = 2
  MaxSessions = 2
SPECIFICATION Spec
INVARIANT RepeatsAreComplete
INVARIANT ReportKeepsRoofs
INVARIANT FasterWins
CHECK_DEADLOCK FALSE
