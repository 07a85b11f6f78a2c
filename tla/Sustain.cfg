CONSTANTS
  a = a
  b = b
  e = e
  None = None
  Roofs <- MCRoofs
  Refs <- MCRefs
  RoofOf <- MCRoofOf
  ConfigOf <- MCConfigOf
  Rank <- MCRank
  RoofChoices <- MCRoofChoices
  Durations = {1, 5}
  BatchCounts = {1, 2}
  MinBatches = 2
  MaxBuilds = 1
  MaxSessions = 2
  MaxFaults = 1
SPECIFICATION Spec
INVARIANT BasisIsEarned
INVARIANT SteadyRunCounts
PROPERTY SustainEnds
CHECK_DEADLOCK FALSE
