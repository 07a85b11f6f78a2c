CONSTANTS
  c1 = c1
  c2 = c2
  c3 = c3
  g1 = g1
  g2 = g2
  d1 = d1
  None = None
  Controllers <- MCControllers
  GpuOf <- MCGpuOf
  DirOf <- ShapesDirOf
  MaxRuns = 2
  Faults = {"window", "stop", "kill"}
SPECIFICATION Spec
INVARIANT KeptRunnersAreOwned
INVARIANT NoLeakedLock
INVARIANT ExclusiveSessions
PROPERTY StopLeadsOn
