\* Builds between sessions and while a session measures, and sessions that die.
CONSTANTS
  Variants = {"u"}
  MaxBuilds = 2
  MaxSessions = 2
  Faults = {"rebuild", "crash"}
SPECIFICATION Spec
INVARIANT RowsNameTheirShader
INVARIANT ShortRowsNameTheirRunner
INVARIANT ArchiveIsOfItsRunner
CHECK_DEADLOCK FALSE
