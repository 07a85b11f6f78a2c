CONSTANTS
  a = a
  b = b
  Starts = 4
  Campaigns = {a, b}
  Length = 2
  Requires <- MCRequires
  Scoped <- MCScoped
  Timeout = 1
  Budget = 3
  Limit = 4
  Grace = 1
  Strict = {b}
SPECIFICATION Spec
CHECK_DEADLOCK FALSE
INVARIANT OneWorkload
INVARIANT JobsAreWatched
INVARIANT BudgetHolds
PROPERTY AttemptsKept
PROPERTY DriversEnd
