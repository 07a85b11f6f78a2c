CONSTANTS
  Samples = 2
  LoopChoices = {1, 2, 5}
  WarmCap = 2
  MaxSamples = 2
  MaxCorruptions = 2
SPECIFICATION RunnerSpec
INVARIANT RunnerTypeOK
INVARIANT AcceptedIsVerified
INVARIANT HealthyIsAccepted
PROPERTY EveryRunIsJudged
CHECK_DEADLOCK FALSE
