CONSTANTS
  Devices <- MCDevices
  Levels <- MCLevels
  Selectors <- MCSelectors
SPECIFICATION SelectionSpec
CHECK_DEADLOCK FALSE
INVARIANT SelectionTypeOK
INVARIANT LaunchesFit
INVARIANT EveryRoofIsReachable
INVARIANT KeysAgree
INVARIANT RatesAreConservative
INVARIANT WalksAreWarm
INVARIANT ReplayIsFaithful
