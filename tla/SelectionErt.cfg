CONSTANTS
  Devices <- MCDevices
  Levels <- MCLevels
  Selectors <- MCSelectors
SPECIFICATION SelectionSpec
CHECK_DEADLOCK FALSE
INVARIANT ElementsOnce
