SPECIFICATION Spec
CONSTANTS
  Points = {1, 2}
  Today = 2
  Day <- MCDay
  Key <- MCKey
  Settings <- MCSettings
  ViewLimit = 1
  PageKeys = 1
  TtlFloor = 1
  Horizon = 2
  MaxRequests = 1
  MaxFaults = 1
INVARIANTS ListedPagesExist WholeIsWhole
PROPERTIES ImplementsWindow DeadViewWithdrawn
CHECK_DEADLOCK FALSE
