SPECIFICATION Spec
CONSTANTS
  Period = 2
  Horizon = 8
  CreatedAt = 3
  Policies = {"Allow"}
  MaxActive = 2
  MaxAttempt = 0
  PassTicks = 0
  StartingDeadline = 0
  RetryDelay = 1
  Modes = {"ok"}
  RetryChoices = {0}
  CatchUpChoices = {TRUE}
  InventoryInterval = 6
  InventoryReach = 9
  MaxEdits = 0
  MaxFaults = 2
INVARIANTS ConcurrencyKept
CHECK_DEADLOCK FALSE
