SPECIFICATION FairSpec
CONSTANTS
  Period = 2
  Horizon = 6
  CreatedAt = 4
  Policies = {"Forbid"}
  MaxActive = 2
  MaxAttempt = 1
  PassTicks = 1
  StartingDeadline = 0
  RetryDelay = 1
  Modes = {"ok", "badPolicy"}
  RetryChoices = {1}
  CatchUpChoices = {TRUE}
  InventoryInterval = 3
  InventoryReach = 9
  MaxEdits = 1
  MaxFaults = 2
  Day = 4
  WalkDays = 6
  MaxOffset = 5
  GapSearch = 8
  Crons <- AllCrons
  Zones <- AllZones
  Lags = {9, 40}
  Caps = {2, 5}
INVARIANTS IInv WalksAreExact SkippedIsHonest DueIsLatestFire
PROPERTIES ImplementsScheduledRuns ReservationResolves EverySlotIsAnswered
CHECK_DEADLOCK FALSE
