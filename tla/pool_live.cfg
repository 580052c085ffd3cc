SPECIFICATION FairSpec
CONSTANTS
  Run = {1, 2}
  Kind = "Backup"
  Limit = 1
  TTL = 2
  PassDelay = 1
  WatchDelay = 1
  MaxFaults = 1
INVARIANTS IInv
PROPERTIES ImplementsPool EventuallyServed
CHECK_DEADLOCK FALSE
