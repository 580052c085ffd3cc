SPECIFICATION Spec
CONSTANTS
  Run = {1, 2, 3}
  Kind = "Restore"
  Limit = 2
  TTL = 1
  PassDelay = 0
  WatchDelay = 0
  MaxFaults = 1
CONSTRAINT ShortLag
INVARIANTS Ceiling JobsAreCounted
CHECK_DEADLOCK FALSE
