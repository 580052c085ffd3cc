SPECIFICATION FairSpec
CONSTANTS
  N = 2
  Initial = 2
  BackupEvery = 1
  Shared = {}
  Segments = 0
  KeepChoices = {1}
  KeepFor = 9
  MinUsable = 1
  Holdable = {1}
  Restorable = {1}
  AttendedChoices = {TRUE}
  MaxDeletions = 9
  MaxObjects = 9
  Period = 1
  PlanMaxAge = 1
  Deadline = 1
  ViewLife = 9
  PartialViews = FALSE
  DeepCheck = TRUE
  DegradedAfter = 1
  ReprobeAfter = 1
  Versioning = FALSE
  Horizon = 2
  MaxEdits = 2
  MaxRefusals = 0
  MaxFaults = 1
INVARIANTS NoUntrackedJob
PROPERTIES RunIsAuthorised EarlyRestoreKept RunIsHarvested
CHECK_DEADLOCK FALSE
