SPECIFICATION Spec
CONSTANTS
  N = 4
  Initial = 3
  BackupEvery = 2
  Shared = {2}
  Segments = 1
  KeepChoices = {1}
  KeepFor = 0
  MinUsable = 1
  Holdable = {}
  Restorable = {}
  AttendedChoices = {FALSE}
  MaxDeletions = 9
  MaxObjects = 3
  Period = 2
  PlanMaxAge = 2
  Deadline = 1
  ViewLife = 9
  PartialViews = TRUE
  DeepCheck = TRUE
  DegradedAfter = 1
  ReprobeAfter = 1
  Versioning = TRUE
  Horizon = 2
  MaxEdits = 0
  MaxRefusals = 1
  MaxFaults = 0
INVARIANTS NoHollowSet Attributed WholeGroups DeletedIsGone BudgetHolds
PROPERTIES ImplementsArchive
CHECK_DEADLOCK FALSE
