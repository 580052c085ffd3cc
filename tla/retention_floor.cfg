SPECIFICATION Spec
CONSTANTS
  N = 3
  Initial = 3
  BackupEvery = 1
  Shared = {}
  Segments = 1
  KeepChoices = {1}
  KeepFor = 9
  MinUsable = 1
  Holdable = {}
  Restorable = {}
  AttendedChoices = {FALSE}
  MaxDeletions = 1
  MaxObjects = 9
  Period = 2
  PlanMaxAge = 2
  Deadline = 1
  ViewLife = 9
  PartialViews = FALSE
  DeepCheck = TRUE
  DegradedAfter = 1
  ReprobeAfter = 1
  Versioning = FALSE
  Horizon = 2
  MaxEdits = 0
  MaxRefusals = 1
  MaxFaults = 0
PROPERTIES StartsLeaveFloor
CHECK_DEADLOCK FALSE
