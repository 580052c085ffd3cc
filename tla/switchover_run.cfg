SPECIFICATION Spec
CONSTANTS
  Slot <- TwoGroups
  FirstPlan <- ToKnownGroups
  MaxOffset = 2
  Attempts = 2
  Undisturbed = TRUE
  MaxRuns = 3
  MaxUpsets = 1
INVARIANTS RecordTrue PhaseTrue
PROPERTIES GuardedSpec
CHECK_DEADLOCK FALSE
