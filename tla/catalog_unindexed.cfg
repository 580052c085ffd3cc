SPECIFICATION ArchiveSpec
CONSTANTS
  Points = {1, 2, 3}
  MaxFaults = 2
INVARIANT BackfillCompletes
CHECK_DEADLOCK FALSE
