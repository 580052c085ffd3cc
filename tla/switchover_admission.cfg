SPECIFICATION FairSpec
CONSTANTS
  Switchover = {1, 2}
  MaxUpsets = 1
INVARIANT OneRunAtATime
PROPERTIES TurnsSpec NoJobAfterRecorded AdmissionSettles ApprovedIsServed
CHECK_DEADLOCK FALSE
