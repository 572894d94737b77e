SPECIFICATION FairSpec
CONSTANTS
  None = None
  Requests = {r1, r2}
  Lease = 1
  WaitBudget = 2
  MaxTime = 5
INVARIANTS
  LeaseHonoured
  OustedNeverAccepted
PROPERTIES
  WaitersAnswered
CHECK_DEADLOCK FALSE
