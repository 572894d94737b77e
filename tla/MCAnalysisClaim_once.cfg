\* Two requests, lease never at issue.
SPECIFICATION Spec
CONSTANTS
  None = None
  Requests = {r1, r2}
  Lease = 2
  WaitBudget = 1
  MaxTime = 2
INVARIANTS
  OneAcceptedAnalysis
CHECK_DEADLOCK FALSE
