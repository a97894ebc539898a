SPECIFICATION Spec
CONSTANTS
  MaxRevision = 3
  Lease = {l1, l2}
  None = None
  VerifyPid = TRUE
  Microtasks = TRUE
INVARIANTS
  RunningIsConnected
\* The application may stop asking, and a closed lifecycle is done.
CHECK_DEADLOCK FALSE
