SPECIFICATION Spec
CONSTANTS
  MaxRevision = 4
  Lease = {l1, l2}
  None = None
  VerifyPid = TRUE
  Microtasks = TRUE
PROPERTIES
  AppliedIsTrue
\* The application may stop asking, and a closed lifecycle is done.
CHECK_DEADLOCK FALSE
