SPECIFICATION FairSpec
CONSTANTS
  MaxRevision = 3
  Lease = {l1, l2}
  None = None
  VerifyPid = TRUE
  Microtasks = TRUE
INVARIANTS
  OneCore
  NoOrphan
  AnsweredInOrder
PROPERTIES
  AppliedExceptStops
  Converges
  FairKeepsPromise
\* The application may stop asking, and a closed lifecycle is done.
CHECK_DEADLOCK FALSE
