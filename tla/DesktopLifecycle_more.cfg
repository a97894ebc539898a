\* The properties of DesktopLifecycle that DesktopLifecycle.cfg leaves out.
SPECIFICATION FairSpec
CONSTANTS
  MaxRevision = 3
  Lease = {l1, l2}
  None = None
  VerifyPid = TRUE
  Microtasks = TRUE
INVARIANTS
  TypeOK
  RunningIsOwned
  MatchingConnection
  ClosedIsFinal
PROPERTIES
  KeepsPromise
\* The application may stop asking, and a closed lifecycle is done.
CHECK_DEADLOCK FALSE
