SPECIFICATION FairSpec
CONSTANTS
  Senders = {s1, s2, s3}
  FrameSize = 2
  MaxSends = 2
  None = None
INVARIANTS
  Framed
  KeepsConnection
PROPERTIES
  Finishes
\* The goroutines may have sent everything.
CHECK_DEADLOCK FALSE
