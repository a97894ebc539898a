\* The properties of FrameStream that FrameStream.cfg leaves out.
SPECIFICATION FairSpec
CONSTANTS
  Senders = {s1, s2, s3}
  FrameSize = 2
  MaxSends = 2
  None = None
INVARIANTS
  TypeOK
  LostWhole
  LoggedOnce
PROPERTIES
  GivenUpEnds
  SendsEnd
\* The goroutines may have sent everything.
CHECK_DEADLOCK FALSE
