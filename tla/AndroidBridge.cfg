SPECIFICATION Spec
CONSTANTS
  Callers = {c1, c2}
  Dialers = {d1, d2}
  MaxStarts = 2
  MaxDns = 2
  None = None
INVARIANTS
  CallbackOwned
  HookLive
  DescriptorsOwned
  LastDnsWins
PROPERTIES
  CallsReturn
\* Callers and dialers may stop.
CHECK_DEADLOCK FALSE
