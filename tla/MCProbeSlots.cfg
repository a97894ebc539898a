SPECIFICATION SlotsSpec
CONSTANTS
  Calls = {c1, c2}
  g = g
  h = h
  Services = {g, h}
  Asks <- SweepsHere
  Sources = 2
  Width = 2
  ProbeConcurrency = 1
  CheckConcurrency = 1
  DelayConcurrency = 1
  MaxRequests = 2
  MaxEpoch = 1
  None = None
INVARIANTS
  SlotsOwned
  OneLiveCheck
  CancelledForCause
  SourcesAsked
  RoutesSettle
PROPERTIES
  CallsEnd
\* Nobody need ask.
CHECK_DEADLOCK FALSE
