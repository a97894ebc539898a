SPECIFICATION SpillSpec
CONSTANTS
  Calls = {c, d}
  Sweeps = {1, 2}
  Elevated = TRUE
  MaxAsked = 2
  MaxDeaths = 1
  None = None
INVARIANTS
  NothingLeft
  NamedIsWhole
PROPERTIES
  Answered
  Reclaimed
\* The calls are bounded, and nobody need make one.
CHECK_DEADLOCK FALSE
