SPECIFICATION FairSpec
CONSTANTS
  Names = {a, b}
  Servers = {s, t}
  MaxMoves = 2
  None = None
INVARIANTS
  StampsAreTrue
  NeverStuckLoading
PROPERTIES
  Settles
\* The route and the user may leave everything as it is.
CHECK_DEADLOCK FALSE
