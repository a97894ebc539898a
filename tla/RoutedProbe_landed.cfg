SPECIFICATION Spec
CONSTANTS
  Names = {a, b}
  Servers = {s, t}
  MaxMoves = 2
  None = None
INVARIANTS
  ShownIsCurrent
\* The route and the user may leave everything as it is.
CHECK_DEADLOCK FALSE
