SPECIFICATION FairSpec
CONSTANTS
  Geos = {g1}
  Providers = {p1}
  Calls = {c1, c2}
  MaxEvents = 1
INVARIANTS
  ClaimsTrue
PROPERTIES
  MarksEnd
