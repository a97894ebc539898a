SPECIFICATION Spec
CONSTANTS
  Geos = {g1}
  Providers = {}
  Calls = {c1, c2}
  MaxEvents = 2
PROPERTIES
  TurnedDownLeaves
