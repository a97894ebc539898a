\* The properties of ResourceUpdates that ResourceUpdates.cfg leaves out.
SPECIFICATION FairSpec
CONSTANTS
  Geos = {g1}
  Providers = {p1}
  Calls = {c1, c2}
  MaxEvents = 1
INVARIANTS
  TypeOK
  OneManual
  ProviderRouted
  NoStuckMark
PROPERTIES
  ClaimsEnd
