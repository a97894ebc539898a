SPECIFICATION TrafficFairSpec
CONSTANTS
  Conns = {c1, c2}
  Watchers = {w1, w2}
  CloseRetries = 2
  MaxTotal = 2
  PromptJoin = TRUE
INVARIANTS
  OneWatcher
PROPERTIES
  OpenKept
