SPECIFICATION TrafficSpec
CONSTANTS
  Conns = {c1, c2}
  Watchers = {w1, w2}
  CloseRetries = 2
  MaxTotal = 1
  PromptJoin = TRUE
PROPERTIES
  StaysWatched
