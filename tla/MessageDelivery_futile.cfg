SPECIFICATION Spec
CONSTANTS
  Senders = {s1, s2}
  Types = {"delay"}
  MaxSends = 5
  QueueSize = 1
  BatchSize = 2
  PriorityBurst = 2
  EvictAttempts = 4
PROPERTIES
  EvictionIsRetried
\* The senders may fall silent: the batcher then waits for ever.
CHECK_DEADLOCK FALSE
