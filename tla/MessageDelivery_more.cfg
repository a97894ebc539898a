\* The properties of MessageDelivery that MessageDelivery.cfg leaves out.
SPECIFICATION FairSpec
CONSTANTS
  Senders = {s1, s2}
  Types = {"loaded", "delay", "log", "dns"}
  MaxSends = 2
  QueueSize = 2
  BatchSize = 2
  PriorityBurst = 1
  EvictAttempts = 2
INVARIANTS
  TypeOK
  EvictsOwnQueue
\* The senders may fall silent: the batcher then waits for ever.
CHECK_DEADLOCK FALSE
