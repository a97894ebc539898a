SPECIFICATION FairSpec
CONSTANTS
  Workers = {w1, w2}
  Poller = poller
  Routes = {r1, r2}
  MaxSeq = 2
  MaxBumps = 1
  MaxDrift = 1
  None = None
INVARIANTS
  FollowsLatest
  NothingMissed
PROPERTIES
  Noticed
