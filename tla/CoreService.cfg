SPECIFICATION ServiceSpec
CONSTANTS
  Threads = {t1, t2}
  Main = Main
  Ports = {1, 2}
  DefaultPort = 1
  Nothing = Nothing
INVARIANTS
  LiveFollowsConfig
  ResetsDropProbes
\* The host may stop calling, and a process that ended takes no step.
CHECK_DEADLOCK FALSE
