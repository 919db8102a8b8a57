CONSTANTS
  N = 4
  Mutex = {m1, m2}
  NoMonitor = none
  MAX_MONITOR_CONDS = 2
SPECIFICATION Spec
INVARIANTS TypeOK MutualExclusion QueuesHoldTheBlocked WakeupPending
PROPERTY ImplementsMesaMonitor
