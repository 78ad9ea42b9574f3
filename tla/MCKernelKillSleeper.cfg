SPECIFICATION Spec
CONSTANTS
  Threads = {t1, t2, t3}
  Idle = idle
  OS_DeadList = dead
  NULL = null
  Levels <- MCLevels
  Careful <- CareKill
INVARIANT ReadyQueues
