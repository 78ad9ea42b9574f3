SPECIFICATION FairSpec
CONSTANTS
  Threads = {t1, t2, t3}
  Idle = idle
  OS_DeadList = dead
  NULL = null
  Levels <- LiveLevels
  Careful <- CareExit
PROPERTIES
  SleepReturnsToMostUrgent
CHECK_DEADLOCK FALSE
