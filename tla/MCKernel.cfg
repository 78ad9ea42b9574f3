SPECIFICATION Spec
CONSTANTS
  Threads = {t1, t2, t3}
  Idle = idle
  OS_DeadList = dead
  NULL = null
  Levels <- MCLevels
  Careful <- CareAll
SYMMETRY Symmetry
INVARIANTS
  TypeOK
  ReadyQueues
  Bitmap
  RunsAThread
  MostUrgentRuns
  ZombieList
  LiveChain
  IInv
