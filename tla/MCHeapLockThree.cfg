SPECIFICATION LockSpec
CONSTANTS
  hi = hi
  mid = mid
  lo = lo
  Idle = idle
  WaitHead = WaitHead
  NULL = NULL
  Threads <- MCThreads
  Priority <- MCPriority
  Amount = 1
  MaxPosts = 6
  Sleepy = {hi, mid}
INVARIANTS MutualExclusion
CHECK_DEADLOCK FALSE
