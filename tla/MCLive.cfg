SPECIFICATION LiveSpec
CONSTANTS
  hi = hi
  lo = lo
  Idle = idle
  WaitHead = WaitHead
  NULL = NULL
  Threads = {hi, lo}
  Priority <- MCPriority
  Amount = 1
  MaxPosts = 6
  Sleepy = {hi}
  Data = {d1}
  Asked = 2
  MaxChunk = 2
  W = 4
  Mails = {m1}
  Size = 2
  Posters = {lo}
  Reader = hi
  Uses = {"heap", "semaphore", "pipe", "lwip"}
INVARIANT MutualExclusion
PROPERTIES WaitersAreServed LwipPosts
CHECK_DEADLOCK FALSE
