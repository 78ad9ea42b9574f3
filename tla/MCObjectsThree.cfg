SPECIFICATION ObjectsSpec
CONSTANTS
  hi = hi
  lo = lo
  Idle = idle
  WaitHead = WaitHead
  NULL = NULL
  Threads = {hi, lo}
  Priority <- MCPriority
  Amount = 1
  MaxPosts = 3
  Mails = {m1, m2}
  Size = 1
  Data = {d1, d2}
  Asked = 3
  MaxChunk = 2
  W = 4
INVARIANT PipeHolds
CHECK_DEADLOCK FALSE
