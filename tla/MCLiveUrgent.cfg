SPECIFICATION LiveSpec
CONSTANTS
  hi = hi
  lo = lo
  Idle = idle
  WaitHead = WaitHead
  NULL = NULL
  Threads = {hi, lo}
  Priority <- MCPriority
  Amount = 1
  MaxPosts = 6
  Sleepy = {hi}
  Data = {d1}
  Asked = 2
  MaxChunk = 2
  W = 4
  Mails = {m1}
  Size = 2
  Posters = {hi}
  Reader = lo
  Uses = {"lwip"}
PROPERTY LwipPostsEnd
CHECK_DEADLOCK FALSE
