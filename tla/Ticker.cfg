CONSTANTS
  Timers = {a, b, c}
  NULL = NULL
  W = 5
  MaxDelay = 2
  Patience = 2
  Careful = {"del", "match"}
SPECIFICATION LiveSpec
INVARIANTS RingSound CountsDown
PROPERTIES ImplementsClock EveryDelayEnds
