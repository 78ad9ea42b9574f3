SPECIFICATION Spec
CONSTANTS
  Boards <- MCBoards
  Modulus = 65536
INVARIANTS Tiled Coalesced FreeFound BestFit UsedIsHeld
PROPERTIES KeepsPromise
