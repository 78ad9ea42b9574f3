---------------------------- MODULE MCHeapLock ----------------------------
(***************************************************************************)
(* Threads that allocate, hi above mid above lo, above idle.               *)
(***************************************************************************)
EXTENDS HeapLock, TLC

CONSTANTS hi, mid, lo
MCThreads  == {hi, mid, lo}
MCPriority == hi :> 3 @@ mid :> 5 @@ lo :> 8 @@ Idle :> 32
=============================================================================
