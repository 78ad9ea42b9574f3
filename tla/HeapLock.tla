------------------------------ MODULE HeapLock ------------------------------
(***************************************************************************)
(* The lock of the allocator: malloc and free of library/malloc/malloc.c   *)
(* wait for the semaphore Lock, with one unit and no time limit, work on   *)
(* the heap, and post it.  Neither looks at what the wait returned.  What  *)
(* is done in between is the module Heap.  Outside of it threads sleep, or *)
(* a more urgent one would never find a less urgent one inside.            *)
(***************************************************************************)
EXTENDS Semaphore

CONSTANT Sleepy       \* the threads that sleep when they are not allocating

ASSUME HeapLockAssumption == Sleepy \subseteq Threads

VARIABLE inside      \* the threads between the wait and the post

lockVars == <<vars, inside>>

\* No time limits, and no timers but those of sleep.
LockInit == Init /\ inside = {} /\ Careful = {"untimed", "calm"}

\* The wait finds the unit.
Enter(t) ==
  /\ t \notin inside
  /\ Fetch(t)
  /\ inside' = inside \cup {t}

\* The wait finds none, and the thread sleeps.
EnterWaits(t) ==
  /\ t \notin inside
  /\ Wait(t, FALSE)
  /\ UNCHANGED inside

\* The wait returns, with whatever result.
EnterResumes(t) ==
  /\ Resume(t)
  /\ inside' = inside \cup {t}

Leave(t) ==
  /\ t \in inside
  /\ Post(t)
  /\ inside' = inside \ {t}

\* sleep() of kernel.c, up to its OS_thread_switch, and from there.
Sleep(t) ==
  /\ Calls(t) /\ t \in Sleepy \ inside
  /\ list' = Off(t)
  /\ OS_ActivePrio' = Cleared(t)
  /\ timer' = [timer EXCEPT ![t] = "armed"]
  /\ pc' = [pc EXCEPT ![t] = "asleep"]
  /\ pend' = TRUE
  /\ UNCHANGED <<OS_This, woken, semaphore, inside>>

SleepReturns(t) ==
  /\ Running(t) /\ pc[t] = "asleep"
  /\ timer' = [timer EXCEPT ![t] = "off"]
  /\ woken' = woken \ {t}
  /\ pc' = [pc EXCEPT ![t] = "run"]
  /\ UNCHANGED <<list, OS_ActivePrio, OS_This, pend, semaphore, inside>>

LockStep ==
  \/ KernelStep /\ UNCHANGED <<semaphore, inside>>
  \/ \E t \in Threads : \/ Enter(t) \/ EnterWaits(t) \/ EnterResumes(t) \/ Leave(t)
                        \/ Sleep(t) \/ SleepReturns(t)
                        \/ PostReturns(t) /\ UNCHANGED inside

LockNext == LockStep /\ UNCHANGED Careful

LockSpec == LockInit /\ [][LockNext]_<<lockVars, Careful>>

LockFairness ==
  /\ WF_lockVars(Shift /\ UNCHANGED <<semaphore, inside>>)
  /\ \A t \in Threads : /\ WF_lockVars(Switch(t) /\ UNCHANGED <<semaphore, inside>>)
                        /\ WF_lockVars(EnterResumes(t)) /\ WF_lockVars(Leave(t))
                        /\ WF_lockVars(PostReturns(t) /\ UNCHANGED inside)
                        /\ WF_lockVars(SleepReturns(t))

-----------------------------------------------------------------------------
\* One thread at a time works on the heap (malloc.c:1090, 1174).
MutualExclusion == Cardinality(inside) <= 1

\* Whoever asks for the heap comes to work on it.
Served == \A t \in Threads : pc[t] = "waiting" ~> t \in inside \/ posted = MaxPosts
=============================================================================
