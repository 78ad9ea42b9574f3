------------------------------ MODULE Semaphore -----------------------------
(***************************************************************************)
(* ChinaOS/kernel/semaphore/semaphore.c: one semaphore, the threads that   *)
(* wait for it, fetch from it and post to it, and an interrupt handler     *)
(* that posts.                                                             *)
(***************************************************************************)
EXTENDS Blocking

CONSTANTS Amount,      \* the initial units
          MaxPosts     \* bound: how often the semaphore is posted

ASSUME SemaphoreAssumption == Amount \in Nat /\ MaxPosts \in Nat

VARIABLES Counter,
          posted               \* units posted, for the bound

vars == <<list, OS_ActivePrio, OS_This, pend, pc, timer, woken, freed, Counter, posted>>
semaphore == <<freed, Counter, posted>>

\* semaphore_new and semaphore_create: the units, and an empty WaitHead.
SemaphoreInit == Counter = Amount /\ posted = 0
Init == SchedInit /\ SemaphoreInit

Taken_Kept == UNCHANGED <<freed, Counter, posted>>

Taken == Counter' = Counter - 1 /\ UNCHANGED <<freed, posted>>

-----------------------------------------------------------------------------
Fetch_Unasked(t) ==
  /\ Calls(t) /\ MayTake(t)
  /\ Taken
  /\ UNCHANGED sched

\* semaphore_fetch, and semaphore_wait when there is a unit; a fetch that finds
\* none changes nothing.
Fetch(t) ==
  /\ Calls(t) /\ MayTake(t)
  /\ Counter > 0
  /\ Taken
  /\ UNCHANGED sched

\* semaphore_wait, without a unit: up to the unlock.
Wait(t, timed) ==
  /\ Calls(t) /\ MayTake(t)
  /\ Counter = 0
  /\ timed => MayTime
  /\ list' = list_add(Off(t), t, WaitHead)
  /\ OS_ActivePrio' = Cleared(t)
  /\ timer' = [timer EXCEPT ![t] = IF timed THEN "armed" ELSE "off"]
  /\ pc' = [pc EXCEPT ![t] = "blocked"]
  /\ UNCHANGED <<OS_This, pend, woken>>
  /\ UNCHANGED semaphore

\* The rest of semaphore_wait, once the thread runs again.
Resume(t) ==
  /\ Running(t) /\ pc[t] = "waiting"
  /\ timer' = [timer EXCEPT ![t] = "off"]
  /\ list' = list_del(list, t)
  /\ woken' = woken \ {t}
  /\ pc' = [pc EXCEPT ![t] = "run"]
  /\ \/ Counter = 0 /\ UNCHANGED semaphore          \* ERR_TIMEOUT
     \/ Counter > 0 /\ Taken
  /\ UNCHANGED <<OS_ActivePrio, OS_This, pend>>

\* The locked part of semaphore_post: a unit, and the first of WaitHead made
\* ready, which stays on WaitHead.
Posted_Silent ==
  /\ Counter' = Counter + 1 /\ posted' = posted + 1 /\ UNCHANGED freed
  /\ UNCHANGED <<list, OS_ActivePrio, woken>>

Posted ==
  /\ Counter' = Counter + 1 /\ posted' = posted + 1 /\ UNCHANGED freed
  /\ IF list_empty(list, WaitHead)
     THEN UNCHANGED <<list, OS_ActivePrio, woken>>
     ELSE MakeReady(list[WaitHead].next)

FirstAsleep == list_empty(list, WaitHead) \/ Paced(list[WaitHead].next)

\* semaphore_post: with nobody on WaitHead it returns, else it goes on to decide
\* about the switch.
Post(t) ==
  /\ Calls(t) /\ posted < MaxPosts /\ FirstAsleep
  /\ Posted
  /\ pc' = [pc EXCEPT ![t] = IF list_empty(list, WaitHead) THEN "run" ELSE "posting"]
  /\ UNCHANGED <<OS_This, pend, timer>>

PostReturns(t) ==
  /\ Running(t) /\ pc[t] = "posting"
  /\ pend' = Scheduled(OS_ActivePrio)
  /\ pc' = [pc EXCEPT ![t] = "run"]
  /\ UNCHANGED <<list, OS_ActivePrio, OS_This, timer, woken>>
  /\ UNCHANGED semaphore

\* semaphore_post called by an interrupt handler.
PostFromInterrupt ==
  /\ ~freed /\ posted < MaxPosts /\ FirstAsleep
  /\ Posted
  /\ pend' = IF list_empty(list, WaitHead) THEN pend ELSE Scheduled(OS_ActivePrio')
  /\ UNCHANGED <<OS_This, pc, timer>>

Step ==
  \/ KernelStep /\ UNCHANGED semaphore
  \/ PostFromInterrupt
  \/ \E t \in Threads : \/ Fetch(t) \/ Resume(t) \/ Post(t) \/ PostReturns(t)
                        \/ Free(t) /\ UNCHANGED <<Counter, posted>>
                        \/ \E timed \in BOOLEAN : Wait(t, timed)

Next == Step /\ UNCHANGED Careful

Spec == Init /\ [][Next]_<<vars, Careful>>

\* PendSV is served and kernel code goes on while its thread has the processor.
Fairness ==
  /\ WF_vars(Shift /\ UNCHANGED semaphore)
  /\ \A t \in Threads : /\ WF_vars(Switch(t) /\ UNCHANGED semaphore)
                        /\ WF_vars(Resume(t)) /\ WF_vars(PostReturns(t))

-----------------------------------------------------------------------------
TypeOK ==
  /\ SchedType({"run", "blocked", "waiting", "posting"})
  /\ Counter \in Nat /\ posted \in 0..MaxPosts

\* An application that posts when the waiter sleeps, sets no time limits and has
\* no other timers.
Polite == {"paced", "untimed", "calm", "kept"} \subseteq Careful

\* While a thread of a polite application sleeps on the semaphore, every unit that
\* is there has a woken thread coming to take it: no post is lost on a sleeper
\* (semaphore.c:337).
NoLostPost ==
  Polite /\ Sleepers # {} => Counter <= Cardinality(woken)

\* A wait without a time limit ("==0: wait for ever", semaphore.c:181) comes back
\* with a unit: when such a waiter of a polite application runs again there is one
\* for it.
ForeverGetsAUnit ==
  Polite => \A t \in Threads :
    Running(t) /\ pc[t] = "waiting" /\ timer[t] = "off" => Counter > 0

\* The server is served: posted while it sleeps, it comes to run again.
ServerIsServed ==
  pc[Server] = "waiting" /\ Counter > 0 ~> pc[Server] = "run"
=============================================================================
