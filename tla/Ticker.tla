------------------------------- MODULE Ticker -------------------------------
(***************************************************************************)
(* The timers of ChinaOS/architecture/arm/cortex-m3/nxp/lpc1766/ticker:    *)
(* a ring of TIMER records ordered by their moment, of which OS_pTimer is  *)
(* the one the hardware counter T0 counts towards, and the threads that    *)
(* add (sleep and the timed waits) and delete their own timer.             *)
(*                                                                         *)
(* OS_timer_add is always called with interrupts locked, and so is         *)
(* OS_timer_del by the timed waits of semaphore, mailbox and pipe; each is *)
(* one action.  sleep calls OS_timer_del unlocked: one action per access.  *)
(* The counter is hardware: it runs on, and may match, while a thread      *)
(* holds the lock, so an add or a delete may find the interrupt pending.   *)
(*                                                                         *)
(* Moments are counted modulo W (2^32 in the code).                        *)
(***************************************************************************)
EXTENDS Integers, FiniteSets

CONSTANTS Timers,      \* &pThread->Timer, for every thread
          NULL,
          W,           \* 2^32: the width of Time, T0TC and T0MR0
          MaxDelay,    \* the longest delay a thread asks for
          Patience,    \* ticks a woken thread may need to delete its timer
          Careful      \* what the threads take care of, see Disciplines

\* "del"  : nothing happens while sleep is inside its unlocked OS_timer_del;
\* "match": no timer is added or deleted while the match of the current one
\*          waits for its interrupt.
Disciplines == {"del", "match"}

ASSUME TickerAssumption ==
  /\ NULL \notin Timers /\ IsFiniteSet(Timers)
  /\ W \in Nat /\ MaxDelay \in Nat \ {0} /\ Patience \in Nat
  /\ MaxDelay + Patience < W
  /\ Careful \subseteq Disciplines

VARIABLES
  timer,       \* the TIMER records
  OS_pTimer,
  T0TC, T0MR0, \* counter and match value
  counting,    \* T0TCR: the counter is enabled
  flag,        \* T0IR: matched, the interrupt is pending
  pc,          \* where the thread of a timer is
  LeftTime,    \* the local of an OS_timer_del that runs unlocked
  rest         \* milliseconds the thread still has to wait, by the clock on the wall

hardware == <<T0TC, T0MR0, counting, flag>>
vars == <<timer, OS_pTimer, T0TC, T0MR0, counting, flag, pc, LeftTime, rest>>

Delays   == 1..MaxDelay
Unused   == [Next |-> NULL, Prev |-> NULL, Time |-> 0]
Deleting == {"test", "stop", "reset", "none", "left", "hand", "start",
             "unlink1", "unlink2", "clear"}

\* Asleep: in sleep or in a timed wait, the timer set.  Woken: its interrupt
\* made the thread ready, and the thread has not yet begun to delete it.
Asleep == {t \in Timers : pc[t] \in {"sleep", "wait"}}
Woken  == {t \in Timers : pc[t] \in {"slept", "timeout"}}

\* The timers met on the way from OS_pTimer, in order.
Step[k \in 0..Cardinality(Timers)] ==
  IF k = 0 THEN OS_pTimer
  ELSE IF Step[k - 1] = NULL THEN NULL ELSE timer[Step[k - 1]].Next
Ring == IF OS_pTimer = NULL THEN {} ELSE {Step[k] : k \in DOMAIN Step}

Undisturbed(T) == "del" \in Careful => \A u \in Timers \ T : pc[u] \notin Deleting
NoLateMatch    == "match" \in Careful => ~flag
\* What the counter is to count when the delete of t hands it over.
ToNext(t)      == (timer[timer[t].Next].Time - timer[t].Time + T0MR0 - T0TC) % W
\* Bound: no delete hands the counter to a timer that expired in this very
\* millisecond and is not deleted yet.  set_time(0) would start the counter at its
\* match value, and whether that is a match is up to the hardware.
NoZero(t)      == OS_pTimer = t /\ timer[t].Next \notin {t, NULL} => ToNext(t) # 0

-----------------------------------------------------------------------------
get_left_time == (T0MR0 - T0TC) % W

set_time(ms) == /\ T0TC' = 0
                /\ T0MR0' = ms % W
                /\ counting' = TRUE
                /\ UNCHANGED flag

Init ==
  /\ timer = [t \in Timers |-> Unused]
  /\ OS_pTimer = NULL
  /\ T0TC = 0 /\ T0MR0 = 0 /\ counting = FALSE /\ flag = FALSE
  /\ pc = [t \in Timers |-> "run"]
  /\ LeftTime = [t \in Timers |-> 0]
  /\ rest = [t \in Timers |-> 0]

-----------------------------------------------------------------------------
\* Where OS_timer_add puts a timer of moment Time: after the first timer,
\* from OS_pTimer on, whose successor lies behind that moment, or after the
\* last one.
Behind(p, Time) ==
  (Time - timer[p].Time) % W <= (timer[timer[p].Next].Time - timer[p].Time) % W

Position(Time) ==
  Step[CHOOSE k \in 0..(Cardinality(Ring) - 1) :
         /\ Behind(Step[k], Time) \/ Step[k + 1] = OS_pTimer
         /\ \A j \in 0..(k - 1) : ~Behind(Step[j], Time) /\ Step[j + 1] # OS_pTimer]

Moment(ms) == (timer[OS_pTimer].Time + ms - get_left_time) % W

OS_timer_add(t, ms) ==
  \/ /\ OS_pTimer = NULL
     /\ timer' = [timer EXCEPT ![t] = [Next |-> t, Prev |-> t, Time |-> ms]]
     /\ OS_pTimer' = t
     /\ set_time(ms)
  \/ /\ OS_pTimer # NULL
     /\ LET p == Position(Moment(ms))
            n == timer[p].Next
        IN  timer' = [timer EXCEPT ![t] = [Next |-> n, Prev |-> p, Time |-> Moment(ms)],
                                   ![n].Prev = t,
                                   ![p].Next = t]
     /\ IF get_left_time <= ms
        THEN UNCHANGED <<OS_pTimer, hardware>>
        ELSE OS_pTimer' = t /\ set_time(ms)

\* The ring without t, whose record memset clears.
Unlinked_Forward(t) ==
  [timer EXCEPT ![timer[t].Prev].Next = timer[t].Next, ![t] = Unused]

Unlinked(t) ==
  LET cut == [timer EXCEPT ![timer[t].Prev].Next = timer[t].Next,
                           ![timer[t].Next].Prev = timer[t].Prev]
  IN  [cut EXCEPT ![t] = Unused]

stop_counter == counting' = FALSE /\ T0TC' = 0 /\ UNCHANGED <<T0MR0, flag>>

\* The part of OS_timer_del that hands the counter over to the next timer.
HandOver_Whole(t) ==
  /\ OS_pTimer' = timer[t].Next
  /\ set_time(timer[timer[t].Next].Time - timer[t].Time)

HandOver(t) ==
  /\ OS_pTimer' = timer[t].Next
  /\ set_time(timer[timer[t].Next].Time - timer[t].Time + get_left_time)

OS_timer_del(t) ==
  IF NULL \in {timer[t].Prev, timer[t].Next}
  THEN UNCHANGED <<timer, OS_pTimer, hardware>>
  ELSE /\ timer' = Unlinked(t)
       /\ \/ OS_pTimer # t /\ UNCHANGED <<OS_pTimer, hardware>>
          \/ OS_pTimer = t /\ timer[t].Next = t /\ OS_pTimer' = NULL /\ stop_counter
          \/ OS_pTimer = t /\ timer[t].Next # t /\ HandOver(t)

-----------------------------------------------------------------------------
\* sleep(ms), and the blocking half of a timed wait.
Add(t, ms, why) ==
  /\ pc[t] = "run" /\ Undisturbed({t}) /\ NoLateMatch
  /\ OS_timer_add(t, ms)
  /\ pc' = [pc EXCEPT ![t] = why]
  /\ rest' = [rest EXCEPT ![t] = ms]
  /\ UNCHANGED LeftTime

\* The end of a timed wait: posted before its time, or timed out.
WaitEnds(t) ==
  /\ pc[t] \in {"wait", "timeout"} /\ Undisturbed({t}) /\ NoLateMatch /\ NoZero(t)
  /\ OS_timer_del(t)
  /\ pc' = [pc EXCEPT ![t] = "run"]
  /\ rest' = [rest EXCEPT ![t] = 0]
  /\ UNCHANGED LeftTime

\* The end of sleep, OS_timer_del access by access.
DelEntry(t) ==
  /\ pc[t] = "slept" /\ Undisturbed({t}) /\ NoLateMatch /\ NoZero(t)
  /\ pc' = [pc EXCEPT ![t] = IF NULL \in {timer[t].Prev, timer[t].Next} THEN "run" ELSE "test"]
  /\ UNCHANGED <<timer, OS_pTimer, hardware, LeftTime, rest>>

DelTest(t) ==
  /\ pc[t] = "test" /\ Undisturbed({t})
  /\ pc' = [pc EXCEPT ![t] = IF OS_pTimer # t THEN "unlink1"
                             ELSE IF timer[t].Next = t THEN "stop" ELSE "left"]
  /\ UNCHANGED <<timer, OS_pTimer, hardware, LeftTime, rest>>

\* Of the only timer: the counter is stopped, then reset, then OS_pTimer cleared.
DelStop(t) ==
  /\ Undisturbed({t})
  /\ \/ /\ pc[t] = "stop"
        /\ counting' = FALSE
        /\ pc' = [pc EXCEPT ![t] = "reset"]
        /\ UNCHANGED <<OS_pTimer, T0TC, T0MR0, flag>>
     \/ /\ pc[t] = "reset"
        /\ T0TC' = 0 /\ counting' = FALSE
        /\ pc' = [pc EXCEPT ![t] = "none"]
        /\ UNCHANGED <<OS_pTimer, T0MR0, flag>>
     \/ /\ pc[t] = "none"
        /\ OS_pTimer' = NULL
        /\ pc' = [pc EXCEPT ![t] = "unlink1"]
        /\ UNCHANGED hardware
  /\ UNCHANGED <<timer, LeftTime, rest>>

DelLeft(t) ==
  /\ pc[t] = "left" /\ Undisturbed({t})
  /\ LeftTime' = [LeftTime EXCEPT ![t] = get_left_time]
  /\ pc' = [pc EXCEPT ![t] = "hand"]
  /\ UNCHANGED <<timer, OS_pTimer, hardware, rest>>

DelHandOver(t) ==
  /\ pc[t] = "hand" /\ Undisturbed({t})
  /\ OS_pTimer' = timer[t].Next
  /\ pc' = [pc EXCEPT ![t] = "start"]
  /\ UNCHANGED <<timer, hardware, LeftTime, rest>>

\* OS_pTimer is read again: an interrupt may have made it NULL.
DelStart(t) ==
  /\ pc[t] = "start" /\ Undisturbed({t})
  /\ \E Time \in IF OS_pTimer = NULL THEN 0..(W-1) ELSE {timer[OS_pTimer].Time} :
       set_time(Time - timer[t].Time + LeftTime[t])
  /\ LeftTime' = [LeftTime EXCEPT ![t] = 0]
  /\ pc' = [pc EXCEPT ![t] = "unlink1"]
  /\ UNCHANGED <<timer, OS_pTimer, rest>>

DelUnlink(t) ==
  /\ Undisturbed({t})
  /\ \/ /\ pc[t] = "unlink1"
        /\ timer' = [timer EXCEPT ![timer[t].Prev].Next = timer[t].Next]
        /\ pc' = [pc EXCEPT ![t] = "unlink2"]
     \/ /\ pc[t] = "unlink2"
        /\ timer' = [timer EXCEPT ![timer[t].Next].Prev = timer[t].Prev]
        /\ pc' = [pc EXCEPT ![t] = "clear"]
     \/ /\ pc[t] = "clear"
        /\ timer' = [timer EXCEPT ![t] = Unused]
        /\ pc' = [pc EXCEPT ![t] = "run"]
  /\ UNCHANGED <<OS_pTimer, hardware, LeftTime, rest>>

-----------------------------------------------------------------------------
\* How many timers the interrupt makes ready: those of the moment of OS_pTimer
\* that follow it in the ring.
Batch_One == 1

Batch ==
  CHOOSE n \in 1..Cardinality(Ring) :
    /\ timer[Step[n]].Time # timer[OS_pTimer].Time \/ Step[n] = OS_pTimer
    /\ \A j \in 1..(n - 1) : /\ timer[Step[j]].Time = timer[OS_pTimer].Time
                             /\ Step[j] # OS_pTimer

\* The waits stop at the ready lists and the bitmap: see Kernel for those.
systimer_exception ==
  /\ flag /\ Undisturbed({})
  /\ flag' = FALSE
  /\ \/ /\ OS_pTimer = NULL
        /\ counting' = FALSE
        /\ UNCHANGED <<OS_pTimer, T0TC, T0MR0, pc>>
     \/ /\ OS_pTimer # NULL
        /\ LET rung == {Step[k] : k \in 0..(Batch - 1)}
               n    == Step[Batch]
           IN  /\ pc' = [t \in Timers |->
                           CASE t \in rung /\ pc[t] = "sleep" -> "slept"
                             [] t \in rung /\ pc[t] = "wait"  -> "timeout"
                             [] OTHER -> pc[t]]
               /\ IF timer[n].Time # timer[OS_pTimer].Time
                  THEN /\ OS_pTimer' = n
                       /\ T0TC' = 0 /\ counting' = TRUE
                       /\ T0MR0' = (timer[n].Time - timer[timer[n].Prev].Time) % W
                  ELSE /\ OS_pTimer' = NULL
                       /\ counting' = FALSE
                       /\ UNCHANGED <<T0TC, T0MR0>>
  /\ UNCHANGED <<timer, LeftTime, rest>>

\* A woken thread comes to delete its timer before the moments wrap around.
InTime ==
  OS_pTimer # NULL =>
    \A t \in Ring \ Asleep :
      (timer[OS_pTimer].Time - get_left_time - timer[t].Time) % W < Patience

\* One millisecond.  On a match the counter is reset and stopped (T0MCR = 7),
\* and its interrupt is served within the millisecond.
Tick ==
  /\ ~flag /\ InTime /\ Undisturbed({})
  /\ IF counting /\ (T0TC + 1) % W = T0MR0
     THEN flag' = TRUE /\ T0TC' = 0 /\ counting' = FALSE
     ELSE T0TC' = (IF counting THEN (T0TC + 1) % W ELSE T0TC) /\ UNCHANGED <<counting, flag>>
  /\ rest' = [t \in Timers |-> IF t \in Asleep /\ rest[t] > 0 THEN rest[t] - 1 ELSE rest[t]]
  /\ UNCHANGED <<timer, OS_pTimer, T0MR0, pc, LeftTime>>

-----------------------------------------------------------------------------
Thread(t) ==
  \/ \E ms \in Delays : Add(t, ms, "sleep") \/ Add(t, ms, "wait")
  \/ WaitEnds(t)
  \/ DelEntry(t) \/ DelTest(t) \/ DelStop(t)
  \/ DelLeft(t) \/ DelHandOver(t) \/ DelStart(t) \/ DelUnlink(t)

Next == (\E t \in Timers : Thread(t)) \/ systimer_exception \/ Tick

\* The counter runs, interrupts are served, and a woken thread gets to run.
Fairness ==
  /\ WF_vars(Tick) /\ WF_vars(systimer_exception)
  /\ \A t \in Timers :
       /\ WF_vars(pc[t] = "timeout" /\ WaitEnds(t))
       /\ WF_vars(DelEntry(t)) /\ WF_vars(DelTest(t)) /\ WF_vars(DelStop(t))
       /\ WF_vars(DelLeft(t)) /\ WF_vars(DelHandOver(t)) /\ WF_vars(DelStart(t))
       /\ WF_vars(DelUnlink(t))

Spec == Init /\ [][Next]_vars
LiveSpec == Spec /\ Fairness

-----------------------------------------------------------------------------
TypeOK ==
  /\ timer \in [Timers -> [Next : Timers \cup {NULL}, Prev : Timers \cup {NULL}, Time : 0..(W-1)]]
  /\ OS_pTimer \in Timers \cup {NULL}
  /\ T0TC \in 0..(W-1) /\ T0MR0 \in 0..(W-1) /\ counting \in BOOLEAN /\ flag \in BOOLEAN
  /\ pc \in [Timers -> {"run", "sleep", "wait", "slept", "timeout"} \cup Deleting]
  /\ LeftTime \in [Timers -> 0..(W-1)]
  /\ rest \in [Timers -> 0..MaxDelay]

\* The ring is whole outside of an unlocked delete: OS_pTimer is no timer that
\* was deleted, next and prev undo each other, and every timer that is set can
\* be reached from OS_pTimer, so that its interrupt can come (ticker.c:110-311).
RingSound ==
  /\ TypeOK
  /\ (\A t \in Timers : pc[t] \notin Deleting) =>
       /\ NULL \notin Ring
       /\ \A t \in Ring : /\ timer[t].Next \in Ring /\ timer[timer[t].Next].Prev = t
                          /\ pc[t] # "run"
       /\ Asleep \subseteq Ring

\* The moments kept modulo W and the one counter amount to a countdown for
\* each timer: what the ring and the counter make of the time a timer has left
\* is what the clock on the wall says, whatever was added and deleted meanwhile
\* (ticker.c:147-172, 227-229, 298), but for an unlocked delete that has made the next
\* timer OS_pTimer and not yet started the counter for it (between 228 and 229).
CountsDown ==
  (\A t \in Timers : pc[t] # "start") =>
  \A t \in Asleep :
    (timer[t].Time - timer[OS_pTimer].Time + IF flag THEN 0 ELSE get_left_time) % W = rest[t]

\* The timers are an alarm clock: a delay ends in the millisecond it is due, with
\* every other that is due then, and not before.
Clock == INSTANCE AlarmClock WITH
           Alarms <- Timers, set <- Asleep,
           rest <- [t \in Timers |-> IF t \in Asleep THEN rest[t] ELSE 0]
ImplementsClock == Clock!ClockSpec

\* Every sleep and every timed wait comes to an end.
EveryDelayEnds == \A t \in Timers : (t \in Asleep) ~> (t \notin Asleep)
=============================================================================
