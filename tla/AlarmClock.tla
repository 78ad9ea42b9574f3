----------------------------- MODULE AlarmClock -----------------------------
(***************************************************************************)
(* What the timers of ChinaOS promise, with no ring and no counter: an     *)
(* alarm that is set for ms milliseconds rings when exactly ms of them     *)
(* have passed, together with every other alarm that is due then, unless   *)
(* it is cancelled first.                                                  *)
(***************************************************************************)
EXTENDS Naturals

CONSTANTS Alarms, Delays     \* Delays: the milliseconds an alarm is set for

VARIABLES set,               \* the alarms that are set
          rest               \* milliseconds until each of them rings

clockVars == <<set, rest>>

Due == {a \in set : rest[a] = 0}

ClockInit == set = {} /\ rest = [a \in Alarms |-> 0]

Set(a, ms) ==
  /\ a \notin set
  /\ set' = set \cup {a}
  /\ rest' = [rest EXCEPT ![a] = ms]

Cancel(a) ==
  /\ a \in set
  /\ set' = set \ {a}
  /\ rest' = [rest EXCEPT ![a] = 0]

\* Time does not pass an alarm that is due.
Pass ==
  /\ Due = {}
  /\ rest' = [a \in Alarms |-> IF a \in set THEN rest[a] - 1 ELSE 0]
  /\ UNCHANGED set

Ring ==
  /\ Due # {}
  /\ set' = set \ Due
  /\ UNCHANGED rest         \* already 0

ClockNext ==
  \/ \E a \in Alarms : Cancel(a) \/ \E ms \in Delays : Set(a, ms)
  \/ Pass
  \/ Ring

ClockSpec == ClockInit /\ [][ClockNext]_clockVars
=============================================================================
