------------------------------ MODULE Blocking ------------------------------
(***************************************************************************)
(* What semaphore.c, mailbox.c and pipe.c share: a thread takes itself off *)
(* its ready list and waits, and a post, a write or its timer makes it     *)
(* ready again.  The ready lists, the bitmap, OS_This and PendSV are those *)
(* of Kernel, for a fixed set of threads with a priority each.             *)
(*                                                                         *)
(* Locked code is one action.  Interrupt handlers run to their end and     *)
(* PendSV, the least urgent exception, comes after all of them.            *)
(***************************************************************************)
EXTENDS List, Naturals, FiniteSets

CONSTANTS Threads, Idle,
          Priority,    \* THREAD.Priority
          WaitHead,    \* &WaitHead of the one object that is modelled
          NULL

IdlePrio == 32
Tcb      == Threads \cup {Idle}
Heads    == {Priority[t] : t \in Tcb}        \* &OS_ActiveProc[p] is p
Node     == Tcb \cup Heads \cup {WaitHead, NULL}

Server == CHOOSE t \in Threads : \A u \in Threads : Priority[t] <= Priority[u]

\* "alone"  : only the most urgent thread waits, and no other takes what it
\*            waits for;
\* "paced"  : nothing is posted while the thread it would wake is not asleep;
\* "untimed": no wait has a time limit;
\* "calm"   : no timer of another thread expires;
\* "single" : what a thread posts or writes step by step is not interleaved
\*            with another post or write, nor a mail with a reader;
\* "kept"   : the object is freed only while no thread is inside of it.
Disciplines == {"alone", "paced", "untimed", "calm", "single", "kept"}

ASSUME BlockingAssumption ==
  /\ Idle \notin Threads /\ Priority[Idle] = IdlePrio
  /\ \A t \in Threads : Priority[t] \in 0..31
  /\ \A t, u \in Tcb : Priority[t] = Priority[u] => t = u

\* Threads and list heads are different things in memory.
ASSUME NodesAssumption ==
  /\ Tcb \cap (0..IdlePrio) = {}
  /\ WaitHead \notin Tcb \cup (0..IdlePrio)
  /\ NULL \notin Tcb \cup (0..IdlePrio) \cup {WaitHead}

VARIABLES
  Careful,     \* what the application takes care of, see Disciplines: never changes
  list, OS_ActivePrio, OS_This, pend,
  pc,          \* where a thread is: see TypeOK of the module that extends this one
  timer,       \* THREAD.Timer: "off", "armed", or "rung" until it is deleted
  woken,       \* the waiting threads that were made ready
  freed        \* the object was freed

sched == <<list, OS_ActivePrio, OS_This, pend, pc, timer, woken>>

-----------------------------------------------------------------------------
bit_scan_forward(S) ==
  IF S = {} THEN IdlePrio ELSE CHOOSE p \in S : \A r \in S : p <= r

SchedInit ==
  /\ Careful \in SUBSET Disciplines
  /\ list = [n \in Node |->
       CASE n \in Tcb   -> [next |-> Priority[n], prev |-> Priority[n]]
         [] n \in Heads -> LET t == CHOOSE u \in Tcb : Priority[u] = n
                           IN  [next |-> t, prev |-> t]
         [] OTHER       -> [next |-> n, prev |-> n]]
  /\ OS_ActivePrio = {Priority[t] : t \in Threads}
  /\ OS_This = Server
  /\ pend = FALSE
  /\ pc = [t \in Tcb |-> "run"]
  /\ timer = [t \in Tcb |-> "off"]
  /\ woken = {}
  /\ freed = FALSE

Running(t) == OS_This = t /\ ~pend
Calls(t)   == Running(t) /\ pc[t] = "run" /\ t # Idle /\ ~freed

\* list_del of the running thread, and the bitmap that goes with it.
Off(t) == list_del(list, t)

Cleared_Never(t) == OS_ActivePrio

Cleared(t) == IF list_empty(Off(t), Priority[t])
              THEN OS_ActivePrio \ {Priority[t]}
              ELSE OS_ActivePrio

\* Asleep: waiting for a post, a write or the timer.
Sleepers == {t \in Tcb : pc[t] \in {"blocked", "waiting", "asleep"} /\ t \notin woken}

\* list_add of a thread to its ready list, and the bitmap that goes with it.
MakeReady(t) ==
  /\ list' = list_add(list, t, Priority[t])
  /\ OS_ActivePrio' = OS_ActivePrio \cup {Priority[t]}
  /\ woken' = woken \cup ({t} \cap Sleepers)

\* scheduler(), given the bitmap it finds.
Scheduled(active) ==
  pend \/ (OS_This \in Tcb /\ bit_scan_forward(active) < Priority[OS_This])

Paced(t)   == "paced" \in Careful => t \in Sleepers
MayTake(t) == "alone" \in Careful => t = Server
MayTime    == "untimed" \notin Careful

-----------------------------------------------------------------------------
\* OS_thread_switch, called by a wait after it unlocked.
Switch(t) ==
  /\ Running(t) /\ pc[t] = "blocked"
  /\ pc' = [pc EXCEPT ![t] = "waiting"]
  /\ pend' = TRUE
  /\ UNCHANGED <<list, OS_ActivePrio, OS_This, timer, woken>>

\* pendsv_exception and shift().
Shift ==
  /\ pend
  /\ OS_This' = list[bit_scan_forward(OS_ActivePrio)].next
  /\ pend' = FALSE
  /\ UNCHANGED <<list, OS_ActivePrio, pc, timer, woken>>

\* systimer_exception, for the timer of a wait.
Expire(t) ==
  /\ timer[t] = "armed"
  /\ MakeReady(t)
  /\ timer' = [timer EXCEPT ![t] = "rung"]
  /\ pend' = TRUE
  /\ UNCHANGED <<OS_This, pc>>

\* systimer_exception, for the timer of a thread that is not modelled here.
OtherTick ==
  /\ "calm" \notin Careful
  /\ pend' = TRUE
  /\ UNCHANGED <<list, OS_ActivePrio, OS_This, pc, timer, woken>>

\* semaphore_free, mailbox_free and pipe_free: the memory is given back at once.
InUse == \E t \in Threads : pc[t] # "run"

Free(t) ==
  /\ Calls(t)
  /\ "kept" \in Careful => ~InUse
  /\ freed' = TRUE
  /\ UNCHANGED sched

KernelStep == Shift \/ OtherTick \/ \E t \in Threads : Switch(t) \/ Expire(t)

SchedType(PC) ==
  /\ Careful \subseteq Disciplines
  /\ list \in Links(Node)
  /\ OS_ActivePrio \subseteq Heads \ {IdlePrio}
  /\ OS_This \in Node
  /\ pend \in BOOLEAN
  /\ pc \in [Tcb -> PC]
  /\ timer \in [Tcb -> {"off", "armed", "rung"}]
  /\ woken \subseteq Threads
  /\ freed \in BOOLEAN

-----------------------------------------------------------------------------
\* A ready list holds its thread exactly while the thread is not asleep: no
\* thread is lost to the scheduler by a wait, and none is entered twice by two
\* wake-ups (semaphore.c:227, 275, 339, pipe.c:205, mailbox.c:307, 393).
ReadyQueues == \A t \in Tcb : IsList(list, Priority[t], {t} \ Sleepers)

\* The processor is given to a thread, never to the head of an empty ready list,
\* and not to one that is asleep (kernel.c:399-409).
RunsAThread ==
  /\ OS_This \in Tcb
  /\ ~pend /\ OS_This \in Sleepers => pc[OS_This] = "blocked"
=============================================================================
