------------------------------- MODULE Kernel -------------------------------
(***************************************************************************)
(* The thread kernel of ChinaOS/kernel/kernel.c: ready lists, priority     *)
(* bitmap, running thread, zombie list, and the threads that call it,      *)
(* preempted at any instruction by the timer interrupt and PendSV.         *)
(*                                                                         *)
(* Code between atom_operate_lock and atom_operate_unlock is one action:   *)
(* PRIMASK keeps every interrupt, and so every other thread, out.  Code    *)
(* that runs unlocked (labour, the reclaim loop of idle, the tail of       *)
(* sleep) is one action per access to shared memory.                       *)
(*                                                                         *)
(* Timers are the alarms OS_timer_add promises: an armed timer makes its   *)
(* thread ready at some later moment.  Which armed timer goes first is     *)
(* left open, so nothing here depends on how ticker.c keeps its ring.      *)
(*                                                                         *)
(* A definition Name_Variant next to a definition Name is a faulty variant *)
(* of it, to see which property notices; nothing refers to it.             *)
(***************************************************************************)
EXTENDS List, Naturals, Sequences

CONSTANTS Threads,   \* the THREAD blocks malloc can hand out
          Idle,      \* &OS_Idle
          OS_DeadList,
          NULL,
          Levels,    \* the priorities in use
          Careful    \* what the application takes care of, see Disciplines

IdlePrio    == 32
MainPrio    == 1     \* THREAD_MAIN_PRIORITY
ConsolePrio == 31

Tcb   == Threads \cup {Idle}
Heads == Levels \cup {IdlePrio}          \* &OS_ActiveProc[p] is p
Node  == Tcb \cup Heads \cup {OS_DeadList, NULL}

\* "labour"  : labour is called while no timer runs, and not at ConsolePrio;
\* "exit"    : a thread exits only at a quiet moment;
\* "kill"    : only a ready thread is killed, at a quiet moment;
\* "priority": change_priority is applied to a sleeping thread, at a quiet
\*             moment, and not to make it share ConsolePrio.
Disciplines == {"labour", "exit", "kill", "priority"}

ASSUME KernelAssumption ==
  /\ Levels \subseteq 0..31
  /\ {MainPrio, ConsolePrio} \subseteq Levels
  /\ Careful \subseteq Disciplines
  /\ Idle \notin Threads
  /\ OS_DeadList # NULL
  /\ {OS_DeadList, NULL} \cap (Tcb \cup Heads) = {}
  /\ Tcb \cap Heads = {}

VARIABLES
  list,           \* every struct list_head: thread Nodes, ready heads, zombie head
  OS_ActivePrio,  \* the bitmap, as the set of its one bits
  OS_This,
  Priority,       \* THREAD.Priority
  live,           \* the chain OS_LiveList -> pLive -> ..., first to last
  timer,          \* THREAD.Timer: "off" or "armed"
  pend,           \* PendSV is pending
  pc,             \* where a thread is; "free" is an unallocated block, "new"
                  \* one that labour is still filling in
  boot,           \* the call idle makes next: labour main, labour console, none
  console,        \* the thread that runs command()
  level,          \* the parameter Priority of labour
  child, tail, first, bits,   \* locals of labour, thread_register, list_add, |=
  reap            \* locals of the reclaim loop of idle

threadVars == <<Priority, timer, console>>
labourVars == <<level, child, tail, first, bits>>
vars == <<list, OS_ActivePrio, OS_This, Priority, live, timer, pend, pc, boot,
          console, level, child, tail, first, bits, reap>>

-----------------------------------------------------------------------------
\* Inside labour, up to its last store, and inside the reclaim loop.
Linking   == {"walked", "registered", "add1", "add2", "add3", "linked", "merging"}
Reclaiming == {"reap1", "reap2", "reap3", "reap4", "reap5"}

Alive(t)  == pc[t] \notin {"free", "new", "dying", "dead"}
Ready(p)  == {t \in Tcb : Alive(t) /\ timer[t] = "off" /\ Priority[t] = p}
Zombie    == {t \in Tcb : pc[t] \in {"dying", "dead"}}

\* No other thread was preempted in the middle of an unlocked update.
Quiet(t)  == \A u \in Tcb \ {t} : pc[u] \notin Linking \cup Reclaiming

bit_scan_forward_Last(S) ==
  IF S = {} THEN IdlePrio ELSE CHOOSE p \in S : \A r \in S : r <= p

\* The lowest bit that is set; 32, the level of idle, when none is.
bit_scan_forward(S) ==
  IF S = {} THEN IdlePrio ELSE CHOOSE p \in S : \A r \in S : p <= r

\* The ready lists without t and the bitmap that goes with them, as sleep, exit
\* and kill compute them (the body of vivify_thread).
Removed_Kept(t) == list

Removed(t) == list_del(list, t)

Cleared_Untested(t) == OS_ActivePrio \ {Priority[t]}

Cleared_Never(t) == OS_ActivePrio

Cleared(t) == IF list_empty(Removed(t), Priority[t])
              THEN OS_ActivePrio \ {Priority[t]}
              ELSE OS_ActivePrio

\* The bitmap once t has been made ready.
Raised_Shifted(t) == OS_ActivePrio \cup {Priority[t] + 1}

Raised(t) == OS_ActivePrio \cup {Priority[t]}

\* The lists once t has been moved from its ready list to the zombies.
Buried_Leaked(t) == Removed(t)

Buried(t) == list_add(Removed(t), t, OS_DeadList)

OnLive(t) == \E i \in 1..Len(live) : live[i] = t

Unregistered_Cut(t) ==
  SubSeq(live, 1, (CHOOSE i \in 1..Len(live) : live[i] = t) - 1)

\* thread_unregister, for a thread that is on the chain.
Unregistered(t) ==
  LET k == CHOOSE i \in 1..Len(live) : live[i] = t
  IN  [i \in 1..(Len(live) - 1) |-> live[IF i < k THEN i ELSE i + 1]]

-----------------------------------------------------------------------------
\* startup(): idle is built and activated.
Init ==
  /\ list = [[n \in Node |-> [next |-> IF n \in Tcb \cup {NULL} THEN NULL ELSE n,
                              prev |-> IF n \in Tcb \cup {NULL} THEN NULL ELSE n]]
               EXCEPT ![IdlePrio] = [next |-> Idle, prev |-> Idle],
                      ![Idle] = [next |-> IdlePrio, prev |-> IdlePrio]]
  /\ OS_ActivePrio = {}
  /\ OS_This = Idle
  /\ Priority = [t \in Tcb |-> IF t = Idle THEN IdlePrio ELSE MainPrio]
  /\ live = <<Idle>>
  /\ timer = [t \in Tcb |-> "off"]
  /\ pend = FALSE
  /\ pc = [t \in Tcb |-> IF t = Idle THEN "run" ELSE "free"]
  /\ boot = "main"
  /\ console = NULL
  /\ level = [t \in Tcb |-> MainPrio]
  /\ child = [t \in Tcb |-> NULL]
  /\ tail  = [t \in Tcb |-> NULL]
  /\ first = [t \in Tcb |-> NULL]
  /\ bits  = [t \in Tcb |-> {}]
  /\ reap  = [node |-> OS_DeadList, prev |-> NULL, next |-> NULL]

Running(t) == OS_This = t /\ ~pend

\* A thread of the application in its own code, about to call the kernel.
Calls(t) == Running(t) /\ pc[t] = "run" /\ t # Idle /\ t # console

\* Any thread may compute without calling the kernel; command() does nothing
\* else: it polls the serial line.
Compute(t) == Running(t) /\ pc[t] = "run" /\ t # Idle /\ UNCHANGED vars

-----------------------------------------------------------------------------
\* Interrupts and PendSV.

\* systimer_exception, for one timer that expires.
Tick(t) ==
  /\ OS_This # NULL
  /\ timer[t] = "armed"
  /\ list' = list_add(list, t, Priority[t])
  /\ OS_ActivePrio' = Raised(t)
  /\ timer' = [timer EXCEPT ![t] = "off"]
  /\ pend' = TRUE
  /\ UNCHANGED <<OS_This, Priority, live, pc, boot, console, reap>>
  /\ UNCHANGED labourVars

\* pendsv_exception and shift().
Shift ==
  /\ pend
  /\ OS_This' = list[bit_scan_forward(OS_ActivePrio)].next
  /\ pend' = FALSE
  /\ UNCHANGED <<list, OS_ActivePrio, live, pc, boot, reap>>
  /\ UNCHANGED <<threadVars, labourVars>>

-----------------------------------------------------------------------------
\* sleep(Time), Time # 0 (sleep(0) returns at once).
Sleep(t) ==
  /\ Calls(t)
  /\ list' = Removed(t)
  /\ OS_ActivePrio' = Cleared(t)
  /\ timer' = [timer EXCEPT ![t] = "armed"]
  /\ pc' = [pc EXCEPT ![t] = "slept"]
  /\ UNCHANGED <<OS_This, Priority, live, pend, boot, console, reap>>
  /\ UNCHANGED labourVars

\* OS_thread_switch, called by sleep and by exit after they unlocked.
Switch(t) ==
  /\ Running(t)
  /\ \/ pc[t] = "slept" /\ pc' = [pc EXCEPT ![t] = "woken"]
     \/ pc[t] = "dying" /\ pc' = [pc EXCEPT ![t] = "dead"]
  /\ pend' = TRUE
  /\ UNCHANGED <<list, OS_ActivePrio, OS_This, live, boot, reap>>
  /\ UNCHANGED <<threadVars, labourVars>>

\* The OS_timer_del with which sleep ends.
SleepReturns(t) ==
  /\ Running(t)
  /\ pc[t] = "woken"
  /\ timer' = [timer EXCEPT ![t] = "off"]
  /\ pc' = [pc EXCEPT ![t] = "run"]
  /\ UNCHANGED <<list, OS_ActivePrio, OS_This, Priority, live, pend, boot, console, reap>>
  /\ UNCHANGED labourVars

-----------------------------------------------------------------------------
\* The application's own rules for ending a thread.
MayExit(t)    == "exit" \in Careful => Quiet(t)
MayKill(t, u) == "kill" \in Careful => Quiet(t) /\ timer[u] = "off"

\* exit(), and the return of a thread function, up to the unlock.
Exit(t) ==
  /\ Calls(t)
  /\ MayExit(t)
  /\ OnLive(t)
  /\ live' = Unregistered(t)
  /\ list' = Buried(t)
  /\ OS_ActivePrio' = Cleared(t)
  /\ timer' = [timer EXCEPT ![t] = "off"]
  /\ pc' = [pc EXCEPT ![t] = "dying"]
  /\ UNCHANGED <<OS_This, Priority, pend, boot, console, reap>>
  /\ UNCHANGED labourVars

\* kill(u) by t.  Deleting an armed timer may leave its interrupt pending.
Kill(t, u) ==
  /\ Calls(t)
  /\ u # t /\ Alive(u) /\ MayKill(t, u)
  /\ OnLive(u)
  /\ live' = Unregistered(u)
  /\ list' = Removed(u)
  /\ OS_ActivePrio' = Cleared(u)
  /\ timer' = [timer EXCEPT ![u] = "off"]
  /\ pend' \in {FALSE, timer[u] = "armed"}
  /\ pc' = [pc EXCEPT ![u] = "free"]
  /\ console' = IF u = console THEN NULL ELSE console
  /\ UNCHANGED <<OS_This, Priority, boot, reap>>
  /\ UNCHANGED labourVars

\* thread_unregister, called by exit (u = t) or kill for a thread that is not on
\* the chain, follows the NULL that ends it: nothing runs again.
UnregisterFaults(t, u) ==
  /\ Calls(t)
  /\ Alive(u) /\ ~OnLive(u)
  /\ IF u = t THEN MayExit(t) ELSE MayKill(t, u)
  /\ OS_This' = NULL
  /\ UNCHANGED <<list, OS_ActivePrio, live, pend, pc, boot, reap>>
  /\ UNCHANGED <<threadVars, labourVars>>

change_priority(t, u, p) ==
  /\ Calls(t)
  /\ u # Idle /\ Alive(u)
  /\ "priority" \in Careful => Quiet(t) /\ timer[u] = "armed" /\ p # ConsolePrio
  /\ Priority' = [Priority EXCEPT ![u] = p]
  /\ UNCHANGED <<list, OS_ActivePrio, OS_This, live, timer, pend, pc, boot, console, reap>>
  /\ UNCHANGED labourVars

-----------------------------------------------------------------------------
\* labour(): malloc, memset, the walk of thread_register to the last block.
LabourCall(t, c, p) ==
  /\ pc[c] = "free"
  /\ pc' = [pc EXCEPT ![t] = "walked", ![c] = "new"]
  /\ list' = [list EXCEPT ![c] = [next |-> NULL, prev |-> NULL]]
  /\ Priority' = [Priority EXCEPT ![c] = p]
  /\ timer' = [timer EXCEPT ![c] = "off"]
  /\ level' = [level EXCEPT ![t] = p]
  /\ child' = [child EXCEPT ![t] = c]
  /\ tail' = [tail EXCEPT ![t] = live[Len(live)]]
  /\ UNCHANGED <<OS_ActivePrio, OS_This, live, pend, first, bits, reap>>

AppLabour(t, c, p) ==
  /\ Calls(t)
  /\ "labour" \in Careful => /\ Quiet(t)
                             /\ p # ConsolePrio
                             /\ \A u \in Tcb : timer[u] = "off"
  /\ LabourCall(t, c, p)
  /\ UNCHANGED <<boot, console>>

\* *ppNode = pThread: what hung behind the block found is cut off, and a block
\* that left the chain meanwhile takes the new one with it.
Register(t) ==
  /\ Running(t)
  /\ pc[t] = "walked"
  /\ live' = IF OnLive(tail[t])
             THEN LET k == CHOOSE i \in 1..Len(live) : live[i] = tail[t]
                  IN  Append(SubSeq(live, 1, k), child[t])
             ELSE live
  /\ pc' = [pc EXCEPT ![t] = "registered"]
  /\ UNCHANGED <<list, OS_ActivePrio, OS_This, pend, boot, reap>>
  /\ UNCHANGED <<threadVars, labourVars>>

\* list_add(&pControl->Node, &OS_ActiveProc[Priority]), store by store.
LoadFirst(t) ==
  /\ Running(t)
  /\ pc[t] = "registered"
  /\ first' = [first EXCEPT ![t] = list[Priority[child[t]]].next]
  /\ pc' = [pc EXCEPT ![t] = "add1"]
  /\ UNCHANGED <<list, OS_ActivePrio, OS_This, live, pend, boot, level, child, tail, bits, reap>>
  /\ UNCHANGED threadVars

LinkStores(t) ==
  LET c == child[t]
      h == Priority[child[t]]
  IN  \/ /\ pc[t] = "add1"
         /\ list' = [list EXCEPT ![first[t]].prev = c]
         /\ pc' = [pc EXCEPT ![t] = "add2"]
      \/ /\ pc[t] = "add2"
         /\ list' = [list EXCEPT ![c] = [next |-> first[t], prev |-> h]]
         /\ pc' = [pc EXCEPT ![t] = "add3"]
      \/ /\ pc[t] = "add3"
         /\ list' = [list EXCEPT ![h].next = c]
         /\ pc' = [pc EXCEPT ![t] = "linked", ![c] = "run"]

Link(t) ==
  /\ Running(t)
  /\ LinkStores(t)
  /\ UNCHANGED <<OS_ActivePrio, OS_This, live, pend, boot, reap>>
  /\ UNCHANGED <<threadVars, labourVars>>

\* OS_ActivePrio |= 1ul << Priority: a load and a store.
LoadBits(t) ==
  /\ Running(t)
  /\ pc[t] = "linked"
  /\ bits' = [bits EXCEPT ![t] = OS_ActivePrio]
  /\ pc' = [pc EXCEPT ![t] = "merging"]
  /\ UNCHANGED <<list, OS_ActivePrio, OS_This, live, pend, boot, level, child, tail, first, reap>>
  /\ UNCHANGED threadVars

MergeBits(t) ==
  /\ Running(t)
  /\ pc[t] = "merging"
  /\ OS_ActivePrio' = bits[t] \cup {level[t]}
  /\ pc' = [pc EXCEPT ![t] = "merged"]
  /\ child' = [child EXCEPT ![t] = NULL]
  /\ tail'  = [tail  EXCEPT ![t] = NULL]
  /\ first' = [first EXCEPT ![t] = NULL]
  /\ bits'  = [bits  EXCEPT ![t] = {}]
  /\ UNCHANGED <<list, OS_This, live, pend, boot, level, reap>>
  /\ UNCHANGED threadVars

\* The decision to switch, by the parameter.
LabourReturns(t) ==
  /\ Running(t)
  /\ pc[t] = "merged"
  /\ pend' = (level[t] < Priority[t])
  /\ pc' = [pc EXCEPT ![t] = "run"]
  /\ level' = [level EXCEPT ![t] = MainPrio]
  /\ UNCHANGED <<list, OS_ActivePrio, OS_This, live, boot, child, tail, first, bits, reap>>
  /\ UNCHANGED threadVars

-----------------------------------------------------------------------------
\* idle(): two labour calls, either of which may find no memory, then the loop
\* that frees the zombies.
IdleLabour(c) ==
  /\ Running(Idle)
  /\ pc[Idle] = "run"
  /\ \/ /\ boot = "main"
        /\ LabourCall(Idle, c, MainPrio)
        /\ boot' = "console"
        /\ UNCHANGED console
     \/ /\ boot = "console"
        /\ LabourCall(Idle, c, ConsolePrio)
        /\ boot' = "done"
        /\ console' = c

IdleLabourFails ==
  /\ Running(Idle)
  /\ pc[Idle] = "run"
  /\ boot # "done"
  /\ boot' = IF boot = "main" THEN "console" ELSE "done"
  /\ UNCHANGED <<list, OS_ActivePrio, OS_This, live, pend, pc, reap>>
  /\ UNCHANGED <<threadVars, labourVars>>

Cursor(n) == [node |-> n, prev |-> NULL, next |-> NULL]

\* list_for_each: pos = head->next, and pos = pos->next out of a freed block.
ReapNext ==
  /\ \/ pc[Idle] = "run" /\ boot = "done" /\ reap' = Cursor(list[OS_DeadList].next)
     \/ pc[Idle] = "reap5" /\ reap' = Cursor(list[reap.node].next)
  /\ pc' = [pc EXCEPT ![Idle] = IF reap'.node = OS_DeadList THEN "run" ELSE "reap1"]
  /\ UNCHANGED list

\* list_del(&pThread->Node), not locked.
ReapUnlink ==
  \/ /\ pc[Idle] = "reap1"
     /\ reap' = [node |-> reap.node,
                 prev |-> list[reap.node].prev,
                 next |-> list[reap.node].next]
     /\ pc' = [pc EXCEPT ![Idle] = "reap2"]
     /\ UNCHANGED list
  \/ /\ pc[Idle] = "reap2"
     /\ list' = [list EXCEPT ![reap.next].prev = reap.prev]
     /\ pc' = [pc EXCEPT ![Idle] = "reap3"]
     /\ UNCHANGED reap
  \/ /\ pc[Idle] = "reap3"
     /\ list' = [list EXCEPT ![reap.prev].next = reap.next]
     /\ pc' = [pc EXCEPT ![Idle] = "reap4"]
     /\ UNCHANGED reap

\* free(pThread).
ReapFree ==
  /\ pc[Idle] = "reap4"
  /\ reap.node \in Threads
  /\ pc' = [pc EXCEPT ![Idle] = "reap5", ![reap.node] = "free"]
  /\ UNCHANGED <<list, reap>>

Reap ==
  /\ Running(Idle)
  /\ ReapNext \/ ReapUnlink \/ ReapFree
  /\ UNCHANGED <<OS_ActivePrio, OS_This, live, pend, boot>>
  /\ UNCHANGED <<threadVars, labourVars>>

-----------------------------------------------------------------------------
LabourStep(t) ==
  Register(t) \/ LoadFirst(t) \/ Link(t) \/ LoadBits(t) \/ MergeBits(t) \/ LabourReturns(t)

ThreadStep(t) ==
  \/ Compute(t)
  \/ Sleep(t)
  \/ Switch(t)
  \/ SleepReturns(t)
  \/ Exit(t)
  \/ \E u \in Threads : Kill(t, u) \/ UnregisterFaults(t, u)
  \/ \E u \in Threads, p \in Levels : change_priority(t, u, p)
  \/ \E c \in Threads, p \in Levels : AppLabour(t, c, p)

Next ==
  \/ \E t \in Threads : Tick(t) \/ ThreadStep(t)
  \/ \E t \in Tcb : LabourStep(t)
  \/ \E c \in Threads : IdleLabour(c)
  \/ IdleLabourFails
  \/ Reap
  \/ Shift

Spec == Init /\ [][Next]_vars

\* The hardware delivers interrupts and PendSV, time passes, and code inside the
\* kernel keeps executing while its thread has the processor.  What application
\* code does between its calls is not constrained.
Fairness ==
  /\ WF_vars(Shift)
  /\ \A t \in Threads : /\ WF_vars(Tick(t))
                        /\ WF_vars(Switch(t))
                        /\ WF_vars(SleepReturns(t))
  /\ \A t \in Tcb : WF_vars(LabourStep(t))
  /\ WF_vars(IdleLabourFails \/ \E c \in Threads : IdleLabour(c))
  /\ WF_vars(Reap)

FairSpec == Spec /\ Fairness

-----------------------------------------------------------------------------
PCs == {"free", "new", "run", "slept", "woken", "dying", "dead", "merged"}
         \cup Linking \cup Reclaiming

\* The kernel's globals and every local of an interrupted call hold values of
\* their types; a pointer designates a node or is NULL (kernel.c:60-68).
TypeOK ==
  /\ list \in Links(Node)
  /\ OS_ActivePrio \in SUBSET Levels
  /\ OS_This \in Node
  /\ Priority \in [Tcb -> Heads]
  /\ \A t \in Threads : Priority[t] \in Levels
  /\ live \in Seq(Tcb)
  /\ timer \in [Tcb -> {"off", "armed"}]
  /\ pend \in BOOLEAN
  /\ pc \in [Tcb -> PCs]
  /\ boot \in {"main", "console", "done"}
  /\ console \in Threads \cup {NULL}
  /\ level \in [Tcb -> Levels]
  /\ child \in [Tcb -> Threads \cup {NULL}]
  /\ tail \in [Tcb -> Tcb \cup {NULL}]
  /\ first \in [Tcb -> Node]
  /\ bits \in [Tcb -> SUBSET Levels]
  /\ reap \in [node : Node, prev : Node, next : Node]

\* The level at which a labour has begun to store into the ready list, and the
\* one at which it has linked the thread but not yet merged the bit.
Storing(p) == \E t \in Tcb : /\ pc[t] \in {"add2", "add3"}
                             /\ Priority[child[t]] = p
Merging(p) == \E t \in Tcb : /\ pc[t] \in {"linked", "merging"}
                             /\ Priority[child[t]] = p

\* Every thread that is alive and not asleep hangs on the ready list of its
\* priority, once, and nothing else does: no thread is lost to the scheduler and
\* none is scheduled twice, whatever the timer interrupted (kernel.c:61).
ReadyQueues == \A p \in Heads : Storing(p) \/ IsList(list, p, Ready(p))

\* A bit of OS_ActivePrio is set exactly when its ready list holds a thread; only
\* labour may be late with the bit of the thread it has just linked (kernel.c:60).
Bitmap ==
  \A p \in Levels : /\ p \in OS_ActivePrio => Ready(p) # {}
                    /\ Ready(p) # {} => p \in OS_ActivePrio \/ Merging(p)

\* OS_This is a thread, and the code that runs is a thread's that has not been
\* put to sleep, has not exited and has not been freed, except for the few
\* instructions a thread needs to switch away (kernel.c:62, shift 399-409).
RunsAThread ==
  /\ OS_This \in Tcb
  /\ ~pend => pc[OS_This] \in {"slept", "dying"} \/ OS_This \in Ready(Priority[OS_This])

\* The processor is never left to a thread while a more urgent one is ready,
\* except inside labour, before it decides (kernel.c:457-520, 256-311 of ticker.c).
MostUrgentRuns ==
  OS_This \in Tcb /\ ~pend /\ pc[OS_This] \notin {"slept", "dying", "merged"} \cup Linking
    => \A p \in Heads : Ready(p) # {} => Priority[OS_This] <= p

\* idle is between the two stores of a list_del, or before the free.
Unlinking == {"reap3", "reap4"}

\* Every thread that exited and was not freed hangs on OS_DeadList, where idle
\* finds it; while idle unlinks one, the others stay reachable (kernel.c:265, 637-643).
ZombieList ==
  pc[Idle] \notin Unlinking => IsList(list, OS_DeadList, Zombie)

\* OS_LiveList names every thread that is alive or being built once it is
\* registered, each once, so that thread_unregister finds what it looks for
\* (kernel.c:165-213).
LiveChain ==
  /\ \A i, j \in 1..Len(live) : live[i] = live[j] => i = j
  /\ \A t \in Tcb : Alive(t) => OnLive(t)
  /\ \A t \in Tcb : OnLive(t) => Alive(t) \/ pc[t] = "new"

\* t outranks every other thread.
MostUrgent(t) ==
  Alive(t) /\ \A u \in Tcb \ {t} : Alive(u) => Priority[t] < Priority[u]

\* sleep returns: a sleeping thread that outranks the others gets its timer
\* interrupt, is made ready, preempts whoever runs and leaves sleep, unless
\* thread_unregister runs off the end of the chain and the machine stops
\* (kernel.c:207, 682-699, ticker.c:256-311, syscall.s PendSV).
SleepReturnsToMostUrgent ==
  \A t \in Threads :
    pc[t] \in {"slept", "woken"} /\ MostUrgent(t)
      ~> pc[t] = "run" \/ ~MostUrgent(t) \/ OS_This = NULL
=============================================================================
