------------------------------ MODULE KernelInv ------------------------------
(***************************************************************************)
(* The inductive invariant of Kernel for a careful application.  The       *)
(* properties of Kernel say how things are between two updates; what is    *)
(* added here says how far each unlocked update has come, and why nobody   *)
(* can meet it half way.                                                   *)
(***************************************************************************)
EXTENDS Kernel

\* Inductive without any discipline.
TypeInv ==
  /\ TypeOK
  /\ \A t \in Tcb : pc[t] \in Linking => child[t] \in Threads
  /\ Len(live) >= 1 /\ live[1] = Idle

Building == {"walked", "registered", "add1", "add2", "add3"}

\* idle never sleeps or exits, only idle reclaims, and only sleep arms a timer.
IdleInv ==
  /\ Priority[Idle] = IdlePrio
  /\ pc[Idle] \in {"run", "merged"} \cup Linking \cup Reclaiming
  /\ \A t \in Threads : pc[t] \notin Reclaiming
  /\ \A t \in Tcb : timer[t] = "armed" => t # Idle /\ pc[t] \in {"slept", "woken"}

\* What labour is building is a block of its own until it is linked.
LabourInv ==
  \A t \in Tcb :
    /\ pc[t] \in Linking => child[t] # t
    /\ pc[t] \in Building => pc[child[t]] = "new"
    /\ pc[t] \in {"linked", "merging"} => pc[child[t]] = "run"

\* A thread of the application inside labour cannot be preempted.
ExclusiveInv ==
  \A t \in Threads :
    pc[t] \in Linking => /\ OS_This = t /\ ~pend
                         /\ Quiet(t)
                         /\ \A u \in Tcb : timer[u] = "off"

\* idle inside labour can be, but only by threads that never touch the ready
\* list idle is storing into.
PrivateInv ==
  pc[Idle] \in Linking =>
    /\ Priority[child[Idle]] \notin OS_ActivePrio
    /\ OS_This # child[Idle]
    /\ \A u \in Threads \ {child[Idle]} :
         Alive(u) => Priority[u] < Priority[child[Idle]]

BootInv ==
  /\ boot = "main" => \A t \in Threads : pc[t] = "free"
  /\ boot = "console" => \A t \in Threads : pc[t] # "free" => Priority[t] # ConsolePrio

\* How far the stores of list_add have come: carrying out all of them now would
\* complete the ready list.
StoreInv ==
  \A t \in Tcb :
    LET c == child[t]
        h == Priority[child[t]]
    IN  /\ pc[t] = "add1" => first[t] = list[h].next
        /\ pc[t] \in {"add2", "add3"} =>
             /\ first[t] \in Ready(h) \cup {h}
             /\ IsList(__list_add(list, c, h, first[t]), h, Ready(h) \cup {c})
             /\ list[first[t]].prev = c
        /\ pc[t] = "add3" => list[c] = [next |-> first[t], prev |-> h]

\* The bitmap labour read is the bitmap it will find when it stores.
MergeInv ==
  \A t \in Tcb :
    pc[t] = "merging" => bits[t] = IF t = Idle THEN {} ELSE OS_ActivePrio

\* The running thread is the most urgent one the bitmap knows of, or labour is about
\* to compare it with the one it has just added.
UrgentInv ==
  ~pend /\ pc[OS_This] \notin {"slept", "dying"} =>
    \A p \in OS_ActivePrio : \/ Priority[OS_This] <= p
                             \/ pc[OS_This] = "merged" /\ p = level[OS_This]

\* Until labour has stored the bit its parameter is the priority of the new thread.
LevelInv ==
  \A t \in Tcb : pc[t] \in Linking => level[t] = Priority[child[t]]

\* How far the reclaim loop has come with the zombie it is unlinking.
ReapInv ==
  LET n    == reap.node
      rest == (Zombie \ {n}) \cup {OS_DeadList}
  IN  /\ pc[Idle] \in {"reap1", "reap2", "reap3", "reap4"} => n \in Zombie
      /\ pc[Idle] = "reap2" => reap.prev = list[n].prev /\ reap.next = list[n].next
      /\ pc[Idle] = "reap3" =>
           /\ reap.prev \in rest /\ reap.next \in rest
           /\ list[n].next = reap.next
           /\ IsList([list EXCEPT ![reap.prev].next = reap.next], OS_DeadList, Zombie \ {n})
      /\ pc[Idle] = "reap4" =>
           /\ list[n].next \in rest
           /\ IsList(list, OS_DeadList, Zombie \ {n})
      /\ pc[Idle] = "reap5" =>
           /\ n \in Threads /\ pc[n] = "free"
           /\ list[n].next \in Zombie \cup {OS_DeadList}

\* How far thread_register has come.
RegisterInv ==
  \A t \in Tcb :
    /\ pc[t] = "walked" => tail[t] = live[Len(live)] /\ ~OnLive(child[t])
    /\ pc[t] \in Building \ {"walked"} => OnLive(child[t])

\* All but LevelInv, which it needs to be kept.
CoreInv ==
  /\ TypeInv
  /\ IdleInv /\ LabourInv /\ ExclusiveInv /\ PrivateInv /\ BootInv
  /\ ReadyQueues /\ StoreInv /\ Bitmap /\ MergeInv
  /\ RunsAThread /\ UrgentInv
  /\ ZombieList /\ ReapInv
  /\ LiveChain /\ RegisterInv

\* What a careful application may rely on at every instruction: the kernel's
\* lists, bitmap and choice of thread are right, and each update that runs with
\* interrupts on (labour kernel.c:457-520, idle 629-644, the tail of sleep
\* 690-699) is where nobody who preempts it can see or spoil it.
IInv == CoreInv /\ LevelInv
=============================================================================
