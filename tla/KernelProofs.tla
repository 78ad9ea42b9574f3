---------------------------- MODULE KernelProofs ----------------------------
(***************************************************************************)
(* The kernel's globals keep their types, whatever the application does,   *)
(* and the kernel is safe for a careful application: IInv is inductive        *)
(* when the application follows all four disciplines.                      *)
(***************************************************************************)
EXTENDS KernelInv, ListProofs, TLAPS

\* Thread blocks, list heads, the zombie head and NULL are different nodes, and
\* idle has a level of its own below all others (kernel.c:60-68).
LEMMA NodeFacts ==
  /\ Idle \in Tcb /\ Tcb \subseteq Node /\ Heads \subseteq Node
  /\ Levels \subseteq Heads /\ IdlePrio \in Heads /\ IdlePrio \notin Levels
  /\ MainPrio \in Levels /\ ConsolePrio \in Levels
  /\ OS_DeadList \in Node /\ NULL \in Node
  /\ Threads \subseteq Tcb /\ NULL \notin Tcb /\ NULL \notin Heads
  /\ OS_DeadList \notin Tcb /\ OS_DeadList \notin Heads /\ OS_DeadList # NULL
  /\ Tcb \cap Heads = {} /\ Idle \notin Threads
  /\ \A p \in Levels : p \in Nat /\ p < IdlePrio
  BY KernelAssumption DEF Tcb, Node, Heads, IdlePrio, MainPrio, ConsolePrio

\* startup initialises every global.
LEMMA InitTypeInv == Init => TypeInv
<1> SUFFICES ASSUME Init PROVE TypeInv
  OBVIOUS
<1> USE NodeFacts DEF Init
<1>1. list \in Links(Node)
  BY DEF Links
<1>2. /\ live \in Seq(Tcb) /\ Len(live) = 1 /\ live[1] = Idle
  OBVIOUS
<1>3. /\ Priority \in [Tcb -> Heads]
      /\ \A t \in Threads : Priority[t] \in Levels
      /\ pc \in [Tcb -> PCs]
      /\ \A t \in Tcb : pc[t] \notin Linking
  BY DEF PCs, Linking
<1>4. /\ OS_ActivePrio \in SUBSET Levels
      /\ OS_This \in Node
      /\ timer \in [Tcb -> {"off", "armed"}]
      /\ pend \in BOOLEAN
      /\ boot \in {"main", "console", "done"}
  OBVIOUS
<1>5. /\ console \in Threads \cup {NULL}
      /\ level \in [Tcb -> Levels]
      /\ child \in [Tcb -> Threads \cup {NULL}]
      /\ tail \in [Tcb -> Tcb \cup {NULL}]
      /\ first \in [Tcb -> Node]
      /\ bits \in [Tcb -> SUBSET Levels]
  OBVIOUS
<1>6. reap \in [node : Node, prev : Node, next : Node]
  OBVIOUS
<1> HIDE DEF Init
<1> QED
  BY <1>1, <1>2, <1>3, <1>4, <1>5, <1>6 DEF TypeInv, TypeOK

\* The chain without its k-th block is a chain, and idle still heads it.
LEMMA UnregisteredType ==
  ASSUME TypeInv, NEW t \in Threads, OnLive(t)
  PROVE  /\ Unregistered(t) \in Seq(Tcb)
         /\ Len(Unregistered(t)) >= 1
         /\ Unregistered(t)[1] = Idle
<1> DEFINE k == CHOOSE i \in 1..Len(live) : live[i] = t
<1>1. k \in 1..Len(live) /\ live[k] = t
  BY DEF OnLive
<1>2. live \in Seq(Tcb) /\ live[1] = Idle /\ Idle # t
  BY NodeFacts DEF TypeInv, TypeOK
<1> HIDE DEF k
<1>3. k # 1
  BY <1>1, <1>2
<1> DEFINE r == [i \in 1..(Len(live) - 1) |-> live[IF i < k THEN i ELSE i + 1]]
<1>4. r \in Seq(Tcb) /\ Len(r) >= 1 /\ r[1] = Idle
  BY <1>1, <1>2, <1>3
<1>5. Unregistered(t) = r
  BY DEF Unregistered, k
<1> QED
  BY <1>4, <1>5

\* bit_scan_forward returns the most urgent level of a non-empty bitmap.
LEMMA BitScan ==
  ASSUME NEW S \in SUBSET Levels
  PROVE  /\ bit_scan_forward(S) \in Heads
         /\ S = {} => bit_scan_forward(S) = IdlePrio
         /\ S # {} => /\ bit_scan_forward(S) \in S
                      /\ \A r \in S : bit_scan_forward(S) <= r
<1>1. CASE S = {}
  BY <1>1, NodeFacts DEF bit_scan_forward
<1>2. CASE S # {}
  <2>1. S \in SUBSET Nat
    BY NodeFacts
  <2>2. \E p \in S : \A r \in S : p <= r
    BY <1>2, <2>1, Least
  <2>3. /\ bit_scan_forward(S) \in S
        /\ \A r \in S : bit_scan_forward(S) <= r
    BY <1>2, <2>2 DEF bit_scan_forward
  <2> QED
    BY <1>2, <2>3, NodeFacts
<1> QED
  BY <1>1, <1>2

\* labour starts with values of the right types, whoever calls it.
LEMMA LabourCallType ==
  ASSUME TypeInv, NEW t \in Tcb, NEW c \in Threads, NEW p \in Levels, LabourCall(t, c, p),
         boot' \in {"main", "console", "done"}, console' \in Threads \cup {NULL}
  PROVE  TypeInv'
<1> USE NodeFacts DEF TypeInv, TypeOK
<1>1. list' \in Links(Node)
  BY NodeType DEF LabourCall
<1>2. /\ Priority' \in [Tcb -> Heads]
      /\ \A u \in Threads : Priority'[u] \in Levels
  BY DEF LabourCall
<1>3. /\ timer' \in [Tcb -> {"off", "armed"}] /\ level' \in [Tcb -> Levels]
      /\ child' \in [Tcb -> Threads \cup {NULL}]
  BY DEF LabourCall
<1>4. tail' \in [Tcb -> Tcb \cup {NULL}]
  <2>1. live[Len(live)] \in Tcb
    OBVIOUS
  <2> QED
    BY <2>1 DEF LabourCall
<1>5. /\ pc' \in [Tcb -> PCs]
      /\ \A u \in Tcb : pc'[u] \in Linking => child'[u] \in Threads
  <2>1. pc' = [pc EXCEPT ![t] = "walked", ![c] = "new"] /\ child' = [child EXCEPT ![t] = c]
    BY DEF LabourCall
  <2>2. pc' \in [Tcb -> PCs]
    BY <2>1 DEF PCs, Linking
  <2>3. \A u \in Tcb \ {t, c} : pc'[u] = pc[u] /\ child'[u] = child[u]
    BY <2>1
  <2>4. child'[t] = c
    BY <2>1
  <2>5. pc'[c] = "new" /\ "new" \notin Linking
    BY <2>1 DEF Linking
  <2>6. \A u \in Tcb : pc[u] \in Linking => child[u] \in Threads
    OBVIOUS
  <2> QED
    BY ONLY <2>2, <2>3, <2>4, <2>5, <2>6, c \in Threads
<1>6. UNCHANGED <<OS_ActivePrio, OS_This, live, pend, first, bits, reap>>
  BY DEF LabourCall
<1> QED
  BY <1>1, <1>2, <1>3, <1>4, <1>5, <1>6

\* Every step keeps the types, the block labour works on, and idle at the head of
\* the chain of live threads.
LEMMA NextTypeInv == TypeInv /\ [Next]_vars => TypeInv'
<1> SUFFICES ASSUME TypeInv, [Next]_vars
             PROVE  TypeInv'
  OBVIOUS
<1> USE NodeFacts DEF TypeInv, TypeOK, PCs, Linking, Reclaiming, threadVars, labourVars
<1>1. ASSUME NEW t \in Threads, Tick(t)
      PROVE  TypeInv'
  <2>1. list' \in Links(Node)
    BY <1>1, AddType DEF Tick
  <2> QED
    BY <1>1, <2>1 DEF Tick, Raised
<1>2. CASE Shift
  BY <1>2, BitScan DEF Shift, Links
<1>3. ASSUME NEW t \in Threads, ThreadStep(t)
      PROVE  TypeInv'
  <2>1. CASE Compute(t)
    BY <2>1 DEF Compute, vars
  <2>2. CASE Sleep(t)
    <3>1. list' \in Links(Node)
      BY <2>2, DelType DEF Sleep, Removed
    <3> QED
      BY <2>2, <3>1 DEF Sleep, Cleared
  <2>3. CASE Switch(t)
    <3>0. PICK x \in {"woken", "dead"} : pc' = [pc EXCEPT ![t] = x]
      BY <2>3 DEF Switch
    <3>1. /\ pc' \in [Tcb -> PCs] /\ pend' \in BOOLEAN
          /\ \A u \in Tcb : pc'[u] \in Linking => pc[u] \in Linking
      BY <2>3, <3>0 DEF Switch
    <3>2. UNCHANGED <<list, OS_ActivePrio, OS_This, live, boot, reap, Priority, timer, console,
                      level, child, tail, first, bits>>
      BY <2>3 DEF Switch
    <3> QED
      BY <3>1, <3>2
  <2>4. CASE SleepReturns(t)
    BY <2>4 DEF SleepReturns
  <2>5. CASE Exit(t)
    <3>1. list' \in Links(Node)
      BY <2>5, DelType, AddType DEF Exit, Buried, Removed
    <3>2. live' \in Seq(Tcb) /\ Len(live') >= 1 /\ live'[1] = Idle
      BY <2>5, UnregisteredType DEF Exit
    <3> QED
      BY <2>5, <3>1, <3>2 DEF Exit, Cleared
  <2>6. ASSUME NEW u \in Threads, Kill(t, u)
        PROVE  TypeInv'
    <3>1. list' \in Links(Node)
      BY <2>6, DelType DEF Kill, Removed
    <3>2. live' \in Seq(Tcb) /\ Len(live') >= 1 /\ live'[1] = Idle
      BY <2>6, UnregisteredType DEF Kill
    <3> QED
      BY <2>6, <3>1, <3>2 DEF Kill, Cleared
  <2>7. ASSUME NEW u \in Threads, UnregisterFaults(t, u)
        PROVE  TypeInv'
    BY <2>7 DEF UnregisterFaults
  <2>8. ASSUME NEW u \in Threads, NEW p \in Levels, change_priority(t, u, p)
        PROVE  TypeInv'
    BY <2>8 DEF change_priority
  <2>9. ASSUME NEW c \in Threads, NEW p \in Levels, AppLabour(t, c, p)
        PROVE  TypeInv'
    <3>1. t \in Tcb /\ LabourCall(t, c, p) /\ UNCHANGED <<boot, console>>
      BY <2>9 DEF AppLabour
    <3> QED
      BY <3>1, LabourCallType
  <2> QED
    BY <1>3, <2>1, <2>2, <2>3, <2>4, <2>5, <2>6, <2>7, <2>8, <2>9 DEF ThreadStep
<1>4. ASSUME NEW t \in Tcb, LabourStep(t)
      PROVE  TypeInv'
  <2>1. CASE Register(t)
    BY <2>1, SMTT(30) DEF Register, OnLive
  <2>2. CASE LoadFirst(t)
    BY <2>2 DEF LoadFirst, Links
  <2>3. CASE Link(t)
    <3>1. /\ child[t] \in Node /\ first[t] \in Node /\ Priority[child[t]] \in Node
          /\ child[t] \in Threads
      BY <2>3 DEF Link, LinkStores
    <3> DEFINE c == child[t]
               h == Priority[child[t]]
    <3>2. CASE pc[t] = "add1"
      <4>1. list' = [list EXCEPT ![first[t]].prev = c] /\ pc' = [pc EXCEPT ![t] = "add2"]
        BY <2>3, <3>2 DEF Link, LinkStores
      <4>2. list' \in Links(Node)
        BY <3>1, <4>1, PrevType
      <4> QED
        BY <2>3, <3>1, <4>1, <4>2 DEF Link
    <3>3. CASE pc[t] = "add2"
      <4>1. /\ list' = [list EXCEPT ![c] = [next |-> first[t], prev |-> h]]
            /\ pc' = [pc EXCEPT ![t] = "add3"]
        BY <2>3, <3>3 DEF Link, LinkStores
      <4>2. list' \in Links(Node)
        BY <3>1, <4>1, NodeType
      <4> QED
        BY <2>3, <3>1, <4>1, <4>2 DEF Link
    <3>4. CASE pc[t] = "add3"
      <4>1. /\ list' = [list EXCEPT ![h].next = c]
            /\ pc' = [pc EXCEPT ![t] = "linked", ![c] = "run"]
        BY <2>3, <3>4 DEF Link, LinkStores
      <4>2. list' \in Links(Node)
        BY <3>1, <4>1, NextType
      <4> QED
        BY <2>3, <3>1, <4>1, <4>2 DEF Link
    <3> QED
      BY <2>3, <3>2, <3>3, <3>4 DEF Link, LinkStores
  <2>4. CASE LoadBits(t)
    BY <2>4 DEF LoadBits
  <2>5. CASE MergeBits(t)
    <3>1. OS_ActivePrio' \in SUBSET Levels
      BY <2>5 DEF MergeBits
    <3> QED
      BY <2>5, <3>1 DEF MergeBits
  <2>6. CASE LabourReturns(t)
    <3>1. pend' \in BOOLEAN /\ level' \in [Tcb -> Levels]
      BY <2>6 DEF LabourReturns
    <3> QED
      BY <2>6, <3>1 DEF LabourReturns
  <2> QED
    BY <1>4, <2>1, <2>2, <2>3, <2>4, <2>5, <2>6 DEF LabourStep
<1>5. ASSUME NEW c \in Threads, IdleLabour(c)
      PROVE  TypeInv'
  <2>1. boot' \in {"main", "console", "done"} /\ console' \in Threads \cup {NULL}
    BY <1>5 DEF IdleLabour
  <2>2. PICK p \in Levels : LabourCall(Idle, c, p)
    BY <1>5 DEF IdleLabour
  <2> QED
    BY <2>1, <2>2, LabourCallType
<1>6. CASE IdleLabourFails
  BY <1>6 DEF IdleLabourFails
<1>7. CASE Reap
  <2>0. UNCHANGED <<OS_ActivePrio, OS_This, live, pend, boot, Priority, timer, console,
                    level, child, tail, first, bits>>
    BY <1>7 DEF Reap
  <2>1. CASE ReapNext
    <3>1. reap' \in [node : Node, prev : Node, next : Node]
      BY <2>1 DEF ReapNext, Cursor, Links
    <3> QED
      BY <1>7, <2>1, <3>1 DEF Reap, ReapNext
  <2>2. CASE ReapUnlink
    <3>1. /\ reap.node \in Node /\ reap.prev \in Node /\ reap.next \in Node
          /\ list[reap.node].prev \in Node /\ list[reap.node].next \in Node
      BY DEF Links
    <3>2. list' \in Links(Node)
      <4>1. CASE pc[Idle] = "reap1"
        BY <2>2, <4>1 DEF ReapUnlink
      <4>2. CASE pc[Idle] = "reap2"
        <5>1. list' = [list EXCEPT ![reap.next].prev = reap.prev]
          BY <2>2, <4>2 DEF ReapUnlink
        <5> QED
          BY <3>1, <5>1, PrevType
      <4>3. CASE pc[Idle] = "reap3"
        <5>1. list' = [list EXCEPT ![reap.prev].next = reap.next]
          BY <2>2, <4>3 DEF ReapUnlink
        <5> QED
          BY <3>1, <5>1, NextType
      <4> QED
        BY <2>2, <4>1, <4>2, <4>3 DEF ReapUnlink
    <3>3. reap' \in [node : Node, prev : Node, next : Node]
      BY <2>2, <3>1 DEF ReapUnlink
    <3>4. PICK x \in {"reap2", "reap3", "reap4"} : pc' = [pc EXCEPT ![Idle] = x]
      BY <2>2 DEF ReapUnlink
    <3>5. pc' \in [Tcb -> PCs] /\ \A u \in Tcb : pc'[u] \in Linking => pc[u] \in Linking
      BY <3>4
    <3> QED
      BY <2>0, <3>2, <3>3, <3>5
  <2>3. CASE ReapFree
    <3>1. reap.node \in Tcb /\ pc' = [pc EXCEPT ![Idle] = "reap5", ![reap.node] = "free"]
      BY <2>3 DEF ReapFree, Tcb
    <3>2. pc' \in [Tcb -> PCs]
      BY <3>1 DEF PCs
    <3>3. UNCHANGED <<list, reap>>
      BY <2>3 DEF ReapFree
    <3> QED
      BY <1>7, <3>1, <3>2, <3>3, SMTT(90) DEF Reap
  <2> QED
    BY <1>7, <2>1, <2>2, <2>3 DEF Reap
<1>8. CASE UNCHANGED vars
  BY <1>8 DEF vars
<1> QED
  BY <1>1, <1>2, <1>3, <1>4, <1>5, <1>6, <1>7, <1>8 DEF Next

\* The globals and the locals of every interrupted call hold values of their
\* types for every set of threads and priorities, careful application or not
\* (kernel.c:60-68).
THEOREM KernelTypeCorrect == Spec => []TypeOK
<1>1. TypeInv => TypeOK
  BY DEF TypeInv
<1> QED
  BY <1>1, InitTypeInv, NextTypeInv, PTL DEF Spec

-----------------------------------------------------------------------------
\* The members of a ready list or of the zombie list are thread blocks, and no
\* block is on two of them.
LEMMA Members ==
  ASSUME TypeInv
  PROVE  /\ \A p \in Heads : /\ Ready(p) \in SUBSET Tcb
                             /\ Ready(p) \in SUBSET Node
                             /\ Ready(p) \cap Zombie = {}
                             /\ Ready(p) \cap (Heads \cup {OS_DeadList, NULL}) = {}
         /\ \A p, r \in Heads : p # r => Ready(p) \cap Ready(r) = {}
         /\ Zombie \in SUBSET Tcb /\ Zombie \in SUBSET Node
         /\ Zombie \cap (Heads \cup {OS_DeadList, NULL}) = {}
         /\ \A t \in Tcb : t \in Ready(Priority[t]) <=> Alive(t) /\ timer[t] = "off"
  BY NodeFacts DEF TypeInv, TypeOK, Ready, Zombie, Alive

\* While the processor is not in the labour of a thread of the application, no
\* thread of the application is inside labour.
LEMMA NoAppLabour ==
  ASSUME ExclusiveInv,
         \/ pend
         \/ pc[OS_This] \notin Linking
         \/ OS_This = Idle
         \/ \E u \in Tcb : timer[u] # "off"
  PROVE  \A t \in Threads : pc[t] \notin Linking
  BY NodeFacts DEF ExclusiveInv

\* A step that leaves alone the two nodes idle is storing into keeps what is
\* known of the stores.
LEMMA StoreKept ==
  ASSUME TypeInv, TypeInv', LabourInv, PrivateInv, Bitmap, StoreInv,
         \A t \in Threads : pc[t] \notin Linking /\ pc'[t] \notin Linking,
         pc'[Idle] = pc[Idle],
         UNCHANGED <<Priority, child, first>>,
         pc[Idle] \in Linking =>
           \A h \in Levels : h = Priority[child[Idle]] =>
             /\ list'[h] = list[h]
             /\ list'[child[Idle]] = list[child[Idle]]
             /\ Ready(h)' = Ready(h)
  PROVE  StoreInv'
<1>1. CASE pc[Idle] \notin {"add1", "add2", "add3"}
  BY <1>1, NodeFacts DEF StoreInv, Linking, Tcb
<1>2. CASE pc[Idle] \in {"add1", "add2", "add3"}
  <2>1. PICK c \in Threads : c = child[Idle]
    BY <1>2, NodeFacts DEF TypeInv, Linking
  <2>2. PICK h \in Levels : h = Priority[c]
    BY DEF TypeInv, TypeOK
  <2>3. /\ c \in Node /\ h \in Node /\ c # h /\ Idle \in Tcb /\ h \in Heads
        /\ list'[h] = list[h] /\ list'[c] = list[c] /\ Ready(h)' = Ready(h)
    BY <1>2, <2>1, <2>2, NodeFacts DEF Linking
  <2>4. ~Merging(h)
    BY <1>2, NodeFacts DEF Merging, Tcb, Linking
  <2>5. Ready(h) = {}
    BY <1>2, <2>1, <2>2, <2>4 DEF PrivateInv, Bitmap, Linking
  <2>6. list' \in Links(Node)
    BY DEF TypeInv, TypeOK
  <2>7. IsList(__list_add(list', c, h, h), h, {c})
    BY <2>3, <2>6, AddAlone
  <2>8. /\ pc[Idle] = "add1" => first[Idle] = list[h].next
        /\ pc[Idle] \in {"add2", "add3"} => first[Idle] = h /\ list[h].prev = c
        /\ pc[Idle] = "add3" => list[c] = [next |-> h, prev |-> h]
    BY <2>1, <2>2, <2>3, <2>5 DEF StoreInv
  <2>9. {} \cup {c} = {c}
    OBVIOUS
  <2>10. /\ pc'[Idle] = "add1" => first'[Idle] = list'[h].next
         /\ pc'[Idle] \in {"add2", "add3"} =>
              /\ first'[Idle] \in Ready(h)' \cup {h}
              /\ IsList(__list_add(list', c, h, first'[Idle]), h, Ready(h)' \cup {c})
              /\ list'[first'[Idle]].prev = c
         /\ pc'[Idle] = "add3" => list'[c] = [next |-> first'[Idle], prev |-> h]
    BY <2>3, <2>5, <2>7, <2>8, <2>9
  <2> QED
    BY <2>1, <2>2, <2>10 DEF StoreInv, Tcb, Linking
<1> QED
  BY <1>1, <1>2

\* A step that leaves alone the ring of the zombies, and the freed block idle
\* still reads, keeps what is known of the reclaim loop.
LEMMA ReapKept ==
  ASSUME TypeInv, TypeInv', ReapInv, Zombie' = Zombie, reap' = reap,
         pc'[Idle] = pc[Idle],
         \A n \in Zombie \cup {OS_DeadList} : list'[n] = list[n],
         pc[Idle] = "reap5" => /\ list'[reap.node] = list[reap.node]
                               /\ pc'[reap.node] = pc[reap.node]
  PROVE  ReapInv'
<1> DEFINE n == reap.node
           rest == (Zombie \ {n}) \cup {OS_DeadList}
<1>1. CASE pc[Idle] = "reap3"
  <2> DEFINE K == [list EXCEPT ![reap.prev].next = reap.next]
             J == [list' EXCEPT ![reap.prev].next = reap.next]
  <2>1. /\ n \in Zombie /\ reap.prev \in rest /\ reap.next \in rest
        /\ list[n].next = reap.next /\ IsList(K, OS_DeadList, Zombie \ {n})
    BY <1>1 DEF ReapInv
  <2>2. ASSUME NEW m \in rest
        PROVE  J[m] = K[m]
    <3>1. m \in Node /\ list'[m] = list[m] /\ list \in Links(Node) /\ list' \in Links(Node)
      BY NodeFacts, Members, SMTT(90) DEF TypeInv, TypeOK
    <3> QED
      BY <3>1 DEF Links
  <2> HIDE DEF J, K
  <2>3. IsList(J, OS_DeadList, Zombie \ {n})
    BY <2>1, <2>2, SameRing
  <2> QED
    BY <1>1, <2>1, <2>3 DEF ReapInv, J
<1>2. CASE pc[Idle] = "reap4"
  <2>1. IsList(list', OS_DeadList, Zombie \ {n})
    BY <1>2, SameRing DEF ReapInv
  <2> QED
    BY <1>2, <2>1 DEF ReapInv
<1> QED
  BY <1>1, <1>2 DEF ReapInv

\* sleep takes the running thread off a ready list nobody is storing into.
LEMMA SleepSafe ==
  ASSUME CoreInv, NEW t \in Threads, Sleep(t)
  PROVE  CoreInv'
<1>1. TypeInv /\ TypeInv'
  <2>1. Next
    BY DEF Next, ThreadStep
  <2> QED
    BY <2>1, NextTypeInv DEF CoreInv
<1>2. /\ IdleInv /\ LabourInv /\ ExclusiveInv /\ PrivateInv /\ BootInv
      /\ ReadyQueues /\ StoreInv /\ Bitmap /\ MergeInv
      /\ RunsAThread /\ UrgentInv /\ ZombieList /\ ReapInv
      /\ LiveChain /\ RegisterInv
  BY DEF CoreInv
<1>3. /\ OS_This = t /\ ~pend /\ pc[t] = "run" /\ t # Idle
      /\ list' = list_del(list, t)
      /\ timer' = [timer EXCEPT ![t] = "armed"]
      /\ pc' = [pc EXCEPT ![t] = "slept"]
      /\ UNCHANGED <<OS_This, Priority, live, pend, boot, console, reap,
                     level, child, tail, first, bits>>
  BY DEF Sleep, Calls, Running, Removed, labourVars
<1>h. PICK h \in Levels : h = Priority[t] /\ h \in Heads
  BY <1>1, NodeFacts DEF TypeInv, TypeOK
<1>4. /\ t \in Tcb /\ h \in Levels /\ h \in Heads /\ h = Priority[t]
      /\ \A u \in Threads : pc[u] \notin Linking
  BY <1>1, <1>2, <1>3, <1>h, NodeFacts, NoAppLabour DEF TypeInv, TypeOK, Linking
<1>5. /\ \A p : Ready(p)' = Ready(p) \ {t}
      /\ Zombie' = Zombie
      /\ \A u \in Tcb : Alive(u)' <=> Alive(u)
      /\ \A p : Storing(p)' <=> Storing(p)
      /\ \A p : Merging(p)' <=> Merging(p)
  BY <1>1, <1>3, <1>4 DEF Ready, Zombie, Alive, Storing, Merging, TypeInv, TypeOK
<1>6. t \in Ready(h)
  BY <1>2, <1>3, <1>4 DEF RunsAThread
<1>7. ~Storing(h) /\ IsList(list, h, Ready(h))
  <2>1. ASSUME NEW u \in Tcb, pc[u] \in {"add2", "add3"}, Priority[child[u]] = h
        PROVE  FALSE
    <3>1. u = Idle /\ child[Idle] # t
      BY <1>2, <1>3, <1>4, <2>1 DEF PrivateInv, Tcb, Linking
    <3> QED
      BY <1>2, <1>3, <1>4, <2>1, <3>1, NodeFacts DEF PrivateInv, Linking, Alive
  <2> QED
    BY <1>2, <1>4, <2>1 DEF ReadyQueues, Storing
<1>m. list \in Links(Node) /\ t \in Node /\ h \in Node /\ Ready(h) \in SUBSET Node
  BY <1>1, <1>4, Members, NodeFacts DEF TypeInv, TypeOK
<1>8. \A n \in Node \ (Ready(h) \cup {h}) : list'[n] = list[n]
  BY <1>3, <1>6, <1>7, <1>m, DelFrame
<1>9. IsList(list', h, Ready(h)')
  BY <1>3, <1>5, <1>6, <1>7, <1>m, DelKeepsList
<1>10. IdleInv'
  BY <1>1, <1>2, <1>3, <1>4 DEF IdleInv, TypeInv, TypeOK, Reclaiming, Linking
<1>11. LabourInv'
  <2> SUFFICES ASSUME NEW u \in Tcb, pc'[u] \in Linking
               PROVE  /\ child[u] # u
                      /\ pc'[u] \in Building => pc'[child[u]] = "new"
                      /\ pc'[u] \in {"linked", "merging"} => pc'[child[u]] = "run"
    BY <1>3 DEF LabourInv, Linking, Building
  <2>1. u = Idle /\ pc'[u] = pc[u] /\ child[u] # t
    BY <1>1, <1>2, <1>3, <1>4 DEF PrivateInv, Tcb, Linking, TypeInv, TypeOK
  <2> QED
    BY <1>1, <1>2, <1>3, <2>1 DEF LabourInv, TypeInv, TypeOK
<1>12. ExclusiveInv'
  BY <1>1, <1>3, <1>4 DEF ExclusiveInv, Linking, TypeInv, TypeOK
<1>13. PrivateInv'
  BY <1>1, <1>2, <1>3, <1>5 DEF PrivateInv, Sleep, Cleared, TypeInv, TypeOK, Tcb
<1>14. BootInv'
  BY <1>1, <1>2, <1>3 DEF BootInv, TypeInv, TypeOK
<1>15. ReadyQueues'
  <2> SUFFICES ASSUME NEW p \in Heads, ~Storing(p), p # h
               PROVE  IsList(list', p, Ready(p)')
    BY <1>5, <1>9 DEF ReadyQueues, Heads
  <2>1. Ready(p)' = Ready(p) /\ IsList(list, p, Ready(p))
    BY <1>1, <1>2, <1>4, <1>5, <1>6, Members DEF ReadyQueues
  <2>2. \A n \in Ready(p) \cup {p} : n \in Node \ (Ready(h) \cup {h})
    BY <1>1, <1>4, Members, NodeFacts
  <2> QED
    BY <1>8, <2>1, <2>2, SameRing
<1>16. StoreInv'
  <2>1. ASSUME pc[Idle] \in Linking, NEW g \in Levels, g = Priority[child[Idle]]
        PROVE  /\ g # h /\ g \notin Ready(h) /\ child[Idle] # h
               /\ child[Idle] \notin Ready(h) /\ child[Idle] \in Node /\ g \in Node
    BY <1>1, <1>2, <1>3, <1>4, <2>1, Members, NodeFacts
       DEF PrivateInv, Alive, TypeInv, Ready
  <2>2. \A g \in Levels : g # h => Ready(g)' = Ready(g)
    BY <1>1, <1>4, <1>5, <1>6, Members, NodeFacts, ZenonT(30)
  <2> QED
    BY <1>1, <1>2, <1>3, <1>4, <1>8, <2>1, <2>2, StoreKept, NodeFacts
       DEF TypeInv, TypeOK, Linking
<1>17. Bitmap'
  <2>1. list_empty(list', h) <=> Ready(h)' = {}
    BY <1>9, EmptyList
  <2>2. OS_ActivePrio' = IF Ready(h)' = {} THEN OS_ActivePrio \ {h} ELSE OS_ActivePrio
    BY <2>1, <1>3, <1>4 DEF Sleep, Cleared, Removed
  <2>3. \A p \in Levels : p # h => Ready(p)' = Ready(p)
    BY <1>1, <1>4, <1>5, <1>6, Members, NodeFacts, ZenonT(30)
  <2>4. \A p \in Levels : Ready(p)' \subseteq Ready(p)
    BY <1>5
  <2> QED
    BY <1>2, <1>4, <1>5, <2>2, <2>3, <2>4 DEF Bitmap
<1>18. MergeInv'
  BY <1>1, <1>2, <1>3, <1>4 DEF MergeInv, Tcb, Linking, TypeInv, TypeOK
<1>19. RunsAThread' /\ UrgentInv'
  BY <1>1, <1>3, <1>4 DEF RunsAThread, UrgentInv, TypeInv, TypeOK
<1>20. \A n \in Zombie \cup {OS_DeadList} : list'[n] = list[n]
  BY <1>1, <1>4, <1>8, Members, NodeFacts
<1>21. ZombieList'
  BY <1>2, <1>3, <1>5, <1>20, SameRing DEF ZombieList
<1>22. ReapInv'
  <2>1. pc[Idle] = "reap5" => /\ reap.node \in Node \ (Ready(h) \cup {h})
                              /\ reap.node # t /\ reap.node \in Tcb
    BY <1>1, <1>2, <1>3, <1>4, Members, NodeFacts DEF ReapInv, Ready, Alive
  <2> QED
    BY <1>1, <1>2, <1>3, <1>5, <1>8, <1>20, <2>1, ReapKept, NodeFacts DEF TypeInv, TypeOK
<1>23. LiveChain' /\ RegisterInv'
  BY <1>1, <1>2, <1>3, <1>4, <1>5 DEF LiveChain, RegisterInv, OnLive, Building, TypeInv, TypeOK
<1> QED
  BY <1>1, <1>10, <1>11, <1>12, <1>13, <1>14, <1>15, <1>16, <1>17, <1>18, <1>19,
     <1>21, <1>22, <1>23 DEF CoreInv

\* The timer interrupt puts a sleeper on a ready list nobody is storing into.
LEMMA TickSafe ==
  ASSUME CoreInv, NEW t \in Threads, Tick(t)
  PROVE  CoreInv'
<1>1. TypeInv /\ TypeInv'
  <2>1. Next
    BY DEF Next
  <2> QED
    BY <2>1, NextTypeInv DEF CoreInv
<1>2. /\ IdleInv /\ LabourInv /\ ExclusiveInv /\ PrivateInv /\ BootInv
      /\ ReadyQueues /\ StoreInv /\ Bitmap /\ MergeInv
      /\ RunsAThread /\ UrgentInv /\ ZombieList /\ ReapInv
      /\ LiveChain /\ RegisterInv
  BY DEF CoreInv
<1>3. PICK h \in Levels : h = Priority[t] /\ h \in Heads
  BY <1>1, NodeFacts DEF TypeInv, TypeOK
<1>4. /\ timer[t] = "armed" /\ pend'
      /\ list' = list_add(list, t, h)
      /\ OS_ActivePrio' = OS_ActivePrio \cup {h}
      /\ timer' = [timer EXCEPT ![t] = "off"]
      /\ UNCHANGED <<OS_This, Priority, live, pc, boot, console, reap,
                     level, child, tail, first, bits>>
  BY <1>3 DEF Tick, Raised, labourVars
<1>5. /\ t \in Tcb /\ t \in Node /\ t # Idle /\ pc[t] \in {"slept", "woken"} /\ t # h
      /\ \A u \in Threads : pc[u] \notin Linking
  BY <1>1, <1>2, <1>3, <1>4, NodeFacts, NoAppLabour DEF IdleInv
<1>6. /\ \A p : Ready(p)' = IF p = h THEN Ready(p) \cup {t} ELSE Ready(p)
      /\ Zombie' = Zombie
      /\ \A u \in Tcb : Alive(u)' <=> Alive(u)
      /\ \A p : Storing(p)' <=> Storing(p)
      /\ \A p : Merging(p)' <=> Merging(p)
      /\ t \notin Zombie /\ \A p : t \notin Ready(p)
  BY <1>1, <1>3, <1>4, <1>5 DEF Ready, Zombie, Alive, Storing, Merging, TypeInv, TypeOK
<1>7. pc[Idle] \in Linking => /\ child[Idle] # t /\ h < Priority[child[Idle]]
                              /\ child[Idle] \in Threads
  BY <1>1, <1>2, <1>3, <1>5, NodeFacts
     DEF PrivateInv, LabourInv, Linking, Building, Alive, TypeInv
<1>8. ~Storing(h) /\ IsList(list, h, Ready(h))
  <2>1. ~Storing(h)
    BY <1>3, <1>5, <1>7, NodeFacts DEF Storing, Tcb, Linking
  <2> QED
    BY <1>2, <1>3, <2>1 DEF ReadyQueues
<1>m. list \in Links(Node) /\ h \in Node /\ Ready(h) \in SUBSET Node /\ Ready(h)' = Ready(h) \cup {t}
  BY <1>1, <1>3, <1>6, Members, NodeFacts DEF TypeInv, TypeOK
<1>9. \A n \in Node \ (Ready(h) \cup {h, t}) : list'[n] = list[n]
  BY <1>4, <1>5, <1>8, <1>m, AddFrame
<1>10. IsList(list', h, Ready(h)')
  BY <1>4, <1>5, <1>6, <1>8, <1>m, AddKeepsList
<1>11. IdleInv' /\ LabourInv' /\ ExclusiveInv' /\ BootInv'
  BY <1>1, <1>2, <1>4, <1>5 DEF IdleInv, LabourInv, ExclusiveInv, BootInv, TypeInv, TypeOK
<1>12. PrivateInv'
  BY <1>1, <1>2, <1>3, <1>4, <1>6, <1>7, NodeFacts DEF PrivateInv, Tcb
<1>13. ReadyQueues'
  <2> SUFFICES ASSUME NEW p \in Heads, ~Storing(p), p # h
               PROVE  IsList(list', p, Ready(p)')
    BY <1>6, <1>10 DEF ReadyQueues, Heads
  <2>1. Ready(p)' = Ready(p) /\ IsList(list, p, Ready(p))
    BY <1>2, <1>6 DEF ReadyQueues
  <2>2. \A n \in Ready(p) \cup {p} : n \in Node \ (Ready(h) \cup {h, t})
    BY <1>1, <1>3, <1>5, <1>6, Members, NodeFacts
  <2> QED
    BY <1>9, <2>1, <2>2, SameRing
<1>14. StoreInv'
  <2>1. ASSUME pc[Idle] \in Linking, NEW g \in Levels, g = Priority[child[Idle]]
        PROVE  /\ g # h /\ g \in Node \ (Ready(h) \cup {h, t})
               /\ child[Idle] \in Node \ (Ready(h) \cup {h, t})
    BY <1>1, <1>3, <1>5, <1>7, <2>1, Members, NodeFacts DEF Ready
  <2> QED
    BY <1>1, <1>2, <1>4, <1>5, <1>6, <1>9, <2>1, StoreKept
<1>15. Bitmap'
  BY <1>2, <1>3, <1>4, <1>6 DEF Bitmap
<1>16. MergeInv'
  BY <1>2, <1>4, <1>5 DEF MergeInv, Tcb, Linking
<1>17. RunsAThread' /\ UrgentInv'
  BY <1>2, <1>4 DEF RunsAThread, UrgentInv
<1>18. \A n \in Zombie \cup {OS_DeadList} : list'[n] = list[n]
  BY <1>1, <1>3, <1>5, <1>6, <1>9, Members, NodeFacts
<1>19. ZombieList'
  BY <1>2, <1>4, <1>6, <1>18, SameRing DEF ZombieList
<1>20. ReapInv'
  <2>1. pc[Idle] = "reap5" => reap.node \in Node \ (Ready(h) \cup {h, t})
    BY <1>1, <1>2, <1>3, <1>5, Members, NodeFacts DEF ReapInv, Ready, Alive
  <2> QED
    BY <1>1, <1>2, <1>4, <1>6, <1>9, <1>18, <2>1, ReapKept
<1>21. LiveChain' /\ RegisterInv'
  BY <1>2, <1>4, <1>6 DEF LiveChain, RegisterInv, OnLive
<1> QED
  BY <1>1, <1>11, <1>12, <1>13, <1>14, <1>15, <1>16, <1>17, <1>19, <1>20, <1>21 DEF CoreInv

\* The member that shift finds behind the most urgent bit is a ready thread.
LEMMA ShiftSafe ==
  ASSUME CoreInv, Shift
  PROVE  CoreInv'
<1>1. TypeInv /\ TypeInv'
  <2>1. Next
    BY DEF Next
  <2> QED
    BY <2>1, NextTypeInv DEF CoreInv
<1>2. /\ IdleInv /\ LabourInv /\ ExclusiveInv /\ PrivateInv /\ BootInv
      /\ ReadyQueues /\ StoreInv /\ Bitmap /\ MergeInv
      /\ RunsAThread /\ UrgentInv /\ ZombieList /\ ReapInv
      /\ LiveChain /\ RegisterInv
  BY DEF CoreInv
<1>3. PICK b \in Heads : b = bit_scan_forward(OS_ActivePrio)
  BY <1>1, BitScan DEF TypeInv, TypeOK
<1>4. /\ pend /\ ~pend' /\ OS_This' = list[b].next
      /\ UNCHANGED <<list, OS_ActivePrio, live, pc, boot, reap, Priority, timer, console,
                     level, child, tail, first, bits>>
  BY <1>1, <1>3 DEF Shift, threadVars, labourVars, TypeInv, TypeOK
<1>5. /\ OS_ActivePrio = {} => b = IdlePrio
      /\ OS_ActivePrio # {} => b \in OS_ActivePrio /\ \A p \in OS_ActivePrio : b <= p
  BY <1>1, <1>3, BitScan DEF TypeInv, TypeOK
<1>6. \A u \in Threads : pc[u] \notin Linking
  BY <1>2, <1>4, NoAppLabour
<1>7. b # IdlePrio => b \in OS_ActivePrio
  BY <1>5
<1>8. ~Storing(b)
  <2>1. ASSUME NEW u \in Tcb, pc[u] \in {"add2", "add3"}, Priority[child[u]] = b
        PROVE  FALSE
    <3>1. u = Idle /\ pc[Idle] \in Linking /\ child[Idle] \in Threads
      BY <1>1, <1>6, <2>1 DEF Tcb, Linking, TypeInv
    <3> QED
      BY <1>1, <1>2, <1>7, <2>1, <3>1, NodeFacts DEF PrivateInv, TypeInv, TypeOK
  <2> QED
    BY <2>1 DEF Storing
<1>9. Ready(b) # {}
  <2>1. Idle \in Ready(IdlePrio)
    <3>1. Idle \in Tcb
      BY NodeFacts
    <3>2. Alive(Idle)
      BY <1>2, <3>1 DEF IdleInv, Alive, Linking, Reclaiming
    <3>3. timer[Idle] = "off" /\ Priority[Idle] = IdlePrio
      BY <1>1, <1>2, <3>1 DEF IdleInv, TypeInv, TypeOK
    <3> QED
      BY <3>1, <3>2, <3>3 DEF Ready
  <2> QED
    BY <1>1, <1>2, <1>7, <2>1 DEF Bitmap, TypeInv, TypeOK
<1>10. OS_This' \in Ready(b)
  BY <1>2, <1>3, <1>4, <1>8, <1>9, EmptyList DEF ReadyQueues
<1>11. /\ \A p : Ready(p)' = Ready(p)
       /\ Zombie' = Zombie
       /\ \A u \in Tcb : Alive(u)' <=> Alive(u)
       /\ \A p : Storing(p)' <=> Storing(p)
       /\ \A p : Merging(p)' <=> Merging(p)
  BY <1>4 DEF Ready, Zombie, Alive, Storing, Merging
<1>12. IdleInv' /\ LabourInv' /\ BootInv' /\ ExclusiveInv'
  BY <1>2, <1>4, <1>6 DEF IdleInv, LabourInv, BootInv, ExclusiveInv
<1>13. OS_This' \in Tcb /\ Priority[OS_This'] = b /\ Alive(OS_This')
  BY <1>10 DEF Ready
<1>14. PrivateInv'
  <2>1. pc[Idle] \in Linking => OS_This' # child[Idle]
    BY <1>1, <1>2, <1>7, <1>13, NodeFacts DEF PrivateInv, TypeInv, TypeOK
  <2> QED
    BY <1>2, <1>4, <1>11, <2>1 DEF PrivateInv, Tcb
<1>15. ReadyQueues' /\ Bitmap' /\ ZombieList'
  BY <1>2, <1>4, <1>11 DEF ReadyQueues, Bitmap, ZombieList
<1>16. StoreInv' /\ MergeInv'
  BY <1>2, <1>4, <1>11 DEF StoreInv, MergeInv
<1>17. ReapInv'
  BY <1>2, <1>4, <1>11 DEF ReapInv
<1>18. RunsAThread'
  BY <1>4, <1>10, <1>11, <1>13 DEF RunsAThread
<1>19. UrgentInv'
  BY <1>4, <1>5, <1>13 DEF UrgentInv
<1>20. LiveChain' /\ RegisterInv'
  BY <1>2, <1>4, <1>11 DEF LiveChain, RegisterInv, OnLive
<1> QED
  BY <1>1, <1>12, <1>14, <1>15, <1>16, <1>17, <1>18, <1>19, <1>20 DEF CoreInv

\* OS_thread_switch only leaves the processor.
LEMMA SwitchSafe ==
  ASSUME CoreInv, NEW t \in Threads, Switch(t)
  PROVE  CoreInv'
<1>1. TypeInv /\ TypeInv'
  <2>1. Next
    BY DEF Next, ThreadStep
  <2> QED
    BY <2>1, NextTypeInv DEF CoreInv
<1>2. /\ IdleInv /\ LabourInv /\ ExclusiveInv /\ PrivateInv /\ BootInv
      /\ ReadyQueues /\ StoreInv /\ Bitmap /\ MergeInv
      /\ RunsAThread /\ UrgentInv /\ ZombieList /\ ReapInv
      /\ LiveChain /\ RegisterInv
  BY DEF CoreInv
<1>3. /\ OS_This = t /\ pend' /\ t \in Tcb /\ t # Idle
      /\ pc[t] \in {"slept", "dying"}
      /\ pc' = [pc EXCEPT ![t] = IF pc[t] = "slept" THEN "woken" ELSE "dead"]
      /\ UNCHANGED <<list, OS_ActivePrio, OS_This, live, boot, reap, Priority, timer, console,
                     level, child, tail, first, bits>>
  BY NodeFacts DEF Switch, Running, threadVars, labourVars
<1>4. \A u \in Threads : pc[u] \notin Linking
  BY <1>2, <1>3, NoAppLabour DEF Linking
<1>5. /\ \A p : Ready(p)' = Ready(p)
      /\ Zombie' = Zombie
      /\ \A u \in Tcb : Alive(u)' <=> Alive(u)
      /\ \A p : Storing(p)' <=> Storing(p)
      /\ \A p : Merging(p)' <=> Merging(p)
      /\ pc'[Idle] = pc[Idle]
      /\ \A u \in Tcb : pc'[u] \in Linking => pc'[u] = pc[u]
      /\ \A u \in Tcb : (pc'[u] = "new" <=> pc[u] = "new") /\ (pc'[u] = "free" <=> pc[u] = "free")
      /\ \A u \in Tcb : pc[u] = "run" => pc'[u] = "run"
  BY <1>1, <1>3 DEF Ready, Zombie, Alive, Storing, Merging, Linking, TypeInv, TypeOK
<1>6. IdleInv'
  BY <1>1, <1>2, <1>3, NodeFacts DEF IdleInv, TypeInv, TypeOK, Reclaiming
<1>7. LabourInv'
  <2>1. \A u \in Tcb : pc[u] \in Linking => child[u] \in Tcb
    BY <1>1, NodeFacts DEF TypeInv
  <2> QED
    BY <1>2, <1>3, <1>5, <2>1 DEF LabourInv, Linking, Building
<1>8. ExclusiveInv' /\ BootInv'
  BY <1>2, <1>4, <1>5, NodeFacts, <1>3 DEF ExclusiveInv, BootInv, Tcb
<1>9. PrivateInv'
  BY <1>2, <1>3, <1>5, NodeFacts DEF PrivateInv
<1>10. ReadyQueues' /\ Bitmap' /\ ZombieList'
  BY <1>2, <1>3, <1>5 DEF ReadyQueues, Bitmap, ZombieList
<1>11. StoreInv'
  <2>1. \A p \in Levels : Ready(p)' = Ready(p)
    BY <1>5
  <2>2. \A u \in Threads : pc'[u] \notin Linking
    BY <1>4, <1>5, NodeFacts
  <2> QED
    BY <1>1, <1>2, <1>3, <1>4, <1>5, <2>1, <2>2, StoreKept
<1>12. MergeInv'
  BY <1>2, <1>3, <1>5 DEF MergeInv, Linking
<1>13. ReapInv'
  <2>1. pc[Idle] = "reap5" => reap.node \in Tcb /\ reap.node # t
    BY <1>2, <1>3, NodeFacts DEF ReapInv
  <2> QED
    BY <1>1, <1>2, <1>3, <1>5, <2>1, ReapKept DEF TypeInv, TypeOK
<1>14. RunsAThread' /\ UrgentInv'
  BY <1>3 DEF RunsAThread, UrgentInv
<1>15. LiveChain' /\ RegisterInv'
  BY <1>2, <1>3, <1>5 DEF LiveChain, RegisterInv, OnLive, Linking, Building
<1> QED
  BY <1>1, <1>6, <1>7, <1>8, <1>9, <1>10, <1>11, <1>12, <1>13, <1>14, <1>15 DEF CoreInv

\* The OS_timer_del at the end of sleep finds the timer expired.
LEMMA SleepReturnsSafe ==
  ASSUME CoreInv, NEW t \in Threads, SleepReturns(t)
  PROVE  CoreInv'
<1>1. TypeInv /\ TypeInv'
  <2>1. Next
    BY DEF Next, ThreadStep
  <2> QED
    BY <2>1, NextTypeInv DEF CoreInv
<1>2. /\ IdleInv /\ LabourInv /\ ExclusiveInv /\ PrivateInv /\ BootInv
      /\ ReadyQueues /\ StoreInv /\ Bitmap /\ MergeInv
      /\ RunsAThread /\ UrgentInv /\ ZombieList /\ ReapInv
      /\ LiveChain /\ RegisterInv
  BY DEF CoreInv
<1>3. /\ OS_This = t /\ ~pend /\ t \in Tcb /\ t # Idle /\ pc[t] = "woken"
      /\ pc' = [pc EXCEPT ![t] = "run"]
      /\ timer' = [timer EXCEPT ![t] = "off"]
      /\ UNCHANGED <<list, OS_ActivePrio, OS_This, Priority, live, pend, boot, reap, console,
                     level, child, tail, first, bits>>
  BY NodeFacts DEF SleepReturns, Running, labourVars
<1>4. timer[t] = "off" /\ timer' = timer
  <2>1. timer[t] = "off"
    BY <1>2, <1>3 DEF RunsAThread, Ready
  <2> QED
    BY <1>1, <1>3, <2>1 DEF TypeInv, TypeOK
<1>5. \A u \in Threads : pc[u] \notin Linking /\ pc'[u] \notin Linking
  BY <1>1, <1>2, <1>3, NoAppLabour DEF Linking, TypeInv, TypeOK
<1>6. /\ \A p : Ready(p)' = Ready(p)
      /\ Zombie' = Zombie
      /\ \A u \in Tcb : Alive(u)' <=> Alive(u)
      /\ \A p : Storing(p)' <=> Storing(p)
      /\ \A p : Merging(p)' <=> Merging(p)
      /\ pc'[Idle] = pc[Idle]
      /\ \A u \in Tcb : pc'[u] \in Linking => pc'[u] = pc[u]
      /\ \A u \in Tcb : (pc'[u] = "new" <=> pc[u] = "new") /\ (pc'[u] = "free" <=> pc[u] = "free")
      /\ \A u \in Tcb : pc[u] = "run" => pc'[u] = "run"
  BY <1>1, <1>3, <1>4 DEF Ready, Zombie, Alive, Storing, Merging, Linking, TypeInv, TypeOK
<1>7. IdleInv'
  BY <1>1, <1>2, <1>3, <1>4, NodeFacts DEF IdleInv, TypeInv, TypeOK, Reclaiming
<1>8. LabourInv'
  <2>1. \A u \in Tcb : pc[u] \in Linking => child[u] \in Tcb
    BY <1>1, NodeFacts DEF TypeInv
  <2> QED
    BY <1>2, <1>3, <1>6, <2>1 DEF LabourInv, Linking, Building
<1>9. ExclusiveInv' /\ BootInv'
  BY <1>2, <1>3, <1>5, <1>6, NodeFacts DEF ExclusiveInv, BootInv, Tcb
<1>10. PrivateInv'
  BY <1>2, <1>3, <1>6, NodeFacts DEF PrivateInv
<1>11. ReadyQueues' /\ Bitmap' /\ ZombieList'
  BY <1>2, <1>3, <1>6 DEF ReadyQueues, Bitmap, ZombieList
<1>12. StoreInv'
  <2>1. \A p \in Levels : Ready(p)' = Ready(p)
    BY <1>6
  <2> QED
    BY <1>1, <1>2, <1>3, <1>5, <1>6, <2>1, StoreKept
<1>13. MergeInv'
  BY <1>2, <1>3, <1>6 DEF MergeInv, Linking
<1>14. ReapInv'
  <2>1. pc[Idle] = "reap5" => reap.node \in Tcb /\ reap.node # t
    BY <1>2, <1>3, NodeFacts DEF ReapInv
  <2> QED
    BY <1>1, <1>2, <1>3, <1>6, <2>1, ReapKept DEF TypeInv, TypeOK
<1>15. RunsAThread' /\ UrgentInv'
  BY <1>1, <1>2, <1>3, <1>6 DEF RunsAThread, UrgentInv, TypeInv, TypeOK
<1>16. LiveChain' /\ RegisterInv'
  BY <1>2, <1>3, <1>6 DEF LiveChain, RegisterInv, OnLive, Linking, Building
<1> QED
  BY <1>1, <1>7, <1>8, <1>9, <1>10, <1>11, <1>12, <1>13, <1>14, <1>15, <1>16 DEF CoreInv

\* At a quiet moment the caller is the only thread inside the kernel, and nothing
\* is known that a call could break of labour and of the reclaim loop.
LEMMA QuietFacts ==
  ASSUME CoreInv, NEW t \in Threads, Calls(t), Quiet(t)
  PROVE  /\ \A u \in Tcb : pc[u] \notin Linking \cup Reclaiming
         /\ \A p : ~Storing(p) /\ ~Merging(p)
         /\ pc[Idle] \in {"run", "merged"}
         /\ t \in Tcb /\ OS_This = t /\ ~pend /\ pc[t] = "run" /\ t # Idle
         /\ t \in Ready(Priority[t])
         /\ \A p \in Heads : IsList(list, p, Ready(p))
         /\ IsList(list, OS_DeadList, Zombie)
<1>1. IdleInv /\ RunsAThread /\ ReadyQueues /\ ZombieList
  BY DEF CoreInv
<1>2. t \in Tcb /\ OS_This = t /\ ~pend /\ pc[t] = "run" /\ t # Idle
  BY NodeFacts DEF Calls, Running
<1>3. \A u \in Tcb : pc[u] \notin Linking \cup Reclaiming
  BY <1>2 DEF Quiet, Linking, Reclaiming
<1>4. pc[Idle] \in {"run", "merged"}
  BY <1>1, <1>3, NodeFacts DEF IdleInv
<1>5. \A p : ~Storing(p) /\ ~Merging(p)
  BY <1>3 DEF Storing, Merging, Linking
<1>6. t \in Ready(Priority[t])
  BY <1>1, <1>2 DEF RunsAThread
<1> QED
  BY <1>1, <1>2, <1>3, <1>4, <1>5, <1>6 DEF ReadyQueues, ZombieList, Unlinking

\* What is known of unlocked updates says nothing when none is under way.
LEMMA QuietKept ==
  ASSUME TypeInv', \A u \in Tcb : pc'[u] \notin Linking \cup Reclaiming
  PROVE  /\ LabourInv' /\ ExclusiveInv' /\ PrivateInv' /\ StoreInv' /\ MergeInv'
         /\ ReapInv' /\ RegisterInv'
  BY NodeFacts DEF LabourInv, ExclusiveInv, PrivateInv, StoreInv, MergeInv, ReapInv,
     RegisterInv, Linking, Reclaiming, Building

\* change_priority of a sleeper touches no list.
LEMMA ChangePrioritySafe ==
  ASSUME CoreInv, Careful = Disciplines,
         NEW t \in Threads, NEW u \in Threads, NEW p \in Levels, change_priority(t, u, p)
  PROVE  CoreInv'
<1>1. TypeInv /\ TypeInv'
  <2>1. Next
    BY DEF Next, ThreadStep
  <2> QED
    BY <2>1, NextTypeInv DEF CoreInv
<1>2. /\ IdleInv /\ LabourInv /\ ExclusiveInv /\ PrivateInv /\ BootInv
      /\ ReadyQueues /\ StoreInv /\ Bitmap /\ MergeInv
      /\ RunsAThread /\ UrgentInv /\ ZombieList /\ ReapInv
      /\ LiveChain /\ RegisterInv
  BY DEF CoreInv
<1>3. /\ Calls(t) /\ Quiet(t) /\ timer[u] = "armed" /\ p # ConsolePrio
      /\ u \in Tcb /\ u # Idle
      /\ Priority' = [Priority EXCEPT ![u] = p]
      /\ UNCHANGED <<list, OS_ActivePrio, OS_This, live, timer, pend, pc, boot, console, reap,
                     level, child, tail, first, bits>>
  BY NodeFacts DEF change_priority, Disciplines, labourVars
<1>4. /\ \A v \in Tcb : pc[v] \notin Linking \cup Reclaiming
      /\ \A r : ~Storing(r) /\ ~Merging(r)
      /\ pc[Idle] \in {"run", "merged"}
      /\ t \in Tcb /\ OS_This = t /\ ~pend /\ pc[t] = "run" /\ t # Idle
      /\ t \in Ready(Priority[t])
  BY <1>3, QuietFacts
<1>5. t # u /\ Priority'[t] = Priority[t] /\ Priority'[Idle] = Priority[Idle]
  BY <1>1, <1>2, <1>3, <1>4, NodeFacts, SMTT(90) DEF IdleInv, TypeInv, TypeOK
<1>6. /\ \A r : Ready(r)' = Ready(r)
      /\ Zombie' = Zombie
      /\ \A v \in Tcb : Alive(v)' <=> Alive(v)
      /\ \A r : ~Storing(r)' /\ ~Merging(r)'
  BY <1>1, <1>3, <1>4 DEF Ready, Zombie, Alive, TypeInv, TypeOK, Storing, Merging, Linking
<1>7. IdleInv' /\ BootInv'
  BY <1>1, <1>2, <1>3, <1>5, NodeFacts DEF IdleInv, BootInv, TypeInv, TypeOK
<1>8. ReadyQueues' /\ ZombieList'
  BY <1>2, <1>3, <1>4, <1>6 DEF ReadyQueues, ZombieList
<1>9. Bitmap'
  BY <1>2, <1>3, <1>4, <1>6 DEF Bitmap
<1>10. RunsAThread' /\ UrgentInv'
  BY <1>2, <1>3, <1>4, <1>5, <1>6 DEF RunsAThread, UrgentInv
<1>11. LiveChain'
  BY <1>2, <1>3, <1>6 DEF LiveChain, OnLive
<1> QED
  BY <1>1, <1>3, <1>4, <1>7, <1>8, <1>9, <1>10, <1>11, QuietKept DEF CoreInv

\* thread_unregister finds every thread it is asked for.
LEMMA NoFault ==
  ASSUME CoreInv, NEW t \in Threads, NEW u \in Threads
  PROVE  ~UnregisterFaults(t, u)
  BY NodeFacts DEF CoreInv, LiveChain, UnregisterFaults

\* thread_unregister takes one thread off the chain and leaves the others.
LEMMA UnregisteredChain ==
  ASSUME TypeInv, LiveChain, NEW t \in Threads, OnLive(t)
  PROVE  LET r == Unregistered(t) IN
         /\ \A i, j \in 1..Len(r) : r[i] = r[j] => i = j
         /\ \A u : (\E i \in 1..Len(r) : r[i] = u) <=> OnLive(u) /\ u # t
<1> DEFINE r == Unregistered(t)
<1>1. PICK n \in Nat : n = Len(live) /\ live \in Seq(Tcb)
  BY DEF TypeInv, TypeOK
<1>2. PICK k \in 1..n : live[k] = t /\ k = CHOOSE i \in 1..Len(live) : live[i] = t
  BY <1>1 DEF OnLive
<1>3. \A i, j \in 1..n : live[i] = live[j] => i = j
  BY <1>1 DEF LiveChain
<1>4. r = [i \in 1..(n - 1) |-> live[IF i < k THEN i ELSE i + 1]]
  BY <1>1, <1>2 DEF Unregistered
<1>5. Len(r) = n - 1 /\ \A i \in 1..(n - 1) : r[i] = live[IF i < k THEN i ELSE i + 1]
  BY <1>1, <1>2, <1>4
<1> HIDE DEF r
<1>6. \A i, j \in 1..Len(r) : r[i] = r[j] => i = j
  <2> SUFFICES ASSUME NEW i \in 1..(n - 1), NEW j \in 1..(n - 1), r[i] = r[j]
               PROVE  i = j
    BY <1>5
  <2> DEFINE up(x) == IF x < k THEN x ELSE x + 1
  <2>1. up(i) \in 1..n /\ up(j) \in 1..n
    OBVIOUS
  <2>2. up(i) = up(j)
    BY <1>3, <1>5, <2>1
  <2> QED
    BY <2>2
<1>7. ASSUME NEW u, NEW i \in 1..Len(r), r[i] = u
      PROVE  OnLive(u) /\ u # t
  <2> DEFINE m == IF i < k THEN i ELSE i + 1
  <2>1. m \in 1..n /\ m # k /\ live[m] = u
    BY <1>5, <1>7
  <2> QED
    BY <1>1, <1>2, <1>3, <2>1 DEF OnLive
<1>8. ASSUME NEW u, OnLive(u), u # t
      PROVE  \E i \in 1..Len(r) : r[i] = u
  <2>1. PICK m \in 1..n : live[m] = u
    BY <1>1, <1>8 DEF OnLive
  <2>2. m # k
    BY <1>2, <1>8, <2>1
  <2>3. CASE m < k
    BY <1>5, <2>1, <2>3
  <2>4. CASE m > k
    <3>1. m - 1 \in 1..(n - 1) /\ ~(m - 1 < k) /\ (m - 1) + 1 = m
      BY <2>4
    <3> QED
      BY <1>5, <2>1, <3>1
  <2> QED
    BY <2>2, <2>3, <2>4
<1> QED
  BY <1>6, <1>7, <1>8 DEF r

\* exit moves the caller from its ready list to the zombies.
LEMMA ExitSafe ==
  ASSUME CoreInv, Careful = Disciplines, NEW t \in Threads, Exit(t)
  PROVE  CoreInv'
<1>1. TypeInv /\ TypeInv'
  <2>1. Next
    BY DEF Next, ThreadStep
  <2> QED
    BY <2>1, NextTypeInv DEF CoreInv
<1>2. /\ IdleInv /\ LabourInv /\ ExclusiveInv /\ PrivateInv /\ BootInv
      /\ ReadyQueues /\ StoreInv /\ Bitmap /\ MergeInv
      /\ RunsAThread /\ UrgentInv /\ ZombieList /\ ReapInv
      /\ LiveChain /\ RegisterInv
  BY DEF CoreInv
<1>3. PICK h \in Levels : h = Priority[t] /\ h \in Heads
  BY <1>1, NodeFacts DEF TypeInv, TypeOK
<1>4. /\ Calls(t) /\ Quiet(t) /\ OnLive(t)
      /\ live' = Unregistered(t)
      /\ list' = list_add(list_del(list, t), t, OS_DeadList)
      /\ timer' = [timer EXCEPT ![t] = "off"]
      /\ pc' = [pc EXCEPT ![t] = "dying"]
      /\ UNCHANGED <<OS_This, Priority, pend, boot, console, reap, level, child, tail, first, bits>>
  BY DEF Exit, MayExit, Disciplines, Buried, Removed, labourVars
<1>5. /\ \A v \in Tcb : pc[v] \notin Linking \cup Reclaiming
      /\ \A r : ~Storing(r) /\ ~Merging(r)
      /\ pc[Idle] \in {"run", "merged"}
      /\ t \in Tcb /\ OS_This = t /\ ~pend /\ pc[t] = "run" /\ t # Idle
      /\ t \in Ready(h)
      /\ \A p \in Heads : IsList(list, p, Ready(p))
      /\ IsList(list, OS_DeadList, Zombie)
  BY <1>3, <1>4, QuietFacts
<1>6. /\ \A v \in Tcb : pc'[v] \notin Linking \cup Reclaiming
      /\ \A r : ~Storing(r)' /\ ~Merging(r)'
  BY <1>1, <1>4, <1>5 DEF Linking, Reclaiming, Storing, Merging, TypeInv, TypeOK
<1>7. /\ \A p : Ready(p)' = Ready(p) \ {t}
      /\ Zombie' = Zombie \cup {t}
      /\ \A v \in Tcb : Alive(v)' <=> Alive(v) /\ v # t
  BY <1>1, <1>4, <1>5 DEF Ready, Zombie, Alive, TypeInv, TypeOK
<1> DEFINE K == list_del(list, t)
<1>8. /\ K \in Links(Node)
      /\ IsList(K, h, Ready(h) \ {t})
      /\ \A n \in Node \ (Ready(h) \cup {h}) : K[n] = list[n]
  <2>1. /\ list \in Links(Node) /\ t \in Node /\ h \in Node
        /\ Ready(h) \in SUBSET Node /\ IsList(list, h, Ready(h))
    BY <1>1, <1>3, <1>5, Members, NodeFacts DEF TypeInv, TypeOK
  <2>2. K \in Links(Node)
    BY <2>1, DelType
  <2>3. IsList(K, h, Ready(h) \ {t})
    BY <1>5, <2>1, DelKeepsList
  <2>4. \A n \in Node \ (Ready(h) \cup {h}) : K[n] = list[n]
    BY <1>5, <2>1, DelFrame
  <2> QED
    BY <2>2, <2>3, <2>4
<1>9. \A p \in Heads : IsList(K, p, Ready(p) \ {t})
  <2> SUFFICES ASSUME NEW p \in Heads, p # h
               PROVE  IsList(K, p, Ready(p) \ {t})
    BY <1>8
  <2>1. Ready(p) \ {t} = Ready(p) /\ IsList(list, p, Ready(p))
    BY <1>1, <1>3, <1>5, Members
  <2>2. \A n \in Ready(p) \cup {p} : n \in Node \ (Ready(h) \cup {h})
    BY <1>1, <1>3, Members, NodeFacts
  <2> HIDE DEF K
  <2> QED
    BY <1>8, <2>1, <2>2, SameRing
<1>10. IsList(K, OS_DeadList, Zombie)
  <2>1. \A n \in Zombie \cup {OS_DeadList} : n \in Node \ (Ready(h) \cup {h})
    BY <1>1, <1>3, Members, NodeFacts
  <2> HIDE DEF K
  <2> QED
    BY <1>5, <1>8, <2>1, SameRing
<1>11. /\ t \notin Zombie /\ t \in Node /\ OS_DeadList \in Node /\ t # OS_DeadList
       /\ Zombie \in SUBSET Node
  BY <1>1, <1>3, <1>5, Members, NodeFacts
<1>12. list' = list_add(K, t, OS_DeadList)
  BY <1>4
<1> HIDE DEF K
<1>13. IsList(list', OS_DeadList, Zombie')
  BY <1>7, <1>8, <1>10, <1>11, <1>12, AddKeepsList
<1>14. \A n \in Node \ (Zombie \cup {OS_DeadList, t}) : list'[n] = K[n]
  BY <1>8, <1>10, <1>11, <1>12, AddFrame
<1>15. \A p \in Heads : IsList(list', p, Ready(p)')
  <2> SUFFICES ASSUME NEW p \in Heads
               PROVE  IsList(list', p, Ready(p) \ {t})
    BY <1>7
  <2>1. \A n \in (Ready(p) \ {t}) \cup {p} : n \in Node \ (Zombie \cup {OS_DeadList, t})
    BY <1>1, <1>5, Members, NodeFacts
  <2> QED
    BY <1>9, <1>14, <2>1, SameRing
<1>16. ReadyQueues' /\ ZombieList'
  BY <1>13, <1>15 DEF ReadyQueues, ZombieList, Heads
<1>17. IdleInv'
  BY <1>1, <1>2, <1>4, <1>5 DEF IdleInv, TypeInv, TypeOK, Reclaiming
<1>18. BootInv'
  BY <1>1, <1>2, <1>4, <1>5 DEF BootInv, TypeInv, TypeOK
<1>19. Bitmap'
  <2>1. list_empty(K, h) <=> Ready(h) \ {t} = {}
    BY <1>8, EmptyList
  <2>2. OS_ActivePrio' = IF Ready(h) \ {t} = {} THEN OS_ActivePrio \ {h} ELSE OS_ActivePrio
    <3>1. OS_ActivePrio' = IF list_empty(K, Priority[t])
                           THEN OS_ActivePrio \ {Priority[t]}
                           ELSE OS_ActivePrio
      BY DEF Exit, Cleared, Removed, K
    <3> QED
      BY <1>3, <2>1, <3>1
  <2>3. \A p \in Levels : p # h => Ready(p)' = Ready(p)
    <3>1. \A p \in Levels : p # h => t \notin Ready(p)
      BY <1>3 DEF Ready
    <3> QED
      BY <1>7, <3>1
  <2>4. Ready(h)' = Ready(h) \ {t}
    BY <1>7
  <2> QED
    BY <1>2, <1>3, <1>5, <2>2, <2>3, <2>4 DEF Bitmap
<1>20. RunsAThread' /\ UrgentInv'
  BY <1>1, <1>4, <1>5 DEF RunsAThread, UrgentInv, TypeInv, TypeOK
<1>21. LiveChain'
  <2>1. /\ \A i, j \in 1..Len(live') : live'[i] = live'[j] => i = j
        /\ \A u : OnLive(u)' <=> OnLive(u) /\ u # t
    <3>1. \A u : OnLive(u)' <=> \E i \in 1..Len(live') : live'[i] = u
      BY DEF OnLive
    <3>2. /\ \A i, j \in 1..Len(Unregistered(t)) :
               Unregistered(t)[i] = Unregistered(t)[j] => i = j
          /\ \A u : (\E i \in 1..Len(Unregistered(t)) : Unregistered(t)[i] = u)
                     <=> OnLive(u) /\ u # t
      BY <1>1, <1>2, <1>4, UnregisteredChain
    <3> QED
      BY <1>4, <3>1, <3>2
  <2> QED
    BY <1>1, <1>2, <1>4, <1>7, <2>1 DEF LiveChain, TypeInv, TypeOK
<1> QED
  BY <1>1, <1>6, <1>16, <1>17, <1>18, <1>19, <1>20, <1>21, QuietKept DEF CoreInv

\* kill takes a ready thread off its list and off the chain, and frees it.
LEMMA KillSafe ==
  ASSUME CoreInv, Careful = Disciplines, NEW t \in Threads, NEW u \in Threads, Kill(t, u)
  PROVE  CoreInv'
<1>1. TypeInv /\ TypeInv'
  <2>1. Next
    BY DEF Next, ThreadStep
  <2> QED
    BY <2>1, NextTypeInv DEF CoreInv
<1>2. /\ IdleInv /\ LabourInv /\ ExclusiveInv /\ PrivateInv /\ BootInv
      /\ ReadyQueues /\ StoreInv /\ Bitmap /\ MergeInv
      /\ RunsAThread /\ UrgentInv /\ ZombieList /\ ReapInv
      /\ LiveChain /\ RegisterInv
  BY DEF CoreInv
<1>3. PICK h \in Levels : h = Priority[u] /\ h \in Heads
  BY <1>1, NodeFacts DEF TypeInv, TypeOK
<1>4. /\ Calls(t) /\ Quiet(t) /\ OnLive(u) /\ u # t /\ Alive(u) /\ timer[u] = "off"
      /\ live' = Unregistered(u)
      /\ list' = list_del(list, u)
      /\ timer' = [timer EXCEPT ![u] = "off"]
      /\ pend' = FALSE
      /\ pc' = [pc EXCEPT ![u] = "free"]
      /\ UNCHANGED <<OS_This, Priority, boot, reap, level, child, tail, first, bits>>
  BY DEF Kill, MayKill, Disciplines, Removed, labourVars
<1>5. /\ \A v \in Tcb : pc[v] \notin Linking \cup Reclaiming
      /\ \A r : ~Storing(r) /\ ~Merging(r)
      /\ pc[Idle] \in {"run", "merged"}
      /\ t \in Tcb /\ OS_This = t /\ ~pend /\ pc[t] = "run" /\ t # Idle
      /\ t \in Ready(Priority[t])
      /\ \A p \in Heads : IsList(list, p, Ready(p))
      /\ IsList(list, OS_DeadList, Zombie)
  BY <1>4, QuietFacts
<1>6. u \in Ready(h) /\ u \in Tcb /\ u # Idle
  BY <1>3, <1>4, NodeFacts DEF Ready
<1>7. /\ \A v \in Tcb : pc'[v] \notin Linking \cup Reclaiming
      /\ \A r : ~Storing(r)' /\ ~Merging(r)'
  BY <1>1, <1>4, <1>5 DEF Linking, Reclaiming, Storing, Merging, TypeInv, TypeOK
<1>8. /\ \A p : Ready(p)' = Ready(p) \ {u}
      /\ Zombie' = Zombie
      /\ \A v \in Tcb : Alive(v)' <=> Alive(v) /\ v # u
  BY <1>1, <1>4, <1>6 DEF Ready, Zombie, Alive, TypeInv, TypeOK
<1>9. /\ IsList(list', h, Ready(h) \ {u})
      /\ \A n \in Node \ (Ready(h) \cup {h}) : list'[n] = list[n]
  <2>1. /\ list \in Links(Node) /\ u \in Node /\ h \in Node
        /\ Ready(h) \in SUBSET Node /\ IsList(list, h, Ready(h))
    BY <1>1, <1>3, <1>5, <1>6, Members, NodeFacts DEF TypeInv, TypeOK
  <2>2. IsList(list', h, Ready(h) \ {u})
    BY <1>4, <1>6, <2>1, DelKeepsList
  <2> QED
    BY <1>4, <1>6, <2>1, <2>2, DelFrame
<1>10. ReadyQueues'
  <2> SUFFICES ASSUME NEW p \in Heads, p # h
               PROVE  IsList(list', p, Ready(p) \ {u})
    BY <1>8, <1>9 DEF ReadyQueues, Heads
  <2>1. Ready(p) \ {u} = Ready(p) /\ IsList(list, p, Ready(p))
    BY <1>1, <1>3, <1>5, <1>6, Members
  <2>2. \A n \in Ready(p) \cup {p} : n \in Node \ (Ready(h) \cup {h})
    BY <1>1, <1>3, Members, NodeFacts
  <2> QED
    BY <1>9, <2>1, <2>2, SameRing
<1>11. ZombieList'
  <2>1. \A n \in Zombie \cup {OS_DeadList} : n \in Node \ (Ready(h) \cup {h})
    BY <1>1, <1>3, Members, NodeFacts
  <2>2. IsList(list', OS_DeadList, Zombie)
    BY <1>5, <1>9, <2>1, SameRing
  <2> QED
    BY <1>8, <2>2 DEF ZombieList
<1>12. IdleInv' /\ BootInv'
  BY <1>1, <1>2, <1>4, <1>5, <1>6 DEF IdleInv, BootInv, TypeInv, TypeOK, Reclaiming
<1>13. OS_ActivePrio' = IF Ready(h) \ {u} = {} THEN OS_ActivePrio \ {h} ELSE OS_ActivePrio
  <2>1. list_empty(list', h) <=> Ready(h) \ {u} = {}
    BY <1>9, EmptyList
  <2> QED
    BY <1>3, <2>1 DEF Kill, Cleared, Removed
<1>14. Bitmap'
  <2>1. ASSUME NEW p \in Levels, p # h
        PROVE  Ready(p)' = Ready(p)
    <3>1. p \in Heads /\ h \in Heads
      BY <1>3, NodeFacts
    <3>2. u \notin Ready(p)
      BY <1>1, <1>6, <2>1, <3>1, Members
    <3> QED
      BY <1>8, <3>2
  <2>2. Ready(h)' = Ready(h) \ {u}
    BY <1>8
  <2> QED
    BY <1>2, <1>3, <1>5, <1>13, <2>1, <2>2 DEF Bitmap
<1>15. RunsAThread'
  BY <1>1, <1>4, <1>5, <1>8 DEF RunsAThread, TypeInv, TypeOK
<1>16. UrgentInv'
  BY <1>1, <1>2, <1>4, <1>5, <1>13 DEF UrgentInv, TypeInv, TypeOK
<1>17. LiveChain'
  <2>1. /\ \A i, j \in 1..Len(live') : live'[i] = live'[j] => i = j
        /\ \A v : OnLive(v)' <=> OnLive(v) /\ v # u
    <3>1. \A v : OnLive(v)' <=> \E i \in 1..Len(live') : live'[i] = v
      BY DEF OnLive
    <3>2. /\ \A i, j \in 1..Len(Unregistered(u)) :
               Unregistered(u)[i] = Unregistered(u)[j] => i = j
          /\ \A v : (\E i \in 1..Len(Unregistered(u)) : Unregistered(u)[i] = v)
                     <=> OnLive(v) /\ v # u
      BY <1>1, <1>2, <1>4, UnregisteredChain
    <3> QED
      BY <1>4, <3>1, <3>2
  <2> QED
    BY <1>1, <1>2, <1>4, <1>8, <2>1 DEF LiveChain, TypeInv, TypeOK
<1> QED
  BY <1>1, <1>7, <1>10, <1>11, <1>12, <1>14, <1>15, <1>16, <1>17, QuietKept DEF CoreInv

\* labour begins by taking a block that is on no list, and by finding the end of
\* the chain.  The caller must own the ready list it is going to store into.
LEMMA LabourCallSafe ==
  ASSUME CoreInv, CoreInv => TypeInv', NEW t \in Tcb, NEW c \in Threads, NEW p \in Levels,
         OS_This = t, ~pend, pc[t] = "run",
         \A u \in Tcb : pc[u] \notin Linking \cup Reclaiming,
         LabourCall(t, c, p)
  PROVE  /\ TypeInv' /\ IdleInv' /\ LabourInv'
         /\ ReadyQueues' /\ StoreInv' /\ Bitmap' /\ MergeInv'
         /\ RunsAThread' /\ UrgentInv' /\ ZombieList' /\ ReapInv'
         /\ LiveChain' /\ RegisterInv'
         /\ \A u \in Tcb : pc'[u] # pc[u] => u \in {t, c}
         /\ \A u \in Tcb : Alive(u)' <=> Alive(u)
<1>1. TypeInv /\ TypeInv'
  BY DEF CoreInv
<1>2. /\ IdleInv /\ LabourInv /\ ExclusiveInv /\ PrivateInv /\ BootInv
      /\ ReadyQueues /\ StoreInv /\ Bitmap /\ MergeInv
      /\ RunsAThread /\ UrgentInv /\ ZombieList /\ ReapInv
      /\ LiveChain /\ RegisterInv
  BY DEF CoreInv
<1>3. /\ pc[c] = "free" /\ c # t /\ c \in Tcb /\ c # Idle
      /\ pc' = [pc EXCEPT ![t] = "walked", ![c] = "new"]
      /\ list' = [list EXCEPT ![c] = [next |-> NULL, prev |-> NULL]]
      /\ Priority' = [Priority EXCEPT ![c] = p]
      /\ timer' = [timer EXCEPT ![c] = "off"]
      /\ child' = [child EXCEPT ![t] = c]
      /\ tail' = [tail EXCEPT ![t] = live[Len(live)]]
      /\ UNCHANGED <<OS_ActivePrio, OS_This, live, pend, first, bits, reap>>
      /\ level' = [level EXCEPT ![t] = p]
  BY NodeFacts DEF LabourCall
<1>4. /\ pc'[t] = "walked" /\ pc'[c] = "new"
      /\ \A u \in Tcb \ {t, c} : pc'[u] = pc[u]
      /\ \A u \in Tcb \ {c} : Priority'[u] = Priority[u] /\ timer'[u] = timer[u]
      /\ child'[t] = c /\ tail'[t] = live[Len(live)]
      /\ \A n \in Node \ {c} : list'[n] = list[n]
  BY <1>1, <1>3 DEF TypeInv, TypeOK, Links
<1>5. /\ \A r : Ready(r)' = Ready(r)
      /\ Zombie' = Zombie
      /\ \A u \in Tcb : Alive(u)' <=> Alive(u)
      /\ c \notin Zombie /\ \A r : c \notin Ready(r)
  BY <1>3, <1>4, ZenonT(30) DEF Ready, Zombie, Alive
<1>6. \A r : ~Storing(r) /\ ~Merging(r) /\ ~Storing(r)' /\ ~Merging(r)'
  BY <1>3, <1>4 DEF Storing, Merging, Linking
<1>7. IdleInv'
  <2>1. Priority'[Idle] = IdlePrio
    BY <1>2, <1>3, <1>4, NodeFacts DEF IdleInv
  <2>2. pc'[Idle] \in {"run", "merged"} \cup Linking \cup Reclaiming
    BY <1>2, <1>3, <1>4, NodeFacts DEF IdleInv, Linking
  <2>3. \A u \in Threads : pc'[u] \notin Reclaiming
    BY <1>2, <1>3, <1>4, NodeFacts DEF IdleInv, Reclaiming
  <2>4. \A u \in Tcb : timer'[u] = "armed" => u \notin {t, c}
    BY <1>1, <1>2, <1>3, <1>4 DEF IdleInv, TypeInv, TypeOK
  <2>5. \A u \in Tcb : timer'[u] = "armed" => u # Idle /\ pc'[u] \in {"slept", "woken"}
    BY <1>2, <1>4, <2>4 DEF IdleInv
  <2> QED
    BY <2>1, <2>2, <2>3, <2>5 DEF IdleInv
<1>8. LabourInv'
  BY <1>3, <1>4, ZenonT(30) DEF LabourInv, Linking, Building
<1>9. ReadyQueues'
  <2> SUFFICES ASSUME NEW r \in Heads
               PROVE  IsList(list', r, Ready(r)')
    BY DEF ReadyQueues, Heads
  <2>1. IsList(list, r, Ready(r)) /\ Ready(r)' = Ready(r)
    BY <1>2, <1>5, <1>6 DEF ReadyQueues
  <2>2. \A n \in Ready(r) \cup {r} : n \in Node \ {c}
    BY <1>1, <1>3, <1>5, Members, NodeFacts
  <2> QED
    BY <1>4, <2>1, <2>2, SameRing
<1>10. ZombieList'
  <2>1. IsList(list, OS_DeadList, Zombie)
    BY <1>2, NodeFacts DEF ZombieList, Unlinking, Reclaiming
  <2>2. \A n \in Zombie \cup {OS_DeadList} : n \in Node \ {c}
    BY <1>1, <1>3, <1>5, Members, NodeFacts
  <2>3. IsList(list', OS_DeadList, Zombie)
    BY <1>4, <2>1, <2>2, SameRing
  <2> QED
    BY <1>5, <2>3 DEF ZombieList
<1>11. StoreInv' /\ MergeInv'
  BY <1>3, <1>4, ZenonT(30) DEF StoreInv, MergeInv, Linking
<1>12. ReapInv'
  <2>1. pc'[Idle] \notin Reclaiming
    BY <1>3, <1>4, NodeFacts DEF Reclaiming
  <2> QED
    BY <2>1 DEF ReapInv, Reclaiming
<1>13. Bitmap'
  BY <1>2, <1>3, <1>5, <1>6 DEF Bitmap
<1>14. RunsAThread' /\ UrgentInv'
  BY <1>2, <1>3, <1>4, <1>5 DEF RunsAThread, UrgentInv
<1>15. LiveChain'
  BY <1>2, <1>3, <1>4, <1>5, ZenonT(30) DEF LiveChain, OnLive
<1>16. RegisterInv'
  <2>1. ~OnLive(c)
    BY <1>2, <1>3 DEF LiveChain, Alive
  <2>2. \A u \in Tcb : pc'[u] \in Building => u = t
    BY <1>4 DEF Building, Linking
  <2>3. ~OnLive(c)'
    BY <1>3, <2>1 DEF OnLive
  <2> QED
    BY <1>3, <1>4, <2>2, <2>3 DEF RegisterInv, Building
<1> QED
  BY <1>1, <1>4, <1>5, <1>7, <1>8, <1>9, <1>10, <1>11, <1>12, <1>13, <1>14, <1>15, <1>16

\* A careful thread calls labour while nothing can preempt it.
LEMMA AppLabourSafe ==
  ASSUME CoreInv, Careful = Disciplines,
         NEW t \in Threads, NEW c \in Threads, NEW p \in Levels, AppLabour(t, c, p)
  PROVE  CoreInv'
<1>1. CoreInv => TypeInv'
  <2>1. Next
    BY DEF Next, ThreadStep
  <2> QED
    BY <2>1, NextTypeInv DEF CoreInv
<1>2. /\ Calls(t) /\ Quiet(t) /\ p # ConsolePrio /\ \A u \in Tcb : timer[u] = "off"
      /\ LabourCall(t, c, p) /\ UNCHANGED <<boot, console>>
  BY DEF AppLabour, Disciplines
<1>3. /\ \A u \in Tcb : pc[u] \notin Linking \cup Reclaiming
      /\ pc[Idle] \in {"run", "merged"}
      /\ t \in Tcb /\ OS_This = t /\ ~pend /\ pc[t] = "run" /\ t # Idle
  BY <1>2, QuietFacts
<1>4. /\ TypeInv' /\ IdleInv' /\ LabourInv'
      /\ ReadyQueues' /\ StoreInv' /\ Bitmap' /\ MergeInv'
      /\ RunsAThread' /\ UrgentInv' /\ ZombieList' /\ ReapInv'
      /\ LiveChain' /\ RegisterInv'
      /\ \A u \in Tcb : pc'[u] # pc[u] => u \in {t, c}
  BY <1>1, <1>2, <1>3, LabourCallSafe
<1>5. TypeInv /\ BootInv
  BY DEF CoreInv
<1>6. /\ c # t /\ pc'[c] = "new" /\ OS_This' = t /\ ~pend'
      /\ timer' = [timer EXCEPT ![c] = "off"]
      /\ Priority' = [Priority EXCEPT ![c] = p]
  BY <1>2, <1>3, <1>5, NodeFacts DEF LabourCall, TypeInv, TypeOK
<1>7. \A u \in Tcb \ {t} : pc'[u] \notin Linking \cup Reclaiming
  BY <1>3, <1>4, <1>6 DEF Linking, Reclaiming
<1>8. ExclusiveInv'
  BY <1>2, <1>5, <1>6, <1>7, NodeFacts DEF ExclusiveInv, Quiet, TypeInv, TypeOK
<1>9. PrivateInv'
  BY <1>3, <1>7, NodeFacts DEF PrivateInv
<1>10. BootInv'
  BY <1>2, <1>3, <1>4, <1>5, <1>6, NodeFacts DEF BootInv, TypeInv, TypeOK
<1> QED
  BY <1>4, <1>8, <1>9, <1>10 DEF CoreInv

\* idle calls labour for a level at which nobody else is, and below which nobody
\* else is.
LEMMA IdleLabourSafe ==
  ASSUME CoreInv, NEW c \in Threads, IdleLabour(c)
  PROVE  CoreInv'
<1>1. CoreInv => TypeInv'
  <2>1. Next
    BY DEF Next
  <2> QED
    BY <2>1, NextTypeInv DEF CoreInv
<1>2. /\ OS_This = Idle /\ ~pend /\ pc[Idle] = "run" /\ Idle \in Tcb
      /\ boot # "done"
  BY NodeFacts DEF IdleLabour, Running
<1>3. PICK p \in Levels : /\ LabourCall(Idle, c, p)
                          /\ boot = "main" => p = MainPrio /\ boot' = "console"
                          /\ boot = "console" => p = ConsolePrio /\ boot' = "done"
  BY NodeFacts DEF IdleLabour
<1>4. TypeInv /\ BootInv /\ ExclusiveInv /\ Bitmap /\ IdleInv
  BY DEF CoreInv
<1>5. \A u \in Tcb : pc[u] \notin Linking \cup Reclaiming
  BY <1>2, <1>4, NoAppLabour DEF Linking, Reclaiming, IdleInv, Tcb
<1>6. /\ TypeInv' /\ IdleInv' /\ LabourInv'
      /\ ReadyQueues' /\ StoreInv' /\ Bitmap' /\ MergeInv'
      /\ RunsAThread' /\ UrgentInv' /\ ZombieList' /\ ReapInv'
      /\ LiveChain' /\ RegisterInv'
      /\ \A u \in Tcb : pc'[u] # pc[u] => u \in {Idle, c}
      /\ \A u \in Tcb : Alive(u)' <=> Alive(u)
  BY <1>1, <1>2, <1>3, <1>5, LabourCallSafe
<1>7. /\ c # Idle /\ pc[c] = "free" /\ pc'[c] = "new" /\ OS_This' = Idle
      /\ child'[Idle] = c /\ Priority'[c] = p
      /\ \A u \in Threads \ {c} : Priority'[u] = Priority[u]
      /\ OS_ActivePrio' = OS_ActivePrio
  BY <1>2, <1>3, <1>4, NodeFacts DEF LabourCall, TypeInv, TypeOK
<1>8. \A u \in Threads : pc'[u] \notin Linking
  BY <1>5, <1>6, <1>7, NodeFacts DEF Linking
<1>9. \A u \in Threads : Alive(u) => boot = "console" /\ Priority[u] # ConsolePrio
  BY <1>2, <1>4 DEF BootInv, Alive, TypeInv, TypeOK
<1>10. p \notin OS_ActivePrio
  <2>1. \A u \in Ready(p) : u \in Threads /\ Alive(u) /\ Priority[u] = p
    BY <1>4, NodeFacts DEF Ready, Tcb, IdleInv
  <2>2. Ready(p) = {}
    BY <1>3, <1>9, <2>1
  <2> QED
    BY <1>4, <2>2 DEF Bitmap
<1>11. \A u \in Threads : Alive(u) => Priority[u] < p
  <2> SUFFICES ASSUME NEW u \in Threads, Alive(u)
               PROVE  Priority[u] < p
    OBVIOUS
  <2>1. p = 31 /\ Priority[u] # 31 /\ Priority[u] \in Levels
    BY <1>3, <1>4, <1>9 DEF ConsolePrio, TypeInv, TypeOK
  <2>2. Priority[u] \in 0..31
    BY <2>1, KernelAssumption
  <2> QED
    BY <2>1, <2>2
<1>12. ExclusiveInv'
  BY <1>8 DEF ExclusiveInv
<1>13. PrivateInv'
  BY <1>6, <1>7, <1>10, <1>11, NodeFacts DEF PrivateInv
<1>14. BootInv'
  <2>1. CASE boot = "main"
    <3>1. \A u \in Threads : pc'[u] # "free" => Priority'[u] # ConsolePrio
      BY <1>3, <1>4, <1>6, <1>7, <2>1, NodeFacts DEF BootInv, MainPrio, ConsolePrio
    <3> QED
      BY <1>3, <2>1, <3>1 DEF BootInv
  <2>2. CASE boot = "console"
    BY <1>3, <2>2 DEF BootInv
  <2> QED
    BY <1>2, <1>4, <2>1, <2>2 DEF TypeInv, TypeOK
<1> QED
  BY <1>6, <1>12, <1>13, <1>14 DEF CoreInv

\* idle goes on when its labour finds no memory.
LEMMA IdleLabourFailsSafe ==
  ASSUME CoreInv, IdleLabourFails
  PROVE  CoreInv'
<1>1. TypeInv /\ TypeInv'
  <2>1. Next
    BY DEF Next
  <2> QED
    BY <2>1, NextTypeInv DEF CoreInv
<1>2. /\ IdleInv /\ LabourInv /\ ExclusiveInv /\ PrivateInv /\ BootInv
      /\ ReadyQueues /\ StoreInv /\ Bitmap /\ MergeInv
      /\ RunsAThread /\ UrgentInv /\ ZombieList /\ ReapInv
      /\ LiveChain /\ RegisterInv
  BY DEF CoreInv
<1>3. /\ boot' = IF boot = "main" THEN "console" ELSE "done"
      /\ UNCHANGED <<list, OS_ActivePrio, OS_This, live, pend, pc, reap, Priority, timer, console,
                     level, child, tail, first, bits>>
  BY DEF IdleLabourFails, threadVars, labourVars
<1>4. /\ \A r : Ready(r)' = Ready(r) /\ (Storing(r)' <=> Storing(r)) /\ (Merging(r)' <=> Merging(r))
      /\ Zombie' = Zombie
      /\ \A u : (Alive(u)' <=> Alive(u)) /\ (Quiet(u)' <=> Quiet(u)) /\ (OnLive(u)' <=> OnLive(u))
  BY <1>3 DEF Ready, Storing, Merging, Zombie, Alive, Quiet, OnLive
<1>5. IdleInv' /\ LabourInv' /\ ExclusiveInv' /\ PrivateInv'
  BY <1>2, <1>3, <1>4 DEF IdleInv, LabourInv, ExclusiveInv, PrivateInv
<1>6. BootInv'
  BY <1>2, <1>3 DEF BootInv
<1>7. ReadyQueues' /\ StoreInv' /\ Bitmap' /\ MergeInv'
  BY <1>2, <1>3, <1>4 DEF ReadyQueues, StoreInv, Bitmap, MergeInv
<1>8. RunsAThread' /\ UrgentInv' /\ ZombieList' /\ ReapInv'
  BY <1>2, <1>3, <1>4 DEF RunsAThread, UrgentInv, ZombieList, ReapInv
<1>9. LiveChain' /\ RegisterInv'
  BY <1>2, <1>3, <1>4 DEF LiveChain, RegisterInv
<1> QED
  BY <1>1, <1>5, <1>6, <1>7, <1>8, <1>9 DEF CoreInv

\* Whoever executes inside labour is alone there, and idle is not reclaiming.
LEMMA LabourFacts ==
  ASSUME CoreInv, NEW t \in Tcb, Running(t), pc[t] \in Linking
  PROVE  /\ OS_This = t /\ ~pend
         /\ child[t] \in Threads /\ child[t] # t /\ Priority[child[t]] \in Levels
         /\ \A u \in Tcb \ {t} : pc[u] \notin Linking \cup Reclaiming
         /\ pc[Idle] \notin Reclaiming
         /\ t \in Ready(Priority[t])
         /\ IsList(list, OS_DeadList, Zombie)
         /\ \A p \in Heads : p # Priority[child[t]] => IsList(list, p, Ready(p))
<1>1. /\ TypeInv /\ IdleInv /\ LabourInv /\ ExclusiveInv
      /\ RunsAThread /\ ReadyQueues /\ ZombieList
  BY DEF CoreInv
<1>2. OS_This = t /\ ~pend
  BY DEF Running
<1>3. child[t] \in Threads /\ child[t] # t /\ Priority[child[t]] \in Levels
  BY <1>1 DEF TypeInv, TypeOK, LabourInv
<1>4. \A u \in Tcb \ {t} : pc[u] \notin Linking \cup Reclaiming
  <2>1. CASE t = Idle
    BY <1>1, <1>2, <2>1, NoAppLabour DEF IdleInv, Tcb
  <2>2. CASE t # Idle
    BY <1>1, <2>2 DEF ExclusiveInv, Quiet, Tcb
  <2> QED
    BY <2>1, <2>2
<1>5. pc[Idle] \notin Reclaiming
  BY <1>4, NodeFacts DEF Linking, Reclaiming
<1>6. t \in Ready(Priority[t])
  BY <1>1, <1>2 DEF RunsAThread, Linking
<1>7. IsList(list, OS_DeadList, Zombie)
  BY <1>1, <1>5 DEF ZombieList, Unlinking, Reclaiming
<1>8. \A p : p # Priority[child[t]] => ~Storing(p)
  BY <1>4 DEF Storing, Linking
<1> QED
  BY <1>1, <1>2, <1>3, <1>4, <1>5, <1>6, <1>7, <1>8 DEF ReadyQueues

\* What a step inside labour keeps whatever it stores.
LEMMA LabourKept ==
  ASSUME CoreInv, TypeInv', NEW t \in Tcb, NEW x \in Linking, Running(t), pc[t] \in Linking,
         pc' = [pc EXCEPT ![t] = x],
         pc[t] \in Building <=> x \in Building,
         UNCHANGED <<OS_ActivePrio, OS_This, Priority, timer, pend, boot, console, child, reap>>
  PROVE  /\ IdleInv' /\ LabourInv' /\ ExclusiveInv' /\ PrivateInv' /\ BootInv'
         /\ RunsAThread' /\ UrgentInv' /\ ReapInv'
         /\ \A p : Ready(p)' = Ready(p)
         /\ Zombie' = Zombie
         /\ \A u \in Tcb : Alive(u)' <=> Alive(u)
         /\ \A u \in Tcb \ {t} : pc'[u] = pc[u]
         /\ pc'[t] = x
<1>1. /\ TypeInv /\ IdleInv /\ LabourInv /\ ExclusiveInv /\ PrivateInv /\ BootInv
      /\ RunsAThread /\ UrgentInv
  BY DEF CoreInv
<1>2. /\ OS_This = t /\ ~pend /\ child[t] \in Threads /\ child[t] # t
      /\ \A u \in Tcb \ {t} : pc[u] \notin Linking \cup Reclaiming
      /\ pc[Idle] \notin Reclaiming
      /\ t \in Ready(Priority[t])
  BY LabourFacts
<1>3. /\ \A u \in Tcb \ {t} : pc'[u] = pc[u]
      /\ pc'[t] = x
  BY <1>1 DEF TypeInv, TypeOK
<1>4. /\ \A p : Ready(p)' = Ready(p)
      /\ Zombie' = Zombie
      /\ \A u \in Tcb : Alive(u)' <=> Alive(u)
  BY <1>3 DEF Ready, Zombie, Alive, Linking
<1>5. IdleInv'
  BY <1>1, <1>3, NodeFacts DEF IdleInv, Linking, Reclaiming
<1>6. LabourInv'
  <2> SUFFICES ASSUME NEW u \in Tcb, pc'[u] \in Linking
               PROVE  /\ child'[u] # u
                      /\ pc'[u] \in Building => pc'[child'[u]] = "new"
                      /\ pc'[u] \in {"linked", "merging"} => pc'[child'[u]] = "run"
    BY DEF LabourInv, Linking, Building
  <2>1. u = t
    BY <1>2, <1>3
  <2>2. pc'[child[t]] = pc[child[t]]
    BY <1>2, <1>3, NodeFacts
  <2> QED
    BY <1>1, <1>2, <1>3, <2>1, <2>2 DEF LabourInv, Linking, Building
<1>7. ExclusiveInv'
  <2> SUFFICES ASSUME NEW u \in Threads, pc'[u] \in Linking
               PROVE  /\ OS_This' = u /\ ~pend' /\ Quiet(u)'
                      /\ \A v \in Tcb : timer'[v] = "off"
    BY DEF ExclusiveInv
  <2>1. u = t
    BY <1>2, <1>3, NodeFacts
  <2>2. Quiet(t)'
    BY <1>2, <1>3 DEF Quiet
  <2> QED
    BY <1>1, <1>2, <2>1, <2>2 DEF ExclusiveInv
<1>8. PrivateInv'
  BY <1>1, <1>2, <1>3, <1>4, NodeFacts DEF PrivateInv
<1>9. BootInv'
  BY <1>1, <1>3, NodeFacts DEF BootInv, Linking
<1>10. RunsAThread' /\ UrgentInv'
  BY <1>1, <1>2, <1>3, <1>4 DEF RunsAThread, UrgentInv, Linking
<1>11. ReapInv'
  <2>1. pc'[Idle] \notin Reclaiming
    BY <1>2, <1>3, NodeFacts DEF Reclaiming, Linking
  <2> QED
    BY <2>1 DEF ReapInv, Reclaiming
<1> QED
  BY <1>3, <1>4, <1>5, <1>6, <1>7, <1>8, <1>9, <1>10, <1>11

\* The block thread_register found is still the last of the chain.
LEMMA RegisterSafe ==
  ASSUME CoreInv, NEW t \in Tcb, Register(t)
  PROVE  CoreInv'
<1>1. TypeInv /\ TypeInv'
  <2>1. Next
    BY DEF Next, LabourStep
  <2> QED
    BY <2>1, NextTypeInv DEF CoreInv
<1>2. /\ IdleInv /\ LabourInv /\ ExclusiveInv /\ PrivateInv /\ BootInv
      /\ ReadyQueues /\ StoreInv /\ Bitmap /\ MergeInv
      /\ RunsAThread /\ UrgentInv /\ ZombieList /\ ReapInv
      /\ LiveChain /\ RegisterInv
  BY DEF CoreInv
<1>3. /\ Running(t) /\ pc[t] = "walked" /\ pc' = [pc EXCEPT ![t] = "registered"]
      /\ UNCHANGED <<list, OS_ActivePrio, OS_This, pend, boot, reap, Priority, timer, console,
                     level, child, tail, first, bits>>
  BY DEF Register, threadVars, labourVars
<1>4. /\ "registered" \in Linking /\ "walked" \in Linking
      /\ "registered" \in Building /\ "walked" \in Building
  BY DEF Linking, Building
<1>5. /\ IdleInv' /\ LabourInv' /\ ExclusiveInv' /\ PrivateInv' /\ BootInv'
      /\ RunsAThread' /\ UrgentInv' /\ ReapInv'
      /\ \A p : Ready(p)' = Ready(p)
      /\ Zombie' = Zombie
      /\ \A u \in Tcb : Alive(u)' <=> Alive(u)
      /\ \A u \in Tcb \ {t} : pc'[u] = pc[u]
      /\ pc'[t] = "registered"
  BY <1>1, <1>3, <1>4, LabourKept
<1>6. /\ child[t] \in Threads /\ child[t] # t
      /\ \A u \in Tcb \ {t} : pc[u] \notin Linking \cup Reclaiming
  BY <1>3, <1>4, LabourFacts
<1>7. \A p : (Storing(p)' <=> Storing(p)) /\ (Merging(p)' <=> Merging(p))
  BY <1>3, <1>5 DEF Storing, Merging
<1>8. ReadyQueues' /\ Bitmap' /\ ZombieList'
  BY <1>2, <1>3, <1>5, <1>7, NodeFacts DEF ReadyQueues, Bitmap, ZombieList, Unlinking
<1>9. StoreInv' /\ MergeInv'
  <2>1. \A u \in Tcb : pc'[u] \notin {"add1", "add2", "add3", "merging"}
    BY <1>5, <1>6 DEF Linking
  <2> QED
    BY <2>1 DEF StoreInv, MergeInv
<1>10. PICK n \in Nat : n = Len(live) /\ n >= 1 /\ live \in Seq(Tcb)
  BY <1>1 DEF TypeInv, TypeOK
<1>11. tail[t] = live[n] /\ ~OnLive(child[t])
  BY <1>2, <1>3, <1>10 DEF RegisterInv
<1>12. OnLive(tail[t])
  BY <1>10, <1>11 DEF OnLive
<1>13. live' = Append(live, child[t])
  <2> DEFINE k == CHOOSE i \in 1..Len(live) : live[i] = tail[t]
  <2>1. live' = Append(SubSeq(live, 1, k), child[t])
    BY <1>12 DEF Register
  <2>2. k \in 1..n /\ live[k] = live[n]
    BY <1>10, <1>11, <1>12 DEF OnLive
  <2> HIDE DEF k
  <2>3. k = n
    BY <1>2, <1>10, <2>2 DEF LiveChain
  <2>4. SubSeq(live, 1, n) = live
    BY <1>10
  <2> QED
    BY <2>1, <2>3, <2>4
<1>14. /\ Len(live') = n + 1 /\ live'[n + 1] = child[t]
       /\ \A i \in 1..n : live'[i] = live[i]
  BY <1>10, <1>13, <1>6
<1>15. \A u : OnLive(u)' <=> OnLive(u) \/ u = child[t]
  <2>1. \A i \in 1..(n + 1) : i \in 1..n \/ i = n + 1
    OBVIOUS
  <2> QED
    BY <1>10, <1>14, <2>1 DEF OnLive
<1>16. LiveChain'
  <2>1. \A i, j \in 1..Len(live') : live'[i] = live'[j] => i = j
    <3>1. \A i \in 1..n : live[i] # child[t]
      BY <1>10, <1>11 DEF OnLive
    <3>2. \A i \in 1..(n + 1) : i \in 1..n \/ i = n + 1
      OBVIOUS
    <3>3. \A i, j \in 1..n : live[i] = live[j] => i = j
      BY <1>2, <1>10 DEF LiveChain
    <3> QED
      BY <1>14, <3>1, <3>2, <3>3
  <2>2. pc'[child[t]] = "new"
    BY <1>2, <1>3, <1>4, <1>5, <1>6, NodeFacts DEF LabourInv
  <2>3. ASSUME NEW u \in Tcb
        PROVE  /\ Alive(u)' => OnLive(u)'
               /\ OnLive(u)' => Alive(u)' \/ pc'[u] = "new"
    <3>1. Alive(t) /\ Alive(t)'
      BY <1>3, <1>5 DEF Alive
    <3> QED
      BY <1>2, <1>5, <1>15, <2>2, <3>1 DEF LiveChain
  <2> QED
    BY <2>1, <2>3 DEF LiveChain
<1>17. RegisterInv'
  <2>1. \A u \in Tcb : pc'[u] \in Building => u = t
    BY <1>5, <1>6 DEF Building, Linking
  <2> QED
    BY <1>3, <1>5, <1>15, <2>1 DEF RegisterInv, Building
<1> QED
  BY <1>1, <1>5, <1>8, <1>9, <1>16, <1>17 DEF CoreInv

\* list_add starts from the head's neighbour.
LEMMA LoadFirstSafe ==
  ASSUME CoreInv, NEW t \in Tcb, LoadFirst(t)
  PROVE  CoreInv'
<1>1. TypeInv /\ TypeInv'
  <2>1. Next
    BY DEF Next, LabourStep
  <2> QED
    BY <2>1, NextTypeInv DEF CoreInv
<1>2. /\ IdleInv /\ LabourInv /\ ExclusiveInv /\ PrivateInv /\ BootInv
      /\ ReadyQueues /\ StoreInv /\ Bitmap /\ MergeInv
      /\ RunsAThread /\ UrgentInv /\ ZombieList /\ ReapInv
      /\ LiveChain /\ RegisterInv
  BY DEF CoreInv
<1>3. /\ Running(t) /\ pc[t] = "registered" /\ pc' = [pc EXCEPT ![t] = "add1"]
      /\ first' = [first EXCEPT ![t] = list[Priority[child[t]]].next]
      /\ UNCHANGED <<list, OS_ActivePrio, OS_This, live, pend, boot, reap, Priority, timer, console,
                     level, child, tail, bits>>
  BY DEF LoadFirst, threadVars
<1>4. /\ "registered" \in Linking /\ "add1" \in Linking
      /\ "registered" \in Building /\ "add1" \in Building
  BY DEF Linking, Building
<1>5. /\ IdleInv' /\ LabourInv' /\ ExclusiveInv' /\ PrivateInv' /\ BootInv'
      /\ RunsAThread' /\ UrgentInv' /\ ReapInv'
      /\ \A p : Ready(p)' = Ready(p)
      /\ Zombie' = Zombie
      /\ \A u \in Tcb : Alive(u)' <=> Alive(u)
      /\ \A u \in Tcb \ {t} : pc'[u] = pc[u]
      /\ pc'[t] = "add1"
  BY <1>1, <1>3, <1>4, LabourKept
<1>6. \A u \in Tcb \ {t} : pc[u] \notin Linking \cup Reclaiming
  BY <1>3, <1>4, LabourFacts
<1>7. \A p : (Storing(p)' <=> Storing(p)) /\ (Merging(p)' <=> Merging(p))
  BY <1>3, <1>5 DEF Storing, Merging
<1>8. ReadyQueues' /\ Bitmap' /\ ZombieList'
  BY <1>2, <1>3, <1>5, <1>7, NodeFacts DEF ReadyQueues, Bitmap, ZombieList, Unlinking
<1>9. StoreInv' /\ MergeInv'
  <2>1. \A u \in Tcb : pc'[u] \in {"add1", "add2", "add3", "merging"} => u = t /\ pc'[u] = "add1"
    BY <1>5, <1>6 DEF Linking
  <2>2. first'[t] = list'[Priority'[child'[t]]].next
    BY <1>1, <1>3 DEF TypeInv, TypeOK
  <2> QED
    BY <2>1, <2>2 DEF StoreInv, MergeInv
<1>10. LiveChain' /\ RegisterInv'
  <2>1. \A u : OnLive(u)' <=> OnLive(u)
    BY <1>3 DEF OnLive
  <2>2. \A u \in Tcb : pc'[u] = "new" <=> pc[u] = "new"
    BY <1>3, <1>5
  <2>3. LiveChain'
    BY <1>2, <1>3, <1>5, <2>1, <2>2 DEF LiveChain
  <2>4. \A u \in Tcb : pc'[u] \in Building => u = t
    BY <1>5, <1>6 DEF Building, Linking
  <2> QED
    BY <1>2, <1>3, <1>4, <1>5, <2>1, <2>3, <2>4 DEF RegisterInv, Building
<1> QED
  BY <1>1, <1>5, <1>8, <1>9, <1>10 DEF CoreInv

\* The bitmap labour reads is the one it will store.
LEMMA LoadBitsSafe ==
  ASSUME CoreInv, NEW t \in Tcb, LoadBits(t)
  PROVE  CoreInv'
<1>1. TypeInv /\ TypeInv'
  <2>1. Next
    BY DEF Next, LabourStep
  <2> QED
    BY <2>1, NextTypeInv DEF CoreInv
<1>2. /\ IdleInv /\ LabourInv /\ ExclusiveInv /\ PrivateInv /\ BootInv
      /\ ReadyQueues /\ StoreInv /\ Bitmap /\ MergeInv
      /\ RunsAThread /\ UrgentInv /\ ZombieList /\ ReapInv
      /\ LiveChain /\ RegisterInv
  BY DEF CoreInv
<1>3. /\ Running(t) /\ pc[t] = "linked" /\ pc' = [pc EXCEPT ![t] = "merging"]
      /\ bits' = [bits EXCEPT ![t] = OS_ActivePrio]
      /\ UNCHANGED <<list, OS_ActivePrio, OS_This, live, pend, boot, reap, Priority, timer, console,
                     level, child, tail, first>>
  BY DEF LoadBits, threadVars
<1>4. /\ "linked" \in Linking /\ "merging" \in Linking
      /\ "linked" \notin Building /\ "merging" \notin Building
  BY DEF Linking, Building
<1>5. /\ IdleInv' /\ LabourInv' /\ ExclusiveInv' /\ PrivateInv' /\ BootInv'
      /\ RunsAThread' /\ UrgentInv' /\ ReapInv'
      /\ \A p : Ready(p)' = Ready(p)
      /\ Zombie' = Zombie
      /\ \A u \in Tcb : Alive(u)' <=> Alive(u)
      /\ \A u \in Tcb \ {t} : pc'[u] = pc[u]
      /\ pc'[t] = "merging"
  BY <1>1, <1>3, <1>4, LabourKept
<1>6. /\ OS_This = t /\ ~pend
      /\ \A u \in Tcb \ {t} : pc[u] \notin Linking \cup Reclaiming
  BY <1>3, <1>4, LabourFacts
<1>7. \A p : (Storing(p)' <=> Storing(p)) /\ (Merging(p)' <=> Merging(p))
  BY <1>3, <1>5 DEF Storing, Merging
<1>8. ReadyQueues' /\ Bitmap' /\ ZombieList'
  BY <1>2, <1>3, <1>5, <1>7, NodeFacts DEF ReadyQueues, Bitmap, ZombieList, Unlinking
<1>9. t = Idle => OS_ActivePrio = {}
  <2> SUFFICES ASSUME t = Idle, NEW p \in OS_ActivePrio
               PROVE  FALSE
    OBVIOUS
  <2>1. 32 <= p
    BY <1>2, <1>3, <1>6 DEF UrgentInv, IdleInv, IdlePrio
  <2>2. p \in 0..31
    BY <1>1, KernelAssumption DEF TypeInv, TypeOK
  <2> QED
    BY <2>1, <2>2
<1>10. StoreInv' /\ MergeInv'
  <2>1. \A u \in Tcb : pc'[u] \in {"add1", "add2", "add3", "merging"} => u = t /\ pc'[u] = "merging"
    BY <1>5, <1>6 DEF Linking
  <2>2. bits'[t] = OS_ActivePrio
    BY <1>1, <1>3 DEF TypeInv, TypeOK
  <2> QED
    BY <1>3, <1>9, <2>1, <2>2 DEF StoreInv, MergeInv
<1>11. LiveChain' /\ RegisterInv'
  <2>1. \A u : OnLive(u)' <=> OnLive(u)
    BY <1>3 DEF OnLive
  <2>2. \A u \in Tcb : pc'[u] = "new" <=> pc[u] = "new"
    BY <1>3, <1>5
  <2>3. LiveChain'
    BY <1>2, <1>3, <1>5, <2>1, <2>2 DEF LiveChain
  <2>4. \A u \in Tcb : pc'[u] \notin Building
    BY <1>5, <1>6 DEF Building, Linking
  <2> QED
    BY <2>3, <2>4 DEF RegisterInv, Building
<1> QED
  BY <1>1, <1>5, <1>8, <1>10, <1>11 DEF CoreInv

\* The first store of list_add: the old first entry points back at the new one.
LEMMA FirstStoreSafe ==
  ASSUME CoreInv, NEW t \in Tcb, Link(t), pc[t] = "add1"
  PROVE  CoreInv'
<1>1. TypeInv /\ TypeInv'
  <2>1. Next
    BY DEF Next, LabourStep
  <2> QED
    BY <2>1, NextTypeInv DEF CoreInv
<1>2. /\ IdleInv /\ LabourInv /\ ExclusiveInv /\ PrivateInv /\ BootInv
      /\ ReadyQueues /\ StoreInv /\ Bitmap /\ MergeInv
      /\ RunsAThread /\ UrgentInv /\ ZombieList /\ ReapInv
      /\ LiveChain /\ RegisterInv
  BY DEF CoreInv
<1>3. /\ Running(t) /\ pc[t] = "add1" /\ pc' = [pc EXCEPT ![t] = "add2"]
      /\ UNCHANGED <<OS_ActivePrio, OS_This, live, pend, boot, reap, Priority, timer, console,
                     level, child, tail, first, bits>>
  BY DEF Link, LinkStores, threadVars, labourVars
<1>4. /\ "add1" \in Linking /\ "add2" \in Linking
      /\ "add1" \in Building /\ "add2" \in Building
  BY DEF Linking, Building
<1>5. /\ IdleInv' /\ LabourInv' /\ ExclusiveInv' /\ PrivateInv' /\ BootInv'
      /\ RunsAThread' /\ UrgentInv' /\ ReapInv'
      /\ \A p : Ready(p)' = Ready(p)
      /\ Zombie' = Zombie
      /\ \A u \in Tcb : Alive(u)' <=> Alive(u)
      /\ \A u \in Tcb \ {t} : pc'[u] = pc[u]
      /\ pc'[t] = "add2"
  BY <1>1, <1>3, <1>4, LabourKept
<1>6. /\ child[t] \in Threads /\ child[t] # t /\ Priority[child[t]] \in Levels
      /\ \A u \in Tcb \ {t} : pc[u] \notin Linking \cup Reclaiming
      /\ pc[Idle] \notin Reclaiming
      /\ IsList(list, OS_DeadList, Zombie)
      /\ \A p \in Heads : p # Priority[child[t]] => IsList(list, p, Ready(p))
  BY <1>3, <1>4, LabourFacts
<1>7. PICK c \in Threads, h \in Levels : c = child[t] /\ h = Priority[child[t]]
  BY <1>6
<1>8. /\ c \in Tcb /\ c \in Node /\ h \in Heads /\ h \in Node /\ c # h
      /\ pc[c] = "new" /\ list \in Links(Node) /\ list' \in Links(Node)
  BY <1>1, <1>2, <1>3, <1>4, <1>7, NodeFacts DEF LabourInv, TypeInv, TypeOK
<1>9. c \notin Zombie /\ \A p : c \notin Ready(p)
  BY <1>8 DEF Ready, Zombie, Alive
<1>10. /\ IsList(list, h, Ready(h))
       /\ first[t] = list[h].next /\ first[t] \in Ready(h) \cup {h}
       /\ list' = [list EXCEPT ![first[t]].prev = c]
  <2>1. ~Storing(h)
    BY <1>3, <1>6 DEF Storing, Linking
  <2>2. IsList(list, h, Ready(h))
    BY <1>2, <1>8, <2>1 DEF ReadyQueues
  <2>3. first[t] = list[h].next
    BY <1>2, <1>3, <1>7 DEF StoreInv
  <2>4. list[h].next \in Ready(h) \cup {h}
    BY <2>2 DEF IsList, Linked
  <2> QED
    BY <1>3, <1>7, <2>2, <2>3, <2>4 DEF Link, LinkStores
<1>11. \A n \in Node \ (Ready(h) \cup {h}) : list'[n] = list[n]
  BY <1>8, <1>10 DEF Links
<1>12. /\ first[t] \in Ready(h) \cup {h}
       /\ IsList(__list_add(list', c, h, first[t]), h, Ready(h) \cup {c})
       /\ list'[first[t]].prev = c
  <2>1. first[t] \in Node /\ c # first[t]
    BY <1>1, <1>8, <1>9, <1>10, Members
  <2>2. IsList(__list_add(list, c, h, first[t]), h, Ready(h) \cup {c})
    <3>1. IsList(list_add(list, c, h), h, Ready(h) \cup {c})
      BY <1>1, <1>8, <1>9, <1>10, AddKeepsList, Members
    <3> QED
      BY <1>10, <3>1 DEF list_add
  <2>3. IsList(__list_add(list', c, h, first[t]), h, Ready(h) \cup {c})
    <3>1. PICK f \in Node : f = first[t]
      BY <2>1
    <3>2. __list_add([list EXCEPT ![f].prev = c], c, h, f) = __list_add(list, c, h, f)
      BY <1>8, <2>1, <3>1 DEF __list_add, Links
    <3> QED
      BY <1>10, <2>2, <3>1, <3>2
  <2>4. list'[first[t]].prev = c
    BY <1>8, <1>10, <2>1 DEF Links
  <2> QED
    BY <1>10, <2>3, <2>4
<1>20. \A u \in Tcb : pc'[u] \in Linking => u = t
  BY <1>5, <1>6
<1>21. ReadyQueues'
  <2> SUFFICES ASSUME NEW p \in Heads, p # h
               PROVE  IsList(list', p, Ready(p))
    <3>1. Storing(h)'
      BY <1>3, <1>5, <1>7 DEF Storing
    <3> QED
      BY <1>5, <3>1 DEF ReadyQueues, Heads
  <2>1. \A n \in Ready(p) \cup {p} : n \in Node \ (Ready(h) \cup {h})
    BY <1>1, <1>8, <1>9, Members, NodeFacts
  <2> QED
    BY <1>6, <1>7, <1>11, <2>1, SameRing
<1>22. ZombieList'
  <2>1. \A n \in Zombie \cup {OS_DeadList} : n \in Node \ (Ready(h) \cup {h})
    BY <1>1, <1>8, <1>9, Members, NodeFacts
  <2>2. IsList(list', OS_DeadList, Zombie)
    BY <1>6, <1>11, <2>1, SameRing
  <2> QED
    BY <1>5, <2>2 DEF ZombieList
<1>23. Bitmap'
  <2>1. \A p : Merging(p)' <=> Merging(p)
    BY <1>3, <1>5 DEF Merging
  <2> QED
    BY <1>2, <1>3, <1>5, <2>1 DEF Bitmap
<1>24. MergeInv'
  BY <1>5, <1>20 DEF MergeInv, Linking
<1>25. StoreInv'
  BY <1>3, <1>5, <1>7, <1>12, <1>20 DEF StoreInv, Linking
<1>26. LiveChain' /\ RegisterInv'
  <2>1. \A u : OnLive(u)' <=> OnLive(u)
    BY <1>3 DEF OnLive
  <2>2. \A u \in Tcb : pc'[u] = "new" <=> pc[u] = "new"
    BY <1>3, <1>5
  <2>3. LiveChain'
    BY <1>2, <1>3, <1>5, <2>1, <2>2 DEF LiveChain
  <2> QED
    BY <1>2, <1>3, <1>4, <1>5, <1>20, <2>1, <2>3 DEF RegisterInv, Building, Linking
<1> QED
  BY <1>1, <1>5, <1>21, <1>22, <1>23, <1>24, <1>25, <1>26 DEF CoreInv

\* The second and third stores of list_add: the new entry gets its neighbours.
LEMMA MiddleStoreSafe ==
  ASSUME CoreInv, NEW t \in Tcb, Link(t), pc[t] = "add2"
  PROVE  CoreInv'
<1>1. TypeInv /\ TypeInv'
  <2>1. Next
    BY DEF Next, LabourStep
  <2> QED
    BY <2>1, NextTypeInv DEF CoreInv
<1>2. /\ IdleInv /\ LabourInv /\ ExclusiveInv /\ PrivateInv /\ BootInv
      /\ ReadyQueues /\ StoreInv /\ Bitmap /\ MergeInv
      /\ RunsAThread /\ UrgentInv /\ ZombieList /\ ReapInv
      /\ LiveChain /\ RegisterInv
  BY DEF CoreInv
<1>3. /\ Running(t) /\ pc[t] = "add2" /\ pc' = [pc EXCEPT ![t] = "add3"]
      /\ UNCHANGED <<OS_ActivePrio, OS_This, live, pend, boot, reap, Priority, timer, console,
                     level, child, tail, first, bits>>
  BY DEF Link, LinkStores, threadVars, labourVars
<1>4. /\ "add2" \in Linking /\ "add3" \in Linking
      /\ "add2" \in Building /\ "add3" \in Building
  BY DEF Linking, Building
<1>5. /\ IdleInv' /\ LabourInv' /\ ExclusiveInv' /\ PrivateInv' /\ BootInv'
      /\ RunsAThread' /\ UrgentInv' /\ ReapInv'
      /\ \A p : Ready(p)' = Ready(p)
      /\ Zombie' = Zombie
      /\ \A u \in Tcb : Alive(u)' <=> Alive(u)
      /\ \A u \in Tcb \ {t} : pc'[u] = pc[u]
      /\ pc'[t] = "add3"
  BY <1>1, <1>3, <1>4, LabourKept
<1>6. /\ child[t] \in Threads /\ child[t] # t /\ Priority[child[t]] \in Levels
      /\ \A u \in Tcb \ {t} : pc[u] \notin Linking \cup Reclaiming
      /\ pc[Idle] \notin Reclaiming
      /\ IsList(list, OS_DeadList, Zombie)
      /\ \A p \in Heads : p # Priority[child[t]] => IsList(list, p, Ready(p))
  BY <1>3, <1>4, LabourFacts
<1>7. PICK c \in Threads, h \in Levels : c = child[t] /\ h = Priority[child[t]]
  BY <1>6
<1>8. /\ c \in Tcb /\ c \in Node /\ h \in Heads /\ h \in Node /\ c # h
      /\ pc[c] = "new" /\ list \in Links(Node) /\ list' \in Links(Node)
  BY <1>1, <1>2, <1>3, <1>4, <1>7, NodeFacts DEF LabourInv, TypeInv, TypeOK
<1>9. c \notin Zombie /\ \A p : c \notin Ready(p)
  BY <1>8 DEF Ready, Zombie, Alive
<1>10. /\ first[t] \in Ready(h) \cup {h}
       /\ IsList(__list_add(list, c, h, first[t]), h, Ready(h) \cup {c})
       /\ list[first[t]].prev = c
       /\ list' = [list EXCEPT ![c] = [next |-> first[t], prev |-> h]]
  BY <1>2, <1>3, <1>7 DEF StoreInv, Link, LinkStores
<1>11. \A n \in Node \ {c} : list'[n] = list[n]
  BY <1>8, <1>10 DEF Links
<1>12. /\ first[t] \in Ready(h) \cup {h}
       /\ IsList(__list_add(list', c, h, first[t]), h, Ready(h) \cup {c})
       /\ list'[first[t]].prev = c
       /\ list'[c] = [next |-> first[t], prev |-> h]
  <2>1. first[t] \in Node /\ c # first[t]
    BY <1>1, <1>8, <1>9, <1>10, Members
  <2>2. IsList(__list_add(list', c, h, first[t]), h, Ready(h) \cup {c})
    <3>1. PICK f \in Node : f = first[t]
      BY <2>1
    <3>2. __list_add([list EXCEPT ![c] = [next |-> f, prev |-> h]], c, h, f)
            = __list_add(list, c, h, f)
      BY <1>8, <2>1, <3>1 DEF __list_add, Links
    <3> QED
      BY <1>10, <3>1, <3>2
  <2>3. list'[c] = [next |-> first[t], prev |-> h]
    BY <1>8, <1>10 DEF Links
  <2> QED
    BY <1>10, <1>11, <2>1, <2>2, <2>3
<1>20. \A u \in Tcb : pc'[u] \in Linking => u = t
  BY <1>5, <1>6
<1>21. ReadyQueues'
  <2> SUFFICES ASSUME NEW p \in Heads, p # h
               PROVE  IsList(list', p, Ready(p))
    <3>1. Storing(h)'
      BY <1>3, <1>5, <1>7 DEF Storing
    <3> QED
      BY <1>5, <3>1 DEF ReadyQueues, Heads
  <2>1. \A n \in Ready(p) \cup {p} : n \in Node \ {c}
    BY <1>1, <1>8, <1>9, Members, NodeFacts
  <2> QED
    BY <1>6, <1>7, <1>11, <2>1, SameRing
<1>22. ZombieList'
  <2>1. \A n \in Zombie \cup {OS_DeadList} : n \in Node \ {c}
    BY <1>1, <1>8, <1>9, Members, NodeFacts
  <2>2. IsList(list', OS_DeadList, Zombie)
    BY <1>6, <1>11, <2>1, SameRing
  <2> QED
    BY <1>5, <2>2 DEF ZombieList
<1>23. Bitmap'
  <2>1. \A p : Merging(p)' <=> Merging(p)
    BY <1>3, <1>5 DEF Merging
  <2> QED
    BY <1>2, <1>3, <1>5, <2>1 DEF Bitmap
<1>24. MergeInv'
  BY <1>5, <1>20 DEF MergeInv, Linking
<1>25. StoreInv'
  BY <1>3, <1>5, <1>7, <1>12, <1>20 DEF StoreInv, Linking
<1>26. LiveChain' /\ RegisterInv'
  <2>1. \A u : OnLive(u)' <=> OnLive(u)
    BY <1>3 DEF OnLive
  <2>2. \A u \in Tcb : pc'[u] = "new" <=> pc[u] = "new"
    BY <1>3, <1>5
  <2>3. LiveChain'
    BY <1>2, <1>3, <1>5, <2>1, <2>2 DEF LiveChain
  <2> QED
    BY <1>2, <1>3, <1>4, <1>5, <1>20, <2>1, <2>3 DEF RegisterInv, Building, Linking
<1> QED
  BY <1>1, <1>5, <1>21, <1>22, <1>23, <1>24, <1>25, <1>26 DEF CoreInv

\* The last store of list_add makes the new thread a member of its ready list.
LEMMA LastStoreSafe ==
  ASSUME CoreInv, NEW t \in Tcb, Link(t), pc[t] = "add3"
  PROVE  CoreInv'
<1>1. TypeInv /\ TypeInv'
  <2>1. Next
    BY DEF Next, LabourStep
  <2> QED
    BY <2>1, NextTypeInv DEF CoreInv
<1>2. /\ IdleInv /\ LabourInv /\ ExclusiveInv /\ PrivateInv /\ BootInv
      /\ ReadyQueues /\ StoreInv /\ Bitmap /\ MergeInv
      /\ RunsAThread /\ UrgentInv /\ ZombieList /\ ReapInv
      /\ LiveChain /\ RegisterInv
  BY DEF CoreInv
<1>3. /\ Running(t) /\ pc[t] = "add3" /\ pc[t] \in Linking /\ pc[t] \in Building
      /\ UNCHANGED <<OS_ActivePrio, OS_This, live, pend, boot, reap, Priority, timer, console,
                     level, child, tail, first, bits>>
  BY DEF Link, threadVars, labourVars, Linking, Building
<1>4. /\ OS_This = t /\ ~pend
      /\ child[t] \in Threads /\ child[t] # t /\ Priority[child[t]] \in Levels
      /\ \A u \in Tcb \ {t} : pc[u] \notin Linking \cup Reclaiming
      /\ pc[Idle] \notin Reclaiming
      /\ t \in Ready(Priority[t])
      /\ IsList(list, OS_DeadList, Zombie)
      /\ \A p \in Heads : p # Priority[child[t]] => IsList(list, p, Ready(p))
  BY <1>3, LabourFacts
<1>5. PICK c \in Threads, h \in Levels : c = child[t] /\ h = Priority[child[t]]
  BY <1>4
<1>6. /\ pc' = [pc EXCEPT ![t] = "linked", ![c] = "run"]
      /\ list' = [list EXCEPT ![h].next = c]
  BY <1>3, <1>5 DEF Link, LinkStores
<1>7. /\ c \in Tcb /\ c \in Node /\ c # Idle /\ c # t /\ h \in Heads /\ h \in Node /\ c # h
      /\ pc[c] = "new" /\ timer[c] = "off" /\ OnLive(c)
      /\ list \in Links(Node) /\ list' \in Links(Node)
  <2>1. pc[c] = "new" /\ c \in Tcb
    BY <1>2, <1>3, <1>5, NodeFacts DEF LabourInv
  <2>2. timer[c] = "off"
    BY <1>1, <1>2, <2>1 DEF IdleInv, TypeInv, TypeOK
  <2>3. OnLive(c)
    BY <1>2, <1>3, <1>5 DEF RegisterInv, Building
  <2> QED
    BY <1>1, <1>4, <1>5, <2>1, <2>2, <2>3, NodeFacts, SMTT(90) DEF TypeInv, TypeOK
<1>8. /\ pc'[t] = "linked" /\ pc'[c] = "run"
      /\ \A u \in Tcb \ {t, c} : pc'[u] = pc[u]
  BY <1>1, <1>6, <1>7 DEF TypeInv, TypeOK
<1>9. /\ \A u \in Tcb : Alive(u)' <=> Alive(u) \/ u = c
      /\ Zombie' = Zombie
      /\ \A u \in Tcb : pc'[u] \in Linking <=> u = t
      /\ pc'[Idle] \notin Reclaiming
  BY <1>3, <1>4, <1>7, <1>8, NodeFacts DEF Alive, Zombie, Linking, Reclaiming
<1>10. \A p : Ready(p)' = IF p = h THEN Ready(p) \cup {c} ELSE Ready(p)
  BY <1>3, <1>5, <1>7, <1>9 DEF Ready
<1>11. /\ \A p : ~Storing(p)'
       /\ Merging(h)' /\ \A p : ~Merging(p)
  BY <1>3, <1>4, <1>5, <1>8, <1>9 DEF Storing, Merging, Linking
<1>12. IsList(list', h, Ready(h) \cup {c})
  <2>1. /\ first[t] \in Ready(h) \cup {h} /\ list[first[t]].prev = c
        /\ IsList(__list_add(list, c, h, first[t]), h, Ready(h) \cup {c})
        /\ list[c] = [next |-> first[t], prev |-> h]
    BY <1>2, <1>3, <1>5 DEF StoreInv
  <2>2. c \notin Ready(h)
    BY <1>7 DEF Ready, Alive
  <2>3. PICK f \in Node : f = first[t] /\ c # f
    BY <1>1, <1>7, <2>1, <2>2, Members
  <2>4. __list_add(list, c, h, f) = [list EXCEPT ![h].next = c]
    BY <1>7, <2>1, <2>3 DEF __list_add, Links
  <2> QED
    BY <1>6, <2>1, <2>3, <2>4
<1>13. \A n \in Node \ {h} : list'[n] = list[n]
  BY <1>6, <1>7 DEF Links
<1>14. ReadyQueues'
  <2> SUFFICES ASSUME NEW p \in Heads, p # h
               PROVE  IsList(list', p, Ready(p))
    BY <1>10, <1>12 DEF ReadyQueues, Heads
  <2>1. \A n \in Ready(p) \cup {p} : n \in Node \ {h}
    BY <1>1, <1>7, Members, NodeFacts
  <2> QED
    BY <1>4, <1>5, <1>13, <2>1, SameRing
<1>15. ZombieList'
  <2>1. \A n \in Zombie \cup {OS_DeadList} : n \in Node \ {h}
    BY <1>1, <1>7, Members, NodeFacts
  <2>2. IsList(list', OS_DeadList, Zombie)
    BY <1>4, <1>13, <2>1, SameRing
  <2> QED
    BY <1>9, <2>2 DEF ZombieList
<1>16. Bitmap'
  BY <1>2, <1>3, <1>10, <1>11 DEF Bitmap
<1>17. IdleInv'
  BY <1>2, <1>3, <1>4, <1>7, <1>8, NodeFacts DEF IdleInv, Linking, Reclaiming
<1>18. LabourInv'
  BY <1>3, <1>4, <1>5, <1>8, <1>9 DEF LabourInv, Linking, Building
<1>19. ExclusiveInv'
  <2> SUFFICES ASSUME t \in Threads
               PROVE  /\ OS_This' = t /\ ~pend' /\ Quiet(t)'
                      /\ \A v \in Tcb : timer'[v] = "off"
    BY <1>9, NodeFacts DEF ExclusiveInv
  <2>1. Quiet(t)'
    BY <1>4, <1>7, <1>8 DEF Quiet, Linking, Reclaiming
  <2> QED
    BY <1>2, <1>3, <1>4, <2>1 DEF ExclusiveInv
<1>20. PrivateInv'
  BY <1>2, <1>3, <1>5, <1>7, <1>8, <1>9, NodeFacts DEF PrivateInv
<1>21. BootInv'
  BY <1>2, <1>3, <1>5, <1>7, <1>8, NodeFacts DEF BootInv
<1>22. RunsAThread' /\ UrgentInv'
  BY <1>2, <1>3, <1>4, <1>8, <1>10 DEF RunsAThread, UrgentInv
<1>23. StoreInv' /\ MergeInv' /\ RegisterInv' /\ ReapInv'
  BY <1>8, <1>9 DEF StoreInv, MergeInv, RegisterInv, ReapInv, Linking, Building, Reclaiming
<1>24. LiveChain'
  <2>1. \A u : OnLive(u)' <=> OnLive(u)
    BY <1>3 DEF OnLive
  <2>2. \A u \in Tcb : pc'[u] = "new" <=> pc[u] = "new" /\ u # c
    BY <1>3, <1>8
  <2> QED
    BY <1>2, <1>3, <1>7, <1>9, <2>1, <2>2 DEF LiveChain
<1> QED
  BY <1>1, <1>14, <1>15, <1>16, <1>17, <1>18, <1>19, <1>20, <1>21, <1>22, <1>23, <1>24 DEF CoreInv

\* labour merges the bit of the thread it linked into the bitmap it has read.
LEMMA MergeBitsSafe ==
  ASSUME CoreInv, LevelInv, NEW t \in Tcb, MergeBits(t)
  PROVE  CoreInv'
<1>1. TypeInv /\ TypeInv'
  <2>1. Next
    BY DEF Next, LabourStep
  <2> QED
    BY <2>1, NextTypeInv DEF CoreInv
<1>2. /\ IdleInv /\ LabourInv /\ ExclusiveInv /\ PrivateInv /\ BootInv
      /\ ReadyQueues /\ StoreInv /\ Bitmap /\ MergeInv
      /\ RunsAThread /\ UrgentInv /\ ZombieList /\ ReapInv
      /\ LiveChain /\ RegisterInv
  BY DEF CoreInv
<1>3. /\ Running(t) /\ pc[t] = "merging" /\ pc[t] \in Linking
      /\ OS_ActivePrio' = bits[t] \cup {Priority[child[t]]}
      /\ pc' = [pc EXCEPT ![t] = "merged"]
      /\ level[t] = Priority[child[t]]
      /\ UNCHANGED <<list, OS_This, live, pend, boot, reap, Priority, timer, console, level>>
  BY DEF MergeBits, LevelInv, threadVars, Linking
<1>4. /\ OS_This = t /\ ~pend
      /\ child[t] \in Threads /\ child[t] # t /\ Priority[child[t]] \in Levels
      /\ \A u \in Tcb \ {t} : pc[u] \notin Linking \cup Reclaiming
      /\ t \in Ready(Priority[t])
      /\ IsList(list, OS_DeadList, Zombie)
  BY <1>3, LabourFacts
<1>5. PICK c \in Threads, h \in Levels : c = child[t] /\ h = Priority[child[t]]
  BY <1>4
<1>6. /\ pc'[t] = "merged" /\ \A u \in Tcb \ {t} : pc'[u] = pc[u]
      /\ \A u \in Tcb : pc'[u] \notin Linking \cup Reclaiming
      /\ Idle \in Tcb
  BY <1>1, <1>3, <1>4, NodeFacts DEF TypeInv, TypeOK, Linking, Reclaiming
<1>7. /\ \A u \in Tcb : Alive(u)' <=> Alive(u)
      /\ Zombie' = Zombie
      /\ \A p : Ready(p)' = Ready(p)
  BY <1>3, <1>6 DEF Ready, Zombie, Alive
<1>8. /\ \A p : ~Storing(p) /\ ~Storing(p)' /\ ~Merging(p)'
      /\ \A p : Merging(p) => p = h
  BY <1>3, <1>4, <1>5, <1>6 DEF Storing, Merging, Linking
<1>9. OS_ActivePrio' = OS_ActivePrio \cup {h}
  <2>1. t = Idle => OS_ActivePrio = {}
    <3> SUFFICES ASSUME t = Idle, NEW p \in OS_ActivePrio
                 PROVE  FALSE
      OBVIOUS
    <3>1. 32 <= p
      BY <1>2, <1>3, <1>4 DEF UrgentInv, IdleInv, IdlePrio
    <3>2. p \in 0..31
      BY <1>1, KernelAssumption DEF TypeInv, TypeOK
    <3> QED
      BY <3>1, <3>2
  <2> QED
    BY <1>2, <1>3, <1>5, <2>1 DEF MergeInv
<1>10. c \in Ready(h)
  <2>1. c \in Tcb /\ pc[c] = "run"
    BY <1>2, <1>3, <1>5, NodeFacts DEF LabourInv
  <2>2. timer[c] = "off"
    BY <1>1, <1>2, <2>1 DEF IdleInv, TypeInv, TypeOK
  <2> QED
    BY <1>5, <2>1, <2>2 DEF Ready, Alive
<1>11. ReadyQueues' /\ ZombieList' /\ Bitmap'
  <2>1. ReadyQueues'
    BY <1>2, <1>3, <1>7, <1>8 DEF ReadyQueues, Heads
  <2>2. ZombieList'
    BY <1>3, <1>4, <1>7 DEF ZombieList
  <2>3. Bitmap'
    BY <1>2, <1>7, <1>8, <1>9, <1>10 DEF Bitmap
  <2> QED
    BY <2>1, <2>2, <2>3
<1>12. IdleInv'
  BY <1>2, <1>3, <1>6, NodeFacts DEF IdleInv, Linking, Reclaiming
<1>13. LabourInv' /\ ExclusiveInv' /\ PrivateInv' /\ StoreInv' /\ MergeInv' /\ RegisterInv' /\ ReapInv'
  BY <1>6, NodeFacts DEF LabourInv, ExclusiveInv, PrivateInv, StoreInv, MergeInv, RegisterInv,
                         ReapInv, Linking, Building, Reclaiming
<1>14. BootInv'
  BY <1>2, <1>3, <1>6, NodeFacts DEF BootInv
<1>15. RunsAThread'
  BY <1>3, <1>4, <1>7 DEF RunsAThread
<1>16. UrgentInv'
  BY <1>2, <1>3, <1>4, <1>5, <1>6, <1>9 DEF UrgentInv
<1>17. LiveChain'
  <2>1. \A u : OnLive(u)' <=> OnLive(u)
    BY <1>3 DEF OnLive
  <2>2. \A u \in Tcb : pc'[u] = "new" <=> pc[u] = "new"
    BY <1>3, <1>6
  <2> QED
    BY <1>2, <1>3, <1>7, <2>1, <2>2 DEF LiveChain
<1> QED
  BY <1>1, <1>11, <1>12, <1>13, <1>14, <1>15, <1>16, <1>17 DEF CoreInv

\* labour decides who runs by its parameter: the bit it has just stored is the only
\* one that may be more urgent than the caller.
LEMMA LabourReturnsSafe ==
  ASSUME CoreInv, NEW t \in Tcb, LabourReturns(t)
  PROVE  CoreInv'
<1>1. TypeInv /\ TypeInv'
  <2>1. Next
    BY DEF Next, LabourStep
  <2> QED
    BY <2>1, NextTypeInv DEF CoreInv
<1>2. /\ IdleInv /\ LabourInv /\ ExclusiveInv /\ PrivateInv /\ BootInv
      /\ ReadyQueues /\ StoreInv /\ Bitmap /\ MergeInv
      /\ RunsAThread /\ UrgentInv /\ ZombieList /\ ReapInv
      /\ LiveChain /\ RegisterInv
  BY DEF CoreInv
<1>3. /\ OS_This = t /\ ~pend /\ pc[t] = "merged"
      /\ pend' = (level[t] < Priority[t])
      /\ pc' = [pc EXCEPT ![t] = "run"]
      /\ UNCHANGED <<list, OS_ActivePrio, OS_This, live, boot, reap, Priority, timer, console,
                     child, tail, first, bits>>
  BY DEF LabourReturns, Running, threadVars
<1>4. /\ pc'[t] = "run" /\ \A u \in Tcb \ {t} : pc'[u] = pc[u]
      /\ \A u \in Tcb : pc'[u] # pc[u] => pc[u] = "merged" /\ pc'[u] = "run"
  BY <1>1, <1>3 DEF TypeInv, TypeOK
<1>5. /\ \A u \in Tcb : Alive(u)' <=> Alive(u)
      /\ Zombie' = Zombie
      /\ \A p : Ready(p)' = Ready(p)
  BY <1>3, <1>4 DEF Ready, Zombie, Alive
<1>6. \A p : (Storing(p)' <=> Storing(p)) /\ (Merging(p)' <=> Merging(p))
  BY <1>3, <1>4 DEF Storing, Merging, Linking
<1>7. \A u \in Threads : pc[u] \notin Linking
  BY <1>2, <1>3, NoAppLabour DEF Linking
<1>8. ReadyQueues' /\ Bitmap'
  BY <1>2, <1>3, <1>5, <1>6 DEF ReadyQueues, Bitmap
<1>9. ZombieList'
  <2>1. pc'[Idle] \notin Unlinking => pc[Idle] \notin Unlinking
    BY <1>4, NodeFacts DEF Unlinking
  <2> QED
    BY <1>2, <1>3, <1>5, <2>1 DEF ZombieList
<1>10. IdleInv'
  <2>1. \A u \in Tcb : pc[u] # "merged" => pc'[u] = pc[u]
    BY <1>4
  <2>2. pc'[Idle] \in {"run", "merged"} \cup Linking \cup Reclaiming
    BY <1>2, <1>4, NodeFacts DEF IdleInv
  <2>3. \A u \in Threads : pc'[u] \notin Reclaiming
    BY <1>2, <1>4, NodeFacts DEF IdleInv, Reclaiming
  <2>4. \A u \in Tcb : timer'[u] = "armed" => u # Idle /\ pc'[u] \in {"slept", "woken"}
    BY <1>2, <1>3, <2>1 DEF IdleInv
  <2> QED
    BY <1>2, <1>3, <2>2, <2>3, <2>4 DEF IdleInv
<1>11. LabourInv' /\ ExclusiveInv'
  BY <1>2, <1>3, <1>4, <1>7, NodeFacts DEF LabourInv, ExclusiveInv, Linking, Building, TypeInv, TypeOK
<1>12. PrivateInv'
  BY <1>2, <1>3, <1>4, <1>5, NodeFacts DEF PrivateInv, Linking
<1>13. StoreInv'
  BY <1>1, <1>2, <1>3, <1>4, <1>5, NodeFacts DEF StoreInv
<1>14. MergeInv' /\ RegisterInv'
  BY <1>2, <1>3, <1>4 DEF MergeInv, RegisterInv, Building, OnLive
<1>15. BootInv'
  BY <1>2, <1>3, <1>4, NodeFacts DEF BootInv
<1>16. RunsAThread'
  BY <1>2, <1>3, <1>4, <1>5 DEF RunsAThread
<1>17. UrgentInv'
  <2> SUFFICES ASSUME ~(level[t] < Priority[t]), NEW p \in OS_ActivePrio
               PROVE  Priority[t] <= p
    BY <1>3, <1>4 DEF UrgentInv
  <2>1. Priority[t] <= p \/ p = level[t]
    BY <1>2, <1>3 DEF UrgentInv
  <2>2. t \in Tcb /\ level[t] \in Levels /\ Priority[t] \in Levels \cup {32} /\ Levels \subseteq 0..31
    BY <1>1, KernelAssumption DEF TypeInv, TypeOK, Heads, IdlePrio
  <2>3. level[t] \in 0..31 /\ (Priority[t] \in 0..31 \/ Priority[t] = 32)
    BY <2>2
  <2> QED
    BY <2>1, <2>3
<1>18. ReapInv'
  BY <1>1, <1>2, <1>3, <1>4, <1>5, NodeFacts DEF ReapInv, TypeInv, TypeOK
<1>19. LiveChain'
  <2>1. \A u : OnLive(u)' <=> OnLive(u)
    BY <1>3 DEF OnLive
  <2>2. \A u \in Tcb : pc'[u] = "new" <=> pc[u] = "new"
    BY <1>4
  <2> QED
    BY <1>2, <1>3, <1>5, <2>1, <2>2 DEF LiveChain
<1> QED
  BY <1>1, <1>8, <1>9, <1>10, <1>11, <1>12, <1>13, <1>14, <1>15, <1>16, <1>17, <1>18, <1>19 DEF CoreInv

\* What a step of the reclaim loop keeps whatever it stores: the other threads
\* only lose zombies, and nobody is inside labour.
LEMMA ReclaimKept ==
  ASSUME CoreInv, TypeInv', Running(Idle),
         pc[Idle] \in {"run"} \cup Reclaiming, pc'[Idle] \in {"run"} \cup Reclaiming,
         \A u \in Threads : pc'[u] = pc[u] \/ (pc[u] \in {"dying", "dead"} /\ pc'[u] = "free"),
         \A n \in Node \ (Zombie \cup {OS_DeadList}) : list'[n] = list[n],
         UNCHANGED <<OS_ActivePrio, OS_This, live, pend, boot, Priority, timer, console,
                     level, child, tail, first, bits>>
  PROVE  /\ IdleInv' /\ LabourInv' /\ ExclusiveInv' /\ PrivateInv' /\ BootInv'
         /\ ReadyQueues' /\ StoreInv' /\ Bitmap' /\ MergeInv'
         /\ RunsAThread' /\ UrgentInv' /\ LiveChain' /\ RegisterInv'
<1>1. /\ TypeInv /\ IdleInv /\ LabourInv /\ ExclusiveInv /\ PrivateInv /\ BootInv
      /\ ReadyQueues /\ Bitmap /\ RunsAThread /\ UrgentInv /\ LiveChain
  BY DEF CoreInv
<1>2. /\ OS_This = Idle /\ ~pend /\ Idle \in Tcb
      /\ \A u \in Threads : pc[u] \notin Linking
      /\ \A u \in Tcb : pc[u] \notin Linking /\ pc'[u] \notin Linking
  BY <1>1, NodeFacts, NoAppLabour DEF Running, Linking, Reclaiming, Tcb
<1>3. /\ \A u \in Tcb : Alive(u)' <=> Alive(u)
      /\ \A u \in Tcb : pc'[u] = "new" <=> pc[u] = "new"
      /\ \A u \in Threads : pc'[u] # "free" => pc[u] # "free"
  BY <1>1 DEF Alive, Reclaiming, Tcb
<1>4. \A p : /\ Ready(p)' = Ready(p)
             /\ ~Storing(p) /\ ~Storing(p)' /\ ~Merging(p) /\ ~Merging(p)'
  BY <1>2, <1>3 DEF Ready, Storing, Merging, Linking
<1>5. LabourInv' /\ ExclusiveInv' /\ PrivateInv' /\ StoreInv' /\ MergeInv' /\ RegisterInv'
  BY <1>2, NodeFacts DEF LabourInv, ExclusiveInv, PrivateInv, StoreInv, MergeInv, RegisterInv,
                         Linking, Building
<1>6. IdleInv'
  <2>1. \A u \in Threads : pc'[u] \notin Reclaiming
    BY <1>1 DEF IdleInv, Reclaiming
  <2>2. ASSUME NEW u \in Tcb, timer[u] = "armed"
        PROVE  u # Idle /\ pc'[u] \in {"slept", "woken"}
    BY <1>1, <2>2 DEF IdleInv, Tcb
  <2> QED
    BY <1>1, <2>1, <2>2 DEF IdleInv
<1>7. BootInv'
  BY <1>1, <1>3 DEF BootInv
<1>8. ReadyQueues'
  <2> SUFFICES ASSUME NEW p \in Heads
               PROVE  IsList(list', p, Ready(p))
    BY <1>4 DEF ReadyQueues, Heads
  <2>1. \A n \in Ready(p) \cup {p} : n \in Node \ (Zombie \cup {OS_DeadList})
    BY <1>1, Members, NodeFacts
  <2> QED
    BY <1>1, <1>4, <2>1, SameRing DEF ReadyQueues
<1>9. Bitmap' /\ RunsAThread' /\ UrgentInv'
  BY <1>1, <1>2, <1>4 DEF Bitmap, RunsAThread, UrgentInv, Reclaiming
<1>10. LiveChain'
  <2>1. \A u : OnLive(u)' <=> OnLive(u)
    BY DEF OnLive
  <2> QED
    BY <1>1, <1>3, <2>1 DEF LiveChain
<1> QED
  BY <1>5, <1>6, <1>7, <1>8, <1>9, <1>10

\* The reclaim loop, preempted or not, unlinks and frees the zombies one by one:
\* nobody else touches their list while it does.
LEMMA ReapSafe ==
  ASSUME CoreInv, Reap
  PROVE  CoreInv'
<1>1. TypeInv /\ TypeInv'
  <2>1. Next
    BY DEF Next
  <2> QED
    BY <2>1, NextTypeInv DEF CoreInv
<1>2. /\ IdleInv /\ LabourInv /\ ExclusiveInv /\ PrivateInv /\ BootInv
      /\ ReadyQueues /\ StoreInv /\ Bitmap /\ MergeInv
      /\ RunsAThread /\ UrgentInv /\ ZombieList /\ ReapInv
      /\ LiveChain /\ RegisterInv
  BY DEF CoreInv
<1>3. /\ Running(Idle) /\ Idle \in Tcb
      /\ UNCHANGED <<OS_ActivePrio, OS_This, live, pend, boot, Priority, timer, console,
                     level, child, tail, first, bits>>
  BY NodeFacts DEF Reap, threadVars, labourVars
<1>4. /\ list \in Links(Node) /\ list' \in Links(Node) /\ OS_DeadList \in Node
      /\ Zombie \in SUBSET Tcb /\ Zombie \in SUBSET Node /\ OS_DeadList \notin Zombie
      /\ \A u \in Threads : u # Idle
  BY <1>1, Members, NodeFacts, SMTT(90) DEF TypeInv, TypeOK
<1>5. CASE ReapNext
  <2>1. /\ list' = list /\ reap'.node \in Zombie \cup {OS_DeadList}
        /\ pc[Idle] \in {"run", "reap5"}
        /\ pc' = [pc EXCEPT ![Idle] = IF reap'.node = OS_DeadList THEN "run" ELSE "reap1"]
    <3>1. CASE pc[Idle] = "run"
      <4>1. IsList(list, OS_DeadList, Zombie) /\ reap'.node = list[OS_DeadList].next
        BY <1>2, <1>5, <3>1 DEF ZombieList, Unlinking, ReapNext, Cursor
      <4>2. list[OS_DeadList].next \in Zombie \cup {OS_DeadList}
        BY <4>1 DEF IsList, Linked
      <4> QED
        BY <1>5, <3>1, <4>1, <4>2 DEF ReapNext
    <3>2. CASE pc[Idle] = "reap5"
      <4>1. reap'.node = list[reap.node].next
        BY <1>5, <3>2 DEF ReapNext, Cursor
      <4> QED
        BY <1>2, <1>5, <3>2, <4>1 DEF ReapNext, ReapInv
    <3> QED
      BY <1>5, <3>1, <3>2 DEF ReapNext
  <2>2. /\ \A u \in Threads : pc'[u] = pc[u]
        /\ pc'[Idle] = IF reap'.node = OS_DeadList THEN "run" ELSE "reap1"
    BY <1>1, <1>3, <1>4, <2>1 DEF TypeInv, TypeOK
  <2>3. Zombie' = Zombie
    BY <2>1, <2>2 DEF Zombie, Tcb
  <2>4. ZombieList' /\ ReapInv'
    BY <1>2, <2>1, <2>2, <2>3 DEF ZombieList, ReapInv, Unlinking
  <2>5. /\ IdleInv' /\ LabourInv' /\ ExclusiveInv' /\ PrivateInv' /\ BootInv'
        /\ ReadyQueues' /\ StoreInv' /\ Bitmap' /\ MergeInv'
        /\ RunsAThread' /\ UrgentInv' /\ LiveChain' /\ RegisterInv'
    <3>1. pc[Idle] \in {"run"} \cup Reclaiming /\ pc'[Idle] \in {"run"} \cup Reclaiming
      BY <2>1, <2>2 DEF Reclaiming
    <3>2. \A u \in Threads : pc'[u] = pc[u] \/ (pc[u] \in {"dying", "dead"} /\ pc'[u] = "free")
      BY <2>2
    <3>3. \A m \in Node \ (Zombie \cup {OS_DeadList}) : list'[m] = list[m]
      BY <2>1
    <3> QED
      BY <1>1, <1>3, <3>1, <3>2, <3>3, ReclaimKept
  <2> QED
    BY <1>1, <2>4, <2>5 DEF CoreInv
<1>6. CASE ReapUnlink
  <2>1. /\ pc[Idle] \in {"reap1", "reap2", "reap3"} /\ reap.node \in Zombie
        /\ reap'.node = reap.node
    BY <1>2, <1>6 DEF ReapUnlink, ReapInv
  <2>2. /\ pc'[Idle] \in {"reap2", "reap3", "reap4"}
        /\ \A u \in Threads : pc'[u] = pc[u]
    <3>1. PICK x \in {"reap2", "reap3", "reap4"} : pc' = [pc EXCEPT ![Idle] = x]
      BY <1>6 DEF ReapUnlink
    <3> QED
      BY <1>1, <1>3, <1>4, <3>1 DEF TypeInv, TypeOK
  <2>3. Zombie' = Zombie
    BY <2>1, <2>2 DEF Zombie, Tcb
  <2>4. /\ ZombieList' /\ ReapInv'
        /\ \A m \in Node \ (Zombie \cup {OS_DeadList}) : list'[m] = list[m]
    <3>1. CASE pc[Idle] = "reap1"
      <4>1. /\ list' = list /\ pc'[Idle] = "reap2"
            /\ reap'.prev = list[reap.node].prev /\ reap'.next = list[reap.node].next
        BY <1>1, <1>3, <1>6, <3>1 DEF ReapUnlink, TypeInv, TypeOK
      <4>2. ZombieList' /\ ReapInv'
        BY <1>2, <2>1, <2>3, <3>1, <4>1 DEF ZombieList, ReapInv, Unlinking
      <4> QED
        BY <4>1, <4>2
    <3>2. CASE pc[Idle] = "reap2"
      <4>1. PICK n \in Zombie, v \in Node, w \in Node :
              n = reap.node /\ v = reap.prev /\ w = reap.next
        BY <1>1, <2>1 DEF TypeInv, TypeOK
      <4>2. /\ list' = [list EXCEPT ![w].prev = v] /\ reap' = reap /\ pc'[Idle] = "reap3"
            /\ v = list[n].prev /\ w = list[n].next
            /\ IsList(list, OS_DeadList, Zombie)
        BY <1>1, <1>2, <1>3, <1>6, <3>2, <4>1
           DEF ReapUnlink, ReapInv, ZombieList, Unlinking, TypeInv, TypeOK
      <4>3. v \in Zombie \cup {OS_DeadList} /\ w \in Zombie \cup {OS_DeadList} /\ list[v].next = n
        BY <4>1, <4>2 DEF IsList, Linked
      <4>4. w # n
        <5>1. {n} \in SUBSET Zombie /\ {n} # {}
          BY <4>1
        <5> QED
          BY <4>2, <5>1 DEF IsList, Reachable
      <4>5. v # n
        BY <4>2, <4>3, <4>4
      <4>6. n \in Node
        BY <1>4, <4>1
      <4>7. list'[n].next = w
        BY <1>4, <4>2, <4>4, <4>6 DEF Links
      <4>8. [list' EXCEPT ![v].next = w] = list_del(list, n)
        BY <1>4, <4>2, <4>6 DEF list_del, __list_del, Links
      <4>9. IsList(list_del(list, n), OS_DeadList, Zombie \ {n})
        BY <1>4, <4>2, <4>6, DelKeepsList
      <4>10. IsList([list' EXCEPT ![v].next = w], OS_DeadList, Zombie \ {n})
        BY <4>8, <4>9
      <4>11. \A m \in Node \ (Zombie \cup {OS_DeadList}) : list'[m] = list[m]
        BY <1>4, <4>2, <4>3 DEF Links
      <4>12. ReapInv'
        BY <2>3, <4>1, <4>2, <4>3, <4>4, <4>5, <4>7, <4>10 DEF ReapInv
      <4> QED
        BY <4>2, <4>11, <4>12 DEF ZombieList, Unlinking
    <3>3. CASE pc[Idle] = "reap3"
      <4>1. PICK n \in Zombie, v \in Node, w \in Node :
              n = reap.node /\ v = reap.prev /\ w = reap.next
        BY <1>1, <2>1 DEF TypeInv, TypeOK
      <4>2. /\ list' = [list EXCEPT ![v].next = w] /\ reap' = reap /\ pc'[Idle] = "reap4"
            /\ v \in (Zombie \ {n}) \cup {OS_DeadList} /\ w \in (Zombie \ {n}) \cup {OS_DeadList}
            /\ list[n].next = w
            /\ IsList([list EXCEPT ![v].next = w], OS_DeadList, Zombie \ {n})
        BY <1>1, <1>2, <1>3, <1>6, <3>3, <4>1 DEF ReapUnlink, ReapInv, TypeInv, TypeOK
      <4>3. n \in Node /\ v # n
        BY <1>4, <4>1, <4>2
      <4>4. list'[n].next = w /\ \A m \in Node \ (Zombie \cup {OS_DeadList}) : list'[m] = list[m]
        BY <1>4, <4>2, <4>3 DEF Links
      <4>5. IsList(list', OS_DeadList, Zombie \ {n})
        BY <4>2
      <4>6. ReapInv'
        BY <2>3, <4>1, <4>2, <4>4, <4>5 DEF ReapInv
      <4> QED
        BY <4>2, <4>4, <4>6 DEF ZombieList, Unlinking
    <3> QED
      BY <2>1, <3>1, <3>2, <3>3
  <2>5. /\ IdleInv' /\ LabourInv' /\ ExclusiveInv' /\ PrivateInv' /\ BootInv'
        /\ ReadyQueues' /\ StoreInv' /\ Bitmap' /\ MergeInv'
        /\ RunsAThread' /\ UrgentInv' /\ LiveChain' /\ RegisterInv'
    <3>1. pc[Idle] \in {"run"} \cup Reclaiming /\ pc'[Idle] \in {"run"} \cup Reclaiming
      BY <2>1, <2>2 DEF Reclaiming
    <3>2. \A u \in Threads : pc'[u] = pc[u] \/ (pc[u] \in {"dying", "dead"} /\ pc'[u] = "free")
      BY <2>2
    <3> QED
      BY <1>1, <1>3, <2>4, <3>1, <3>2, ReclaimKept
  <2> QED
    BY <1>1, <2>4, <2>5 DEF CoreInv
<1>7. CASE ReapFree
  <2>1. /\ list' = list /\ reap' = reap /\ pc[Idle] = "reap4"
        /\ reap.node \in Threads /\ reap.node \in Zombie
        /\ list[reap.node].next \in (Zombie \ {reap.node}) \cup {OS_DeadList}
        /\ IsList(list, OS_DeadList, Zombie \ {reap.node})
    BY <1>2, <1>7 DEF ReapFree, ReapInv
  <2>2. /\ pc'[Idle] = "reap5" /\ pc'[reap.node] = "free"
        /\ \A u \in Threads \ {reap.node} : pc'[u] = pc[u]
        /\ pc[reap.node] \in {"dying", "dead"}
    BY <1>1, <1>3, <1>4, <1>7, <2>1 DEF ReapFree, Zombie, TypeInv, TypeOK, Tcb
  <2>3. Zombie' = Zombie \ {reap.node}
    BY <1>4, <2>1, <2>2 DEF Zombie, Tcb
  <2>4. ZombieList' /\ ReapInv'
    BY <2>1, <2>2, <2>3 DEF ZombieList, ReapInv
  <2>5. /\ IdleInv' /\ LabourInv' /\ ExclusiveInv' /\ PrivateInv' /\ BootInv'
        /\ ReadyQueues' /\ StoreInv' /\ Bitmap' /\ MergeInv'
        /\ RunsAThread' /\ UrgentInv' /\ LiveChain' /\ RegisterInv'
    <3>1. pc[Idle] \in {"run"} \cup Reclaiming /\ pc'[Idle] \in {"run"} \cup Reclaiming
      BY <2>1, <2>2 DEF Reclaiming
    <3>2. \A u \in Threads : pc'[u] = pc[u] \/ (pc[u] \in {"dying", "dead"} /\ pc'[u] = "free")
      <4> SUFFICES ASSUME NEW u \in Threads
                   PROVE  pc'[u] = pc[u] \/ (pc[u] \in {"dying", "dead"} /\ pc'[u] = "free")
        OBVIOUS
      <4>1. CASE u = reap.node
        BY <2>2, <4>1
      <4>2. CASE u # reap.node
        BY <2>2, <4>2
      <4> QED
        BY <4>1, <4>2
    <3>3. \A m \in Node \ (Zombie \cup {OS_DeadList}) : list'[m] = list[m]
      BY <2>1
    <3> QED
      BY <1>1, <1>3, <3>1, <3>2, <3>3, ReclaimKept
  <2> QED
    BY <1>1, <2>4, <2>5 DEF CoreInv
<1> QED
  BY <1>5, <1>6, <1>7 DEF Reap

\* startup leaves idle alone on its ready list, registered and running.
LEMMA InitCore == Init => CoreInv
<1> SUFFICES ASSUME Init PROVE CoreInv
  OBVIOUS
<1>1. TypeInv
  BY InitTypeInv
<1>2. /\ OS_ActivePrio = {} /\ OS_This = Idle /\ pend = FALSE /\ boot = "main" /\ live = <<Idle>>
      /\ pc[Idle] = "run" /\ timer[Idle] = "off" /\ Priority[Idle] = IdlePrio /\ Idle \in Tcb
      /\ \A t \in Threads : pc[t] = "free" /\ timer[t] = "off" /\ t # Idle
  BY NodeFacts DEF Init
<1>3. /\ \A t \in Tcb : pc[t] \in {"run", "free"} /\ timer[t] = "off"
      /\ \A t \in Tcb : Alive(t) <=> t = Idle
      /\ Zombie = {}
  BY <1>2 DEF Tcb, Alive, Zombie
<1>4. /\ \A p \in Levels : Ready(p) = {}
      /\ Ready(IdlePrio) = {Idle}
  BY <1>2, <1>3, NodeFacts DEF Ready
<1>5. /\ list[IdlePrio] = [next |-> Idle, prev |-> Idle]
      /\ list[Idle] = [next |-> IdlePrio, prev |-> IdlePrio]
      /\ \A n \in Levels \cup {OS_DeadList} : list[n] = [next |-> n, prev |-> n]
  <2> DEFINE blank == [n \in Node |-> [next |-> IF n \in Tcb \cup {NULL} THEN NULL ELSE n,
                                       prev |-> IF n \in Tcb \cup {NULL} THEN NULL ELSE n]]
  <2>1. list = [blank EXCEPT ![IdlePrio] = [next |-> Idle, prev |-> Idle],
                             ![Idle] = [next |-> IdlePrio, prev |-> IdlePrio]]
    BY DEF Init
  <2>2. \A n \in Levels \cup {OS_DeadList} : blank[n] = [next |-> n, prev |-> n]
    BY NodeFacts
  <2>3. blank = [n \in Node |-> blank[n]]
    OBVIOUS
  <2> HIDE DEF blank
  <2>4. /\ IdlePrio \in Node /\ Idle \in Node /\ IdlePrio # Idle
        /\ \A n \in Levels \cup {OS_DeadList} : n \in Node /\ n # IdlePrio /\ n # Idle
    BY NodeFacts
  <2> QED
    BY <2>1, <2>2, <2>3, <2>4
<1>6. ASSUME NEW n \in Levels \cup {OS_DeadList}
      PROVE  IsList(list, n, {})
  <2>1. list[n].next = n /\ list[n].prev = n
    <3>1. list[n] = [next |-> n, prev |-> n]
      BY <1>5, Zenon
    <3> QED
      BY <3>1
  <2>2. \A S \in SUBSET {} : S = {}
    OBVIOUS
  <2> QED
    BY <2>1, <2>2 DEF IsList, Linked, Reachable
<1>7. IsList(list, IdlePrio, {Idle})
  <2>1. IdlePrio # Idle
    BY NodeFacts
  <2> QED
    BY <1>5, <2>1 DEF IsList, Linked, Reachable
<1>8. IdleInv /\ LabourInv /\ ExclusiveInv /\ PrivateInv /\ BootInv
  BY <1>2, <1>3, NodeFacts DEF IdleInv, LabourInv, ExclusiveInv, PrivateInv, BootInv,
                               Linking, Building, Reclaiming
<1>9. ReadyQueues /\ ZombieList
  BY <1>3, <1>4, <1>6, <1>7 DEF ReadyQueues, ZombieList, Heads
<1>10. StoreInv /\ MergeInv /\ ReapInv /\ RegisterInv
  BY <1>2, <1>3 DEF StoreInv, MergeInv, ReapInv, RegisterInv, Building
<1>11. Bitmap /\ RunsAThread /\ UrgentInv
  BY <1>2, <1>4 DEF Bitmap, RunsAThread, UrgentInv
<1>12. LiveChain
  <2>1. Len(live) = 1 /\ live[1] = Idle
    BY <1>2
  <2>2. \A t : OnLive(t) <=> t = Idle
    BY <2>1 DEF OnLive
  <2>3. \A i, j \in 1..Len(live) : i = j
    BY <2>1
  <2> QED
    BY <1>3, <2>2, <2>3 DEF LiveChain
<1> QED
  BY <1>1, <1>8, <1>9, <1>10, <1>11, <1>12 DEF CoreInv

\* A step that changes nothing keeps everything.
LEMMA StutterSafe ==
  ASSUME CoreInv, UNCHANGED vars
  PROVE  CoreInv'
<1>1. /\ TypeInv /\ IdleInv /\ LabourInv /\ ExclusiveInv /\ PrivateInv /\ BootInv
      /\ ReadyQueues /\ StoreInv /\ Bitmap /\ MergeInv
      /\ RunsAThread /\ UrgentInv /\ ZombieList /\ ReapInv
      /\ LiveChain /\ RegisterInv
  BY DEF CoreInv
<1>2. UNCHANGED <<list, OS_ActivePrio, OS_This, Priority, live, timer, pend, pc, boot,
                  console, level, child, tail, first, bits, reap>>
  BY DEF vars
<1>3. TypeInv'
  BY <1>1, NextTypeInv
<1>4. /\ \A r : Ready(r)' = Ready(r) /\ (Storing(r)' <=> Storing(r)) /\ (Merging(r)' <=> Merging(r))
      /\ Zombie' = Zombie
      /\ \A u : (Alive(u)' <=> Alive(u)) /\ (Quiet(u)' <=> Quiet(u)) /\ (OnLive(u)' <=> OnLive(u))
  BY <1>2 DEF Ready, Storing, Merging, Zombie, Alive, Quiet, OnLive
<1>5. IdleInv' /\ LabourInv' /\ ExclusiveInv' /\ PrivateInv' /\ BootInv'
  BY <1>1, <1>2, <1>4 DEF IdleInv, LabourInv, ExclusiveInv, PrivateInv, BootInv
<1>6. ReadyQueues' /\ StoreInv' /\ Bitmap' /\ MergeInv'
  BY <1>1, <1>2, <1>4 DEF ReadyQueues, StoreInv, Bitmap, MergeInv
<1>7. RunsAThread' /\ UrgentInv' /\ ZombieList' /\ ReapInv'
  BY <1>1, <1>2, <1>4 DEF RunsAThread, UrgentInv, ZombieList, ReapInv
<1>8. LiveChain' /\ RegisterInv'
  BY <1>1, <1>2, <1>4 DEF LiveChain, RegisterInv
<1> QED
  BY <1>3, <1>5, <1>6, <1>7, <1>8 DEF CoreInv

\* CoreInv is kept by a careful application.
LEMMA NextCore ==
  ASSUME Careful = Disciplines
  PROVE  CoreInv /\ LevelInv /\ [Next]_vars => CoreInv'
<1> SUFFICES ASSUME CoreInv, LevelInv, [Next]_vars
             PROVE  CoreInv'
  OBVIOUS
<1>1. CASE UNCHANGED vars
  BY <1>1, StutterSafe
<1>2. ASSUME NEW t \in Threads, Tick(t)
      PROVE  CoreInv'
  BY <1>2, TickSafe
<1>3. ASSUME NEW t \in Threads, ThreadStep(t)
      PROVE  CoreInv'
  <2>1. CASE Compute(t)
    BY <2>1, StutterSafe DEF Compute
  <2>2. CASE Sleep(t)
    BY <2>2, SleepSafe
  <2>3. CASE Switch(t)
    BY <2>3, SwitchSafe
  <2>4. CASE SleepReturns(t)
    BY <2>4, SleepReturnsSafe
  <2>5. CASE Exit(t)
    BY <2>5, ExitSafe
  <2>6. ASSUME NEW u \in Threads, Kill(t, u)
        PROVE  CoreInv'
    BY <2>6, KillSafe
  <2>7. ASSUME NEW u \in Threads, UnregisterFaults(t, u)
        PROVE  CoreInv'
    BY <2>7, NoFault
  <2>8. ASSUME NEW u \in Threads, NEW p \in Levels, change_priority(t, u, p)
        PROVE  CoreInv'
    BY <2>8, ChangePrioritySafe
  <2>9. ASSUME NEW c \in Threads, NEW p \in Levels, AppLabour(t, c, p)
        PROVE  CoreInv'
    BY <2>9, AppLabourSafe
  <2> QED
    BY <1>3, <2>1, <2>2, <2>3, <2>4, <2>5, <2>6, <2>7, <2>8, <2>9 DEF ThreadStep
<1>4. ASSUME NEW t \in Tcb, LabourStep(t)
      PROVE  CoreInv'
  <2>1. CASE Register(t)
    BY <2>1, RegisterSafe
  <2>2. CASE LoadFirst(t)
    BY <2>2, LoadFirstSafe
  <2>3. CASE Link(t)
    <3>1. pc[t] = "add1" \/ pc[t] = "add2" \/ pc[t] = "add3"
      BY <2>3 DEF Link, LinkStores
    <3> QED
      BY <2>3, <3>1, FirstStoreSafe, MiddleStoreSafe, LastStoreSafe
  <2>4. CASE LoadBits(t)
    BY <2>4, LoadBitsSafe
  <2>5. CASE MergeBits(t)
    BY <2>5, MergeBitsSafe
  <2>6. CASE LabourReturns(t)
    BY <2>6, LabourReturnsSafe
  <2> QED
    BY <1>4, <2>1, <2>2, <2>3, <2>4, <2>5, <2>6 DEF LabourStep
<1>5. ASSUME NEW c \in Threads, IdleLabour(c)
      PROVE  CoreInv'
  BY <1>5, IdleLabourSafe
<1>6. CASE IdleLabourFails
  BY <1>6, IdleLabourFailsSafe
<1>7. CASE Reap
  BY <1>7, ReapSafe
<1>8. CASE Shift
  BY <1>8, ShiftSafe
<1> QED
  BY <1>1, <1>2, <1>3, <1>4, <1>5, <1>6, <1>7, <1>8 DEF Next

\* While the code that runs is not inside labour and not on its way out, no
\* thread more urgent than it is ready: the bitmap may only be late with the
\* thread idle is building, and everyone outranks that one.
LEMMA UrgentRuns == CoreInv => MostUrgentRuns
<1> SUFFICES ASSUME CoreInv, ~pend, pc[OS_This] \notin {"slept", "dying", "merged"} \cup Linking,
                    OS_This \in Tcb, NEW p \in Heads, Ready(p) # {}
             PROVE  Priority[OS_This] <= p
  BY DEF MostUrgentRuns
<1>1. /\ TypeInv /\ ExclusiveInv /\ PrivateInv /\ Bitmap /\ RunsAThread /\ UrgentInv
  BY DEF CoreInv
<1>2. Priority[OS_This] \in Levels \/ Priority[OS_This] = IdlePrio
  BY <1>1 DEF TypeInv, TypeOK, Heads
<1>3. CASE p = IdlePrio
  <2>1. \A q \in Levels : q \in Nat /\ q < 32
    BY NodeFacts DEF IdlePrio
  <2> QED
    BY <1>2, <1>3, <2>1 DEF IdlePrio
<1>4. CASE p \in OS_ActivePrio
  BY <1>1, <1>4 DEF UrgentInv
<1>5. CASE Merging(p)
  <2>1. PICK t \in Tcb : pc[t] \in Linking /\ Priority[child[t]] = p
    BY <1>5 DEF Merging, Linking
  <2>2. t = Idle /\ OS_This # Idle
    BY <1>1, <2>1 DEF ExclusiveInv, Tcb
  <2>3. Alive(OS_This) /\ OS_This \in Threads
    BY <1>1, <2>2 DEF RunsAThread, Ready, Tcb
  <2>4. Priority[OS_This] < p
    BY <1>1, <2>1, <2>2, <2>3 DEF PrivateInv
  <2>5. Priority[OS_This] \in Nat /\ p \in Nat
    BY <1>1, <2>1, <2>2, <2>3, NodeFacts DEF TypeInv, TypeOK
  <2> QED
    BY <2>4, <2>5
<1> QED
  BY <1>1, <1>3, <1>4, <1>5 DEF Bitmap, Heads

\* The parameter of labour stays the priority of the thread it is building: labour
\* sets both, and nobody changes a priority while a thread is inside labour.
LEMMA LevelKept ==
  ASSUME Careful = Disciplines, CoreInv, LevelInv, [Next]_vars
  PROVE  LevelInv'
<1>1. TypeInv
  BY DEF CoreInv
<1>2. SUFFICES ASSUME NEW u \in Tcb, pc'[u] \in Linking
               PROVE  level'[u] = Priority'[child'[u]]
  BY DEF LevelInv
<1>3. ASSUME UNCHANGED <<level, child, Priority>>, pc[u] \in Linking
      PROVE  level'[u] = Priority'[child'[u]]
  BY <1>3 DEF LevelInv
<1>4. CASE UNCHANGED vars
  BY <1>2, <1>3, <1>4 DEF vars
<1>5. ASSUME NEW t \in Threads, Tick(t)
      PROVE  level'[u] = Priority'[child'[u]]
  BY <1>1, <1>2, <1>3, <1>5, NodeFacts DEF Tick, labourVars, Linking, TypeInv, TypeOK
<1>6. CASE Shift
  BY <1>2, <1>3, <1>6 DEF Shift, threadVars, labourVars
<1>7. ASSUME NEW t \in Tcb, NEW c \in Threads, NEW p \in Levels, LabourCall(t, c, p),
             \A v \in Tcb : pc[v] \notin Linking
      PROVE  level'[u] = Priority'[child'[u]]
  <2>1. u = t
    BY <1>1, <1>2, <1>7, NodeFacts DEF LabourCall, Linking, TypeInv, TypeOK
  <2>2. level'[t] = p /\ child'[t] = c /\ Priority'[c] = p
    BY <1>1, <1>7, NodeFacts DEF LabourCall, TypeInv, TypeOK
  <2> QED
    BY <2>1, <2>2
<1>8. ASSUME NEW t \in Threads, ThreadStep(t)
      PROVE  level'[u] = Priority'[child'[u]]
  <2>1. CASE Compute(t) \/ Sleep(t) \/ Switch(t) \/ SleepReturns(t)
    BY <1>1, <1>2, <1>3, <2>1, NodeFacts
       DEF Compute, Sleep, Switch, SleepReturns, vars, threadVars, labourVars, Linking, TypeInv, TypeOK
  <2>2. CASE Exit(t)
    BY <1>1, <1>2, <1>3, <2>2, NodeFacts DEF Exit, labourVars, Linking, TypeInv, TypeOK
  <2>3. ASSUME NEW v \in Threads, Kill(t, v)
        PROVE  level'[u] = Priority'[child'[u]]
    BY <1>1, <1>2, <1>3, <2>3, NodeFacts DEF Kill, labourVars, Linking, TypeInv, TypeOK
  <2>4. ASSUME NEW v \in Threads, UnregisterFaults(t, v)
        PROVE  level'[u] = Priority'[child'[u]]
    BY <1>1, <1>2, <1>3, <2>4, NodeFacts DEF UnregisterFaults, threadVars, labourVars, Linking, TypeInv, TypeOK
  <2>5. ASSUME NEW v \in Threads, NEW p \in Levels, change_priority(t, v, p)
        PROVE  level'[u] = Priority'[child'[u]]
    <3>1. Calls(t) /\ Quiet(t) /\ pc' = pc
      BY <2>5 DEF change_priority, Disciplines
    <3>2. \A w \in Tcb : pc[w] \notin Linking
      BY <3>1, QuietFacts
    <3> QED
      BY <1>2, <3>1, <3>2
  <2>6. ASSUME NEW c \in Threads, NEW p \in Levels, AppLabour(t, c, p)
        PROVE  level'[u] = Priority'[child'[u]]
    <3>1. Calls(t) /\ Quiet(t) /\ LabourCall(t, c, p)
      BY <2>6 DEF AppLabour, Disciplines
    <3>2. \A w \in Tcb : pc[w] \notin Linking
      BY <3>1, QuietFacts
    <3> QED
      BY <1>7, <3>1, <3>2, NodeFacts
  <2> QED
    BY <1>8, <2>1, <2>2, <2>3, <2>4, <2>5, <2>6 DEF ThreadStep
<1>9. ASSUME NEW t \in Tcb, LabourStep(t)
      PROVE  level'[u] = Priority'[child'[u]]
  <2>1. CASE Register(t)
    BY <1>1, <1>2, <1>3, <2>1 DEF Register, threadVars, labourVars, Linking, TypeInv, TypeOK
  <2>2. CASE LoadFirst(t)
    BY <1>1, <1>2, <1>3, <2>2 DEF LoadFirst, threadVars, Linking, TypeInv, TypeOK
  <2>3. CASE Link(t)
    BY <1>1, <1>2, <1>3, <2>3, SMTT(30)
       DEF Link, LinkStores, threadVars, labourVars, Linking, TypeInv, TypeOK
  <2>4. CASE LoadBits(t)
    BY <1>1, <1>2, <1>3, <2>4 DEF LoadBits, threadVars, Linking, TypeInv, TypeOK
  <2>5. CASE MergeBits(t)
    <3>1. /\ u # t /\ pc[u] \in Linking
          /\ level'[u] = level[u] /\ child'[u] = child[u] /\ Priority' = Priority
      BY <1>1, <1>2, <2>5 DEF MergeBits, threadVars, Linking, TypeInv, TypeOK
    <3> QED
      BY <3>1 DEF LevelInv
  <2>6. CASE LabourReturns(t)
    <3>1. /\ u # t /\ pc[u] \in Linking
          /\ level'[u] = level[u] /\ child'[u] = child[u] /\ Priority' = Priority
      BY <1>1, <1>2, <2>6 DEF LabourReturns, threadVars, Linking, TypeInv, TypeOK
    <3> QED
      BY <3>1 DEF LevelInv
  <2> QED
    BY <1>9, <2>1, <2>2, <2>3, <2>4, <2>5, <2>6 DEF LabourStep
<1>10. ASSUME NEW c \in Threads, IdleLabour(c)
       PROVE  level'[u] = Priority'[child'[u]]
  <2>1. PICK p \in Levels : LabourCall(Idle, c, p)
    BY <1>10, NodeFacts DEF IdleLabour
  <2>2. \A v \in Tcb : pc[v] \notin Linking
    <3>1. OS_This = Idle /\ pc[Idle] = "run"
      BY <1>10 DEF IdleLabour, Running
    <3> QED
      BY <3>1, NoAppLabour DEF CoreInv, Tcb, Linking
  <2> QED
    BY <1>7, <2>1, <2>2, NodeFacts
<1>11. CASE IdleLabourFails
  BY <1>2, <1>3, <1>11 DEF IdleLabourFails, threadVars, labourVars
<1>12. CASE Reap
  <2>1. UNCHANGED <<level, child, Priority>>
    BY <1>12 DEF Reap, threadVars, labourVars
  <2>2. pc[u] \in Linking
    BY <1>1, <1>2, <1>12, NodeFacts DEF Reap, ReapNext, ReapUnlink, ReapFree, Linking, Reclaiming, TypeInv, TypeOK
  <2> QED
    BY <1>3, <2>1, <2>2
<1> QED
  BY <1>4, <1>5, <1>6, <1>8, <1>9, <1>10, <1>11, <1>12 DEF Next

\* In the initial state nobody is inside labour.
LEMMA InitLevel == Init => LevelInv
  BY NodeFacts DEF Init, LevelInv, Linking

\* The strengthened invariant holds in every state of a kernel whose application
\* follows the disciplines: what each call has done by each of the points at which
\* kernel.c may be interrupted (kernel.c:165-699).
THEOREM KernelInductive ==
  ASSUME Careful = Disciplines
  PROVE  Spec => []IInv
<1>1. IInv /\ [Next]_vars => IInv'
  BY NextCore, LevelKept DEF IInv
<1>2. Init => IInv
  BY InitCore, InitLevel DEF IInv
<1> QED
  BY <1>1, <1>2, PTL DEF Spec

\* For every set of threads and priorities, and whatever the timer interrupts:
\* in a kernel whose application follows the disciplines the ready lists, the
\* bitmap, the list of zombies and the chain of live threads are what they claim
\* to be, and the processor is given to a live thread (kernel.c:60-68, 165-699).
THEOREM KernelSafe ==
  ASSUME Careful = Disciplines
  PROVE  Spec => [](ReadyQueues /\ Bitmap /\ RunsAThread /\ ZombieList /\ LiveChain)
<1>1. IInv => ReadyQueues /\ Bitmap /\ RunsAThread /\ ZombieList /\ LiveChain
  BY DEF IInv, CoreInv
<1>2. Spec => []IInv
  BY KernelInductive
<1> QED
  BY <1>1, <1>2, PTL

\* Under the same disciplines the scheduler is priority-preemptive: no ready
\* thread waits for a less urgent one that runs outside labour (kernel.c:457-520).
THEOREM KernelUrgent ==
  ASSUME Careful = Disciplines
  PROVE  Spec => []MostUrgentRuns
<1>1. Spec => []IInv
  BY KernelInductive
<1>2. IInv => MostUrgentRuns
  BY UrgentRuns DEF IInv
<1> QED
  BY <1>1, <1>2, PTL
=============================================================================
