---------------------------- MODULE TickerProofs ----------------------------
(***************************************************************************)
(* The timers, for any number of them, any delays and any width of the     *)
(* moments, when the threads are careful: the ring is whole, the one       *)
(* counter counts for every timer of it, and together they are an alarm    *)
(* clock.                                                                  *)
(***************************************************************************)
EXTENDS Ticker, ListProofs, FiniteSetTheorems

-----------------------------------------------------------------------------
\* The TIMER records, and p for OS_pTimer, are parameters where a delete is under way
\* and the ring is looked at as it will be.
Records == [Timers -> [Next : Timers \cup {NULL}, Prev : Timers \cup {NULL}, Time : 0..(W-1)]]

\* A record is clear, or Next and Prev undo each other.
Knit(G) ==
  \A t \in Timers :
    \/ G[t].Next = NULL /\ G[t].Prev = NULL
    \/ /\ G[t].Next \in Timers /\ G[t].Prev \in Timers
       /\ G[G[t].Next].Prev = t /\ G[G[t].Prev].Next = t

\* R is one ring.
Round(G, R) ==
  /\ R \in SUBSET Timers
  /\ \A u \in R : G[u].Next \in R /\ G[u].Prev \in R
  /\ \A S \in SUBSET R : S # {} /\ (\A u \in S : G[u].Next \in S) => S = R

Unlinking == {"unlink1", "unlink2", "clear"}
Linked_   == {"sleep", "wait", "slept", "timeout",
              "test", "stop", "reset", "none", "left", "hand", "start"}

\* R is the ring of OS_pTimer, or OS_pTimer is NULL and nobody is asleep; timers that
\* have rung may be on rings of their own.
Sound(G, R) ==
  /\ Knit(G) /\ Round(G, R)
  /\ IF OS_pTimer = NULL THEN R = {} ELSE OS_pTimer \in R
  /\ Asleep \subseteq R
  /\ \A t \in Timers : IF pc[t] \in Linked_ THEN G[t].Next \in Timers ELSE G[t] = Unused

\* The records as they will be when the delete of t, which has begun to unlink, is done.
Later(t) ==
  IF pc[t] = "unlink1" THEN Unlinked(t)
  ELSE IF pc[t] = "unlink2"
       THEN [[timer EXCEPT ![timer[t].Next].Prev = timer[t].Prev] EXCEPT ![t] = Unused]
       ELSE [timer EXCEPT ![t] = Unused]

\* Where p, for OS_pTimer, is while t is deleted.
Where(t, p) ==
  /\ pc[t] \in {"stop", "reset", "none"} => p = t /\ timer[t].Next = t
  /\ pc[t] \in {"left", "hand"} => p = t /\ timer[t].Next # t
  /\ pc[t] = "start" => p = timer[t].Next /\ timer[t].Next # t

RingIs(R) ==
  /\ TypeOK
  /\ \A t, u \in Timers : pc[t] \in Deleting /\ pc[u] \in Deleting => t = u
  /\ (\A t \in Timers : pc[t] \notin Unlinking) => Sound(timer, R)
  /\ \A t \in Timers : pc[t] \in Unlinking =>
       Sound(Later(t), R) /\ timer[t].Next \in Timers /\ timer[t].Prev \in Timers
  /\ \A t \in Timers : pc[t] \in Deleting => Where(t, OS_pTimer)

\* How far u lies behind p, by the moments.
Gap(G, p, u) == (G[u].Time - G[p].Time) % W
Left == IF flag THEN 0 ELSE get_left_time

\* The moments rise around the ring R from p on and do not go past now, and with L left for
\* p each timer of A has what r says.
OnTime(G, R, p, L, A, r) ==
  /\ \A u \in R : G[u].Next # p => Gap(G, p, u) <= Gap(G, p, G[u].Next)
  /\ \A u \in R : Gap(G, p, u) + L <= W
  /\ \A u \in A : Gap(G, p, u) + L = r[u]

\* Timers of A, with what r says of them.
Kept(B, s, A, r) == B \subseteq A /\ \A u \in B : s[u] = r[u]

TimeIs(R) ==
  /\ flag => OS_pTimer # NULL /\ \A t \in Timers : pc[t] \notin Deleting
  /\ OS_pTimer # NULL /\ ~flag =>
       \/ counting /\ get_left_time # 0
       \/ \E t \in Timers : pc[t] \in {"reset", "none"}
  /\ OS_pTimer = NULL => ~counting
  /\ (\A t \in Timers : pc[t] \notin Unlinking /\ pc[t] # "start") =>
       OnTime(timer, R, OS_pTimer, Left, Asleep, rest)
  /\ \A t \in Timers :
       /\ pc[t] \in {"reset", "none"} => ~counting
       /\ pc[t] = "start" => OnTime(timer, R, t, Left, Asleep, rest) /\ ToNext(t) # 0
       /\ pc[t] \in Unlinking => OnTime(Later(t), R, OS_pTimer, Left, Asleep, rest)
       /\ pc[t] \in {"hand", "start"} => LeftTime[t] = get_left_time
       /\ pc[t] \in {"test", "left", "hand"} => NoZero(t)

RingInv == \E R \in SUBSET Timers : RingIs(R)
TimeInv == \E R \in SUBSET Timers : RingIs(R) /\ TimeIs(R)

-----------------------------------------------------------------------------
\* Linking t in behind q, record by record.
Inserted(G, t, q, x) ==
  [G EXCEPT ![t] = [Next |-> G[q].Next, Prev |-> q, Time |-> x],
            ![G[q].Next].Prev = t,
            ![q].Next = t]

\* The stores of OS_timer_add that link a timer in, read back field by field; only t, q
\* and the timer behind q change (ticker.c:120-189).
LEMMA InsertShape ==
  ASSUME NEW G \in Records, NEW t \in Timers, NEW q \in Timers, NEW x \in 0..(W-1),
         G[q].Next \in Timers, q # t, G[q].Next # t
  PROVE  /\ Inserted(G, t, q, x) \in Records
         /\ Inserted(G, t, q, x)[t] = [Next |-> G[q].Next, Prev |-> q, Time |-> x]
         /\ \A u \in Timers \ {t} :
              /\ Inserted(G, t, q, x)[u].Time = G[u].Time
              /\ Inserted(G, t, q, x)[u].Next = IF u = q THEN t ELSE G[u].Next
              /\ Inserted(G, t, q, x)[u].Prev = IF u = G[q].Next THEN t ELSE G[u].Prev
BY DEF Inserted, Records

\* A ring stays a ring, one longer, and the other rings stay what they are.
LEMMA InsertRing ==
  ASSUME NEW G \in Records, NEW R, Knit(G), Round(G, R), NEW t \in Timers, G[t].Next = NULL,
         NEW q \in R, NEW x \in 0..(W-1)
  PROVE  /\ Inserted(G, t, q, x) \in Records
         /\ Knit(Inserted(G, t, q, x)) /\ Round(Inserted(G, t, q, x), R \cup {t})
<1> DEFINE H == Inserted(G, t, q, x)
           n == G[q].Next
<1>1. q \in Timers /\ n \in R /\ n \in Timers /\ t \notin R /\ q # t /\ n # t /\ G[n].Prev = q
  BY TickerAssumption DEF Round, Knit
<1>2. /\ H \in Records
      /\ H[t].Next = n /\ H[t].Prev = q
      /\ \A u \in Timers \ {t} : /\ H[u].Next = IF u = q THEN t ELSE G[u].Next
                                 /\ H[u].Prev = IF u = n THEN t ELSE G[u].Prev
  <2> HIDE DEF H
  <2>1. /\ H \in Records /\ H[t] = [Next |-> n, Prev |-> q, Time |-> x]
        /\ \A u \in Timers \ {t} : /\ H[u].Next = IF u = q THEN t ELSE G[u].Next
                                   /\ H[u].Prev = IF u = n THEN t ELSE G[u].Prev
    BY <1>1, InsertShape DEF H
  <2> QED
    BY <2>1
<1>3. \A u \in Timers : G[u].Next # t /\ G[u].Prev # t
  BY TickerAssumption DEF Knit
<1> HIDE DEF H, n
<1>4. Knit(H)
  <2> SUFFICES ASSUME NEW u \in Timers
               PROVE  \/ H[u].Next = NULL /\ H[u].Prev = NULL
                      \/ /\ H[u].Next \in Timers /\ H[u].Prev \in Timers
                         /\ H[H[u].Next].Prev = u /\ H[H[u].Prev].Next = u
    BY DEF Knit
  <2>1. CASE u = t
    BY <1>1, <1>2, <2>1
  <2>2. CASE u # t
    <3>1. \/ G[u].Next = NULL /\ G[u].Prev = NULL
          \/ /\ G[u].Next \in Timers /\ G[u].Prev \in Timers
             /\ G[G[u].Next].Prev = u /\ G[G[u].Prev].Next = u
      BY DEF Knit
    <3>2. G[u].Next = n => u = q
      BY <1>1, <3>1, TickerAssumption
    <3>3. G[u].Prev = q => u = n
      BY <1>1, <3>1, TickerAssumption DEF n
    <3>4. G[q].Next = n
      BY DEF n
    <3>5. CASE G[u].Next = NULL /\ G[u].Prev = NULL
      <4>1. u # q /\ u # n
        BY <1>1, <3>4, <3>5, TickerAssumption
      <4> QED
        BY <1>2, <2>2, <3>5, <4>1
    <3>6. CASE G[u].Next \in Timers /\ G[u].Prev \in Timers
      <4>1. G[G[u].Next].Prev = u /\ G[G[u].Prev].Next = u
        BY <3>1, <3>6, TickerAssumption
      <4>2. H[u].Next \in Timers /\ H[H[u].Next].Prev = u
        BY <1>1, <1>2, <1>3, <2>2, <3>2, <3>6, <4>1
      <4>3. H[u].Prev \in Timers /\ H[H[u].Prev].Next = u
        BY <1>1, <1>2, <1>3, <2>2, <3>3, <3>6, <4>1
      <4> QED
        BY <4>2, <4>3
    <3> QED
      BY <3>1, <3>5, <3>6
  <2> QED
    BY <2>1, <2>2
<1>5. ASSUME NEW S \in SUBSET (R \cup {t}), S # {}, \A u \in S : H[u].Next \in S
      PROVE  S = R \cup {t}
  <2>1. n \in S \/ t \notin S
    BY <1>2, <1>5
  <2>2. S \ {t} # {}
    BY <1>1, <1>5, <2>1
  <2>3. \A u \in S \ {t} : G[u].Next \in S \ {t}
    <3> SUFFICES ASSUME NEW u \in S \ {t} PROVE G[u].Next \in S \ {t}
      OBVIOUS
    <3>1. u \in Timers
      BY DEF Round
    <3>2. CASE u = q
      BY <1>1, <1>2, <1>5, <2>1, <3>1, <3>2 DEF n
    <3>3. CASE u # q
      BY <1>2, <1>3, <1>5, <3>1, <3>3
    <3> QED
      BY <3>2, <3>3
  <2>4. S \ {t} = R
    <3>1. S \ {t} \in SUBSET R
      OBVIOUS
    <3> QED
      BY <2>2, <2>3, <3>1 DEF Round
  <2>5. t \in S
    BY <1>1, <1>2, <1>5, <2>4
  <2> QED
    BY <2>4, <2>5
<1>6. \A u \in R \cup {t} : H[u].Next \in R \cup {t} /\ H[u].Prev \in R \cup {t}
  BY <1>1, <1>2 DEF Round
<1>7. Round(H, R \cup {t})
  BY <1>5, <1>6 DEF Round
<1> QED
  BY <1>2, <1>4, <1>7 DEF H

\* Unlinking t, record by record.
Cut(G, t) ==
  LET cut == [G EXCEPT ![G[t].Prev].Next = G[t].Next,
                       ![G[t].Next].Prev = G[t].Prev]
  IN  [cut EXCEPT ![t] = Unused]

\* The stores of OS_timer_del that unlink a timer, read back field by field; the two
\* neighbours may be one timer (ticker.c:207-239).
LEMMA CutShape ==
  ASSUME NEW G \in Records, NEW t \in Timers, G[t].Next \in Timers, G[t].Prev \in Timers
  PROVE  /\ Cut(G, t) \in Records /\ Cut(G, t)[t] = Unused
         /\ \A u \in Timers \ {t} :
              /\ Cut(G, t)[u].Time = G[u].Time
              /\ Cut(G, t)[u].Next = IF u = G[t].Prev THEN G[t].Next ELSE G[u].Next
              /\ Cut(G, t)[u].Prev = IF u = G[t].Next THEN G[t].Prev ELSE G[u].Prev
<1>1. 0 \in 0..(W-1)
  BY TickerAssumption
<1> QED
  BY <1>1 DEF Cut, Records, Unused

\* The ring of t, one shorter, stays a ring, and so do the others.
LEMMA CutRing ==
  ASSUME NEW G \in Records, NEW R, Knit(G), Round(G, R), NEW t \in Timers, G[t].Next \in Timers
  PROVE  /\ Cut(G, t) \in Records
         /\ Knit(Cut(G, t)) /\ Round(Cut(G, t), R \ {t})
<1> DEFINE H == Cut(G, t)
           n == G[t].Next
           q == G[t].Prev
<1>1. q \in Timers /\ n \in Timers /\ G[n].Prev = t /\ G[q].Next = t
  BY TickerAssumption DEF Knit
<1>2. /\ H \in Records
      /\ H[t].Next = NULL /\ H[t].Prev = NULL
      /\ \A u \in Timers \ {t} : /\ H[u].Next = IF u = q THEN n ELSE G[u].Next
                                 /\ H[u].Prev = IF u = n THEN q ELSE G[u].Prev
  <2> HIDE DEF H
  <2>1. /\ H \in Records /\ H[t] = Unused
        /\ \A u \in Timers \ {t} : /\ H[u].Next = IF u = q THEN n ELSE G[u].Next
                                   /\ H[u].Prev = IF u = n THEN q ELSE G[u].Prev
    BY <1>1, CutShape DEF H
  <2> QED
    BY <2>1 DEF Unused
<1> HIDE DEF H
<1>3. \A u \in Timers : (G[u].Next = t => u = q) /\ (G[u].Prev = t => u = n)
  BY <1>1, TickerAssumption DEF Knit
<1>4. G[t].Next = n /\ G[t].Prev = q /\ (n = t <=> q = t)
  BY <1>1
<1> HIDE DEF n, q
<1>5. Knit(H)
  <2> SUFFICES ASSUME NEW u \in Timers
               PROVE  \/ H[u].Next = NULL /\ H[u].Prev = NULL
                      \/ /\ H[u].Next \in Timers /\ H[u].Prev \in Timers
                         /\ H[H[u].Next].Prev = u /\ H[H[u].Prev].Next = u
    BY DEF Knit
  <2>1. CASE u = t
    BY <1>2, <2>1
  <2>2. CASE u # t
    <3>1. \/ G[u].Next = NULL /\ G[u].Prev = NULL
          \/ /\ G[u].Next \in Timers /\ G[u].Prev \in Timers
             /\ G[G[u].Next].Prev = u /\ G[G[u].Prev].Next = u
      BY DEF Knit
    <3>2. CASE G[u].Next = NULL /\ G[u].Prev = NULL
      <4>1. u # q /\ u # n
        BY <1>1, <3>2, TickerAssumption
      <4> QED
        BY <1>2, <2>2, <3>2, <4>1
    <3>3. CASE G[u].Next \in Timers /\ G[u].Prev \in Timers
      <4>1. G[G[u].Next].Prev = u /\ G[G[u].Prev].Next = u
        BY <3>1, <3>3, TickerAssumption
      <4>2. H[u].Next \in Timers /\ H[H[u].Next].Prev = u
        <5>1. CASE u = q
          <6>1. n # t
            BY <1>4, <2>2, <5>1
          <6> QED
            BY <1>1, <1>2, <2>2, <5>1, <6>1
        <5>2. CASE u # q
          <6>1. H[u].Next = G[u].Next /\ G[u].Next # t /\ G[u].Next # n
            BY <1>1, <1>2, <1>3, <2>2, <4>1, <5>2
          <6> QED
            BY <1>2, <3>3, <4>1, <6>1
        <5> QED
          BY <5>1, <5>2
      <4>3. H[u].Prev \in Timers /\ H[H[u].Prev].Next = u
        <5>1. CASE u = n
          <6>1. q # t
            BY <1>4, <2>2, <5>1
          <6> QED
            BY <1>1, <1>2, <2>2, <5>1, <6>1
        <5>2. CASE u # n
          <6>1. H[u].Prev = G[u].Prev /\ G[u].Prev # t /\ G[u].Prev # q
            BY <1>1, <1>2, <1>3, <2>2, <4>1, <5>2
          <6> QED
            BY <1>2, <3>3, <4>1, <6>1
        <5> QED
          BY <5>1, <5>2
      <4> QED
        BY <4>2, <4>3
    <3> QED
      BY <3>1, <3>2, <3>3
  <2> QED
    BY <2>1, <2>2
<1>6. ASSUME NEW S \in SUBSET (R \ {t}), S # {}, \A u \in S : H[u].Next \in S
      PROVE  S = R \ {t}
  <2> DEFINE Z == IF q \in S THEN S \cup {t} ELSE S
  <2>1. \A u \in S : u \in Timers /\ u # t /\ u \in R
    BY DEF Round
  <2>2. q \in S => n \in S /\ t \in R
    BY <1>1, <1>2, <1>6, <2>1 DEF Round
  <2>3. Z \in SUBSET R /\ Z # {}
    BY <1>6, <2>1, <2>2
  <2>4. \A u \in Z : G[u].Next \in Z
    <3> SUFFICES ASSUME NEW u \in Z PROVE G[u].Next \in Z
      OBVIOUS
    <3>1. CASE u = t
      BY <1>4, <2>1, <2>2, <3>1
    <3>2. CASE u # t /\ u = q
      BY <1>1, <3>2
    <3>3. CASE u # t /\ u # q
      BY <1>2, <1>6, <2>1, <3>3
    <3> QED
      BY <3>1, <3>2, <3>3
  <2>5. Z = R
    <3> HIDE DEF Z
    <3> QED
      BY <2>3, <2>4 DEF Round
  <2> QED
    BY <2>1, <2>5
<1>7. \A u \in R \ {t} : H[u].Next \in R \ {t} /\ H[u].Prev \in R \ {t}
  <2> SUFFICES ASSUME NEW u \in R, u # t
               PROVE  H[u].Next \in R \ {t} /\ H[u].Prev \in R \ {t}
    OBVIOUS
  <2>1. u \in Timers /\ G[u].Next \in R /\ G[u].Prev \in R
    BY DEF Round
  <2>2. t \in R => n \in R /\ q \in R
    BY <1>4 DEF Round
  <2>3. H[u].Next \in R \ {t}
    BY <1>1, <1>2, <1>3, <1>4, <2>1, <2>2
  <2>4. H[u].Prev \in R \ {t}
    BY <1>1, <1>2, <1>3, <1>4, <2>1, <2>2
  <2> QED
    BY <2>3, <2>4
<1>8. Round(H, R \ {t})
  BY <1>6, <1>7 DEF Round
<1> QED
  BY <1>2, <1>5, <1>8 DEF H

-----------------------------------------------------------------------------
\* What Step is defined to be.
Walk(k, f) ==
  f = [i \in 0..k |-> IF i = 0 THEN OS_pTimer
                      ELSE IF f[i - 1] = NULL THEN NULL ELSE timer[f[i - 1]].Next]

\* Step is the walk its recursive definition says it is: walks of every length exist,
\* or there would be a shortest length without one.
LEMMA StepIs ==
  ASSUME IsFiniteSet(Timers)
  PROVE  Walk(Cardinality(Timers), Step)
<1> DEFINE Bad == {k \in Nat : ~\E f : Walk(k, f)}
<1>1. Bad = {}
  <2> SUFFICES ASSUME Bad # {} PROVE FALSE
    OBVIOUS
  <2>1. PICK m \in Bad : \A k \in Bad : m <= k
    <3>1. Bad \in SUBSET Nat
      OBVIOUS
    <3> HIDE DEF Bad
    <3> QED
      BY <3>1, Least
  <2>2. m # 0
    <3>1. Walk(0, [i \in 0..0 |-> OS_pTimer])
      <4> DEFINE f == [i \in 0..0 |-> OS_pTimer]
      <4>1. \A i \in 0..0 : i = 0
        OBVIOUS
      <4> QED
        BY <4>1 DEF Walk
    <3> QED
      BY <3>1
  <2>3. m - 1 \in Nat /\ m - 1 \notin Bad
    BY <2>1, <2>2
  <2>4. PICK g : Walk(m - 1, g)
    BY <2>3
  <2> DEFINE x == IF g[m - 1] = NULL THEN NULL ELSE timer[g[m - 1]].Next
             f == [i \in 0..m |-> IF i = m THEN x ELSE g[i]]
             h == [i \in 0..m |-> IF i = 0 THEN OS_pTimer
                                  ELSE IF f[i - 1] = NULL THEN NULL ELSE timer[f[i - 1]].Next]
  <2>5. \A i \in 0..m : f[i] = h[i]
    <3> SUFFICES ASSUME NEW i \in 0..m PROVE f[i] = h[i]
      OBVIOUS
    <3>1. i # 0 => i - 1 \in 0..m /\ i - 1 # m /\ f[i - 1] = g[i - 1]
      BY <2>3
    <3>2. CASE i = m
      BY <2>2, <3>1, <3>2
    <3>3. CASE i # m
      <4>1. i \in 0..(m - 1)
        BY <2>3, <3>3
      <4>2. g[i] = IF i = 0 THEN OS_pTimer
                   ELSE IF g[i - 1] = NULL THEN NULL ELSE timer[g[i - 1]].Next
        BY <2>4, <4>1 DEF Walk
      <4> QED
        BY <3>1, <3>3, <4>2
    <3> QED
      BY <3>2, <3>3
  <2>6. f = h
    BY <2>5
  <2>7. Walk(m, f)
    BY <2>6 DEF Walk
  <2> HIDE DEF f
  <2> QED
    BY <2>1, <2>7
<1>2. Cardinality(Timers) \in Nat
  BY FS_CardinalityType
<1>3. \E f : Walk(Cardinality(Timers), f)
  BY <1>1, <1>2
<1> QED
  BY <1>3 DEF Step, Walk

\* Every step of the walk is a timer of the ring, the one after the step before.
LEMMA Steps ==
  ASSUME timer \in Records, NEW R, Round(timer, R), OS_pTimer \in R
  PROVE  /\ Cardinality(Timers) \in Nat
         /\ Step \in [0..Cardinality(Timers) -> R]
         /\ Step[0] = OS_pTimer
         /\ \A k \in 0..(Cardinality(Timers) - 1) : Step[k + 1] = timer[Step[k]].Next
<1> DEFINE N == Cardinality(Timers)
           Bad == {k \in Nat : k <= N /\ Step[k] \notin R}
<1>1. N \in Nat
  BY TickerAssumption, FS_CardinalityType
<1> HIDE DEF N
<1>2. Step = [i \in 0..N |-> IF i = 0 THEN OS_pTimer
                             ELSE IF Step[i - 1] = NULL THEN NULL ELSE timer[Step[i - 1]].Next]
  BY TickerAssumption, StepIs DEF Walk, N
<1>3. Step[0] = OS_pTimer
  BY <1>1, <1>2
<1>4. \A k \in 0..(N - 1) : Step[k + 1] = IF Step[k] = NULL THEN NULL ELSE timer[Step[k]].Next
  <2> SUFFICES ASSUME NEW k \in 0..(N - 1)
               PROVE  Step[k + 1] = IF Step[k] = NULL THEN NULL ELSE timer[Step[k]].Next
    OBVIOUS
  <2>1. k + 1 \in 0..N /\ k + 1 # 0 /\ (k + 1) - 1 = k
    BY <1>1
  <2>2. \A i \in 0..N : Step[i] = IF i = 0 THEN OS_pTimer
                           ELSE IF Step[i - 1] = NULL THEN NULL ELSE timer[Step[i - 1]].Next
    BY <1>2
  <2>3. Step[k + 1] = IF Step[(k + 1) - 1] = NULL THEN NULL ELSE timer[Step[(k + 1) - 1]].Next
    BY <2>1, <2>2
  <2> QED
    BY <2>1, <2>3
<1>5. \A u \in R : u # NULL /\ timer[u].Next \in R
  BY TickerAssumption DEF Round
<1>6. Bad = {}
  <2> SUFFICES ASSUME Bad # {} PROVE FALSE
    OBVIOUS
  <2>1. PICK m \in Bad : \A k \in Bad : m <= k
    <3>1. Bad \in SUBSET Nat
      OBVIOUS
    <3> HIDE DEF Bad
    <3> QED
      BY <3>1, Least
  <2>2. m # 0
    BY <1>3
  <2>3. m - 1 \in 0..(N - 1) /\ m - 1 \notin Bad /\ (m - 1) + 1 = m /\ m - 1 \in Nat
    BY <1>1, <2>1, <2>2
  <2>4. Step[m - 1] \in R
    BY <1>1, <2>3
  <2>5. Step[m] \in R
    BY <1>4, <1>5, <2>3, <2>4
  <2> QED
    BY <2>1, <2>5
<1>7. \A k \in 0..N : Step[k] \in R
  BY <1>1, <1>6
<1>8. \A k \in 0..(N - 1) : Step[k + 1] = timer[Step[k]].Next
  BY <1>1, <1>4, <1>5, <1>7
<1>9. Step \in [0..N -> R]
  BY <1>2, <1>7
<1> QED
  BY <1>1, <1>3, <1>8, <1>9 DEF N

\* The walk comes back to OS_pTimer when it has met every timer of the ring once.
LEMMA Cycle ==
  ASSUME timer \in Records, NEW R, Knit(timer), Round(timer, R), OS_pTimer \in R
  PROVE  /\ Ring = R /\ Cardinality(R) \in 1..Cardinality(Timers)
         /\ Step[Cardinality(R)] = OS_pTimer
         /\ \A k \in 1..(Cardinality(R) - 1) : Step[k] # OS_pTimer
         /\ R = {Step[k] : k \in 0..(Cardinality(R) - 1)}
<1> DEFINE N == Cardinality(Timers)
<1>1. /\ N \in Nat /\ Step \in [0..N -> R] /\ Step[0] = OS_pTimer
      /\ \A k \in 0..(N - 1) : Step[k + 1] = timer[Step[k]].Next
  BY Steps
<1> HIDE DEF N
<1>2. \A k \in 0..N : Step[k] \in Timers /\ Step[k] \in R
  BY <1>1 DEF Round
<1>3. \A u \in R : timer[timer[u].Next].Prev = u
  BY TickerAssumption DEF Knit, Round
<1>4. ASSUME NEW i \in Nat, NEW j \in Nat \ {0}, i + j <= N, Step[i] = Step[i + j]
      PROVE  Step[j] = OS_pTimer
  <2> DEFINE I == {x \in Nat : x + j <= N /\ Step[x] = Step[x + j]}
  <2>1. I \in SUBSET Nat /\ I # {}
    BY <1>4
  <2>2. PICK x \in I : \A y \in I : x <= y
    <3> HIDE DEF I
    <3> QED
      BY <2>1, Least
  <2>3. CASE x = 0
    BY <1>1, <2>2, <2>3
  <2>4. CASE x # 0
    <3> DEFINE y == x - 1
    <3>1. /\ y \in Nat /\ y \in 0..(N - 1) /\ y + 1 = x /\ y + j \in 0..(N - 1)
          /\ (y + j) + 1 = x + j /\ y + j <= N /\ ~(x <= y)
      BY <1>1, <1>4, <2>2, <2>4
    <3> HIDE DEF y
    <3>2. Step[x] = timer[Step[y]].Next /\ Step[x + j] = timer[Step[y + j]].Next
      BY <1>1, <3>1
    <3>3. Step[y] \in R /\ Step[y + j] \in R
      BY <1>1, <1>2, <3>1
    <3>4. Step[y] = Step[y + j]
      BY <1>3, <2>2, <3>2, <3>3
    <3>5. y \in I
      BY <3>1, <3>4
    <3> QED
      BY <2>2, <3>1, <3>5
  <2> QED
    BY <2>3, <2>4
<1>5. \E j \in 1..N : Step[j] = OS_pTimer
  <2>1. IsFiniteSet(0..N) /\ Cardinality(0..N) = N + 1
    BY <1>1, FS_Interval
  <2>2. Step \in [0..N -> Timers]
    BY <1>1, <1>2
  <2>3. \E x, y \in 0..N : x # y /\ Step[x] = Step[y]
    <3> DEFINE I == 0..N
               f == Step
    <3>1. IsFiniteSet(Timers) /\ Cardinality(Timers) < Cardinality(I)
      BY <1>1, <2>1, TickerAssumption DEF N
    <3>2. IsFiniteSet(I) /\ f \in [I -> Timers]
      BY <2>1, <2>2
    <3> HIDE DEF I, f
    <3>3. \E x, y \in I : x # y /\ f[x] = f[y]
      BY <3>1, <3>2, FS_PigeonHole
    <3> QED
      BY <3>3 DEF I, f
  <2>4. PICK x \in 0..N, y \in 0..N : x < y /\ Step[x] = Step[y]
    BY <1>1, <2>3
  <2>5. x \in Nat /\ y - x \in Nat \ {0} /\ x + (y - x) = y /\ y <= N /\ y - x \in 1..N
    BY <1>1, <2>4
  <2>6. Step[y - x] = OS_pTimer
    BY <1>4, <2>4, <2>5
  <2> QED
    BY <2>5, <2>6
<1> DEFINE M == {j \in Nat : j \in 1..N /\ Step[j] = OS_pTimer}
<1>6. PICK m \in M : \A j \in M : m <= j
  <2>1. M \in SUBSET Nat /\ M # {}
    BY <1>5
  <2> HIDE DEF M
  <2> QED
    BY <2>1, Least
<1>7. m \in 1..N /\ Step[m] = OS_pTimer /\ \A k \in 1..(m - 1) : Step[k] # OS_pTimer
  <2>1. m \in 1..N /\ Step[m] = OS_pTimer
    BY <1>6
  <2>2. ASSUME NEW k \in 1..(m - 1), Step[k] = OS_pTimer
        PROVE  FALSE
    <3>1. k \in M /\ ~(m <= k)
      BY <1>1, <2>1, <2>2
    <3> QED
      BY <1>6, <3>1
  <2> QED
    BY <2>1, <2>2
<1> HIDE DEF M
<1> DEFINE S == {Step[k] : k \in 0..(m - 1)}
<1>8. S = R
  <2>1. \A k \in 0..(m - 1) : k \in 0..N /\ k \in 0..(N - 1)
    BY <1>1, <1>7
  <2>2. S \in SUBSET R
    BY <1>2, <2>1
  <2>3. 0 \in 0..(m - 1) /\ Step[0] \in S
    BY <1>7
  <2>4. \A u \in S : timer[u].Next \in S
    <3> SUFFICES ASSUME NEW k \in 0..(m - 1) PROVE timer[Step[k]].Next \in S
      OBVIOUS
    <3>1. timer[Step[k]].Next = Step[k + 1]
      BY <1>1, <2>1
    <3>2. CASE k = m - 1
      <4>1. k + 1 = m
        BY <1>7, <3>2
      <4> QED
        BY <1>1, <1>7, <2>3, <3>1, <4>1
    <3>3. CASE k # m - 1
      <4>1. k + 1 \in 0..(m - 1)
        BY <1>7, <3>3
      <4> QED
        BY <3>1, <4>1
    <3> QED
      BY <3>2, <3>3
  <2> HIDE DEF S
  <2> QED
    BY <2>2, <2>3, <2>4 DEF Round
<1>9. Ring = R
  <2>1. OS_pTimer # NULL /\ DOMAIN Step = 0..N
    BY <1>1, TickerAssumption DEF Round
  <2>2. Ring = {Step[k] : k \in 0..N}
    BY <2>1 DEF Ring
  <2>3. \A k \in 0..(m - 1) : k \in 0..N
    BY <1>1, <1>7
  <2> QED
    BY <1>2, <1>8, <2>2, <2>3
<1>10. Cardinality(R) = m
  <2> DEFINE f == [k \in 0..(m - 1) |-> Step[k]]
  <2>1. ASSUME NEW i \in 0..(m - 1), NEW k \in 0..(m - 1), i < k, Step[i] = Step[k]
        PROVE  FALSE
    <3>1. /\ i \in Nat /\ k - i \in Nat \ {0} /\ i + (k - i) = k /\ k <= N
          /\ k - i \in 1..(m - 1)
      BY <1>1, <1>7, <2>1
    <3>2. Step[k - i] = OS_pTimer
      BY <1>4, <2>1, <3>1
    <3> QED
      BY <1>7, <3>1, <3>2
  <2>2. \A i, k \in 0..(m - 1) : i # k => i < k \/ k < i
    BY <1>7
  <2>3. \A i, k \in 0..(m - 1) : Step[i] = Step[k] => i = k
    BY <2>1, <2>2
  <2>4. f \in [0..(m - 1) -> R] /\ \A u \in R : \E k \in 0..(m - 1) : f[k] = u
    BY <1>8
  <2>5. \A i, k \in 0..(m - 1) : f[i] = f[k] => i = k
    BY <2>3
  <2> HIDE DEF f, S
  <2>6. f \in Bijection(0..(m - 1), R)
    BY <2>4, <2>5 DEF Bijection, Injection, Surjection, IsInjective
  <2>7. IsFiniteSet(0..(m - 1)) /\ Cardinality(0..(m - 1)) = m
    <3>1. 0 \in Int /\ m - 1 \in Int /\ ~(0 > m - 1) /\ (m - 1) - 0 + 1 = m
      BY <1>7
    <3> QED
      BY <3>1, FS_Interval
  <2>8. ExistsBijection(0..(m - 1), R)
    BY <2>6 DEF ExistsBijection
  <2> QED
    BY <2>7, <2>8, FS_Bijection
<1> QED
  BY <1>7, <1>8, <1>9, <1>10 DEF N

-----------------------------------------------------------------------------
\* The number of the step behind which OS_timer_add puts a timer of moment x.
Found(x, k) ==
  /\ Behind(Step[k], x) \/ Step[k + 1] = OS_pTimer
  /\ \A j \in 0..(k - 1) : ~Behind(Step[j], x) /\ Step[j + 1] # OS_pTimer

\* The search ends, on a timer of the ring.
LEMMA PositionIs ==
  ASSUME timer \in Records, NEW R, Knit(timer), Round(timer, R), OS_pTimer \in R, NEW x
  PROVE  /\ Position(x) \in R
         /\ \E k \in 0..(Cardinality(R) - 1) : Position(x) = Step[k] /\ Found(x, k)
<1> DEFINE m == Cardinality(R)
           K == {k \in Nat : k < m /\ (Behind(Step[k], x) \/ Step[k + 1] = OS_pTimer)}
<1>1. /\ Ring = R /\ m \in 1..Cardinality(Timers) /\ Step[m] = OS_pTimer
      /\ R = {Step[k] : k \in 0..(m - 1)}
  BY Cycle
<1>2. m \in Nat \ {0}
  BY <1>1, FS_CardinalityType, TickerAssumption
<1> HIDE DEF m
<1>3. PICK k \in K : \A j \in K : k <= j
  <2>1. m - 1 \in Nat /\ (m - 1) + 1 = m /\ m - 1 < m
    BY <1>2
  <2>2. K \in SUBSET Nat /\ K # {}
    BY <1>1, <2>1
  <2> HIDE DEF K
  <2> QED
    BY <2>2, Least
<1>4. k \in 0..(m - 1) /\ Found(x, k)
  <2>1. k \in 0..(m - 1) /\ (Behind(Step[k], x) \/ Step[k + 1] = OS_pTimer)
    BY <1>2, <1>3
  <2>2. ASSUME NEW j \in 0..(k - 1) PROVE ~(Behind(Step[j], x) \/ Step[j + 1] = OS_pTimer)
    <3>1. j \in Nat /\ j < m /\ ~(k <= j)
      BY <1>2, <2>1
    <3> QED
      BY <1>3, <3>1
  <2> QED
    BY <2>1, <2>2 DEF Found
<1> DEFINE c == CHOOSE i \in 0..(m - 1) : Found(x, i)
<1>5. c \in 0..(m - 1) /\ Found(x, c)
  BY <1>4
<1>6. Position(x) = Step[c]
  BY <1>1 DEF Position, Found, m
<1> HIDE DEF c
<1>7. Position(x) \in R
  BY <1>1, <1>5, <1>6
<1> QED
  BY <1>5, <1>6, <1>7 DEF m

\* The interrupt finds where the timers of the moment of OS_pTimer end.
LEMMA BatchIs ==
  ASSUME timer \in Records, NEW R, Knit(timer), Round(timer, R), OS_pTimer \in R
  PROVE  /\ Batch \in 1..Cardinality(R) /\ Step[Batch] \in R
         /\ timer[Step[Batch]].Time # timer[OS_pTimer].Time \/ Step[Batch] = OS_pTimer
         /\ \A j \in 0..(Batch - 1) : Step[j] \in R /\ timer[Step[j]].Time = timer[OS_pTimer].Time
         /\ timer[Step[Batch]].Time = timer[OS_pTimer].Time => Batch = Cardinality(R)
<1> DEFINE m == Cardinality(R)
           Ends(n) == timer[Step[n]].Time # timer[OS_pTimer].Time \/ Step[n] = OS_pTimer
           P(n) == /\ timer[Step[n]].Time # timer[OS_pTimer].Time \/ Step[n] = OS_pTimer
                   /\ \A j \in 1..(n - 1) : /\ timer[Step[j]].Time = timer[OS_pTimer].Time
                                            /\ Step[j] # OS_pTimer
           K == {k \in Nat : k \in 1..m /\ Ends(k)}
<1>1. /\ Ring = R /\ m \in 1..Cardinality(Timers) /\ Step[m] = OS_pTimer
      /\ \A k \in 1..(m - 1) : Step[k] # OS_pTimer
  BY Cycle
<1>2. m \in Nat \ {0} /\ Cardinality(Timers) \in Nat
  BY <1>1, FS_CardinalityType, TickerAssumption
<1>3. \A k \in 0..m : Step[k] \in R
  <2>1. \A k \in 0..m : k \in 0..Cardinality(Timers)
    BY <1>1, <1>2
  <2>2. Step \in [0..Cardinality(Timers) -> R]
    BY Steps
  <2> QED
    BY <2>1, <2>2
<1>4. Step[0] = OS_pTimer
  BY Steps
<1> HIDE DEF m
<1>5. PICK k \in K : \A j \in K : k <= j
  <2>1. K \in SUBSET Nat /\ K # {}
    BY <1>1, <1>2
  <2> HIDE DEF K
  <2> QED
    BY <2>1, Least
<1>6. k \in 1..m /\ P(k)
  <2>1. k \in 1..m /\ Ends(k)
    BY <1>2, <1>5
  <2>2. ASSUME NEW j \in 1..(k - 1) PROVE ~Ends(j)
    <3>1. j \in Nat /\ j \in 1..m /\ ~(k <= j)
      BY <1>2, <2>1
    <3> QED
      BY <1>5, <3>1
  <2> QED
    BY <2>1, <2>2
<1>7. Batch = CHOOSE n \in 1..m : P(n)
  BY <1>1 DEF Batch, m
<1> HIDE DEF P
<1>8. Batch \in 1..m /\ P(Batch)
  BY <1>6, <1>7
<1>9. Step[Batch] \in R
  <2>1. Batch \in 0..m
    BY <1>2, <1>8
  <2> QED
    BY <1>3, <2>1
<1>10. ASSUME NEW j \in 0..(Batch - 1)
       PROVE  Step[j] \in R /\ timer[Step[j]].Time = timer[OS_pTimer].Time
  <2>1. j \in 0..m /\ (j = 0 \/ j \in 1..(Batch - 1))
    BY <1>2, <1>8
  <2> QED
    BY <1>3, <1>4, <1>8, <2>1 DEF P
<1>11. timer[Step[Batch]].Time = timer[OS_pTimer].Time => Batch = m
  <2>1. Batch = m \/ Batch \in 1..(m - 1)
    BY <1>2, <1>8
  <2> QED
    BY <1>1, <1>8, <2>1 DEF P
<1> QED
  BY <1>8, <1>9, <1>10, <1>11 DEF P, m

-----------------------------------------------------------------------------
\* Cutting a timer out leaves clear records clear and linked ones linked.
LEMMA CutOthers ==
  ASSUME NEW G \in Records, Knit(G), NEW t \in Timers, G[t].Next \in Timers,
         NEW u \in Timers, u # t
  PROVE  /\ G[u] = Unused => Cut(G, t)[u] = Unused
         /\ G[u].Next \in Timers => Cut(G, t)[u].Next \in Timers
<1> DEFINE H == Cut(G, t)
<1>1. G[t].Prev \in Timers /\ G[G[t].Next].Prev = t /\ G[G[t].Prev].Next = t
  BY TickerAssumption DEF Knit
<1>2. /\ H \in Records
      /\ H[u].Time = G[u].Time
      /\ H[u].Next = IF u = G[t].Prev THEN G[t].Next ELSE G[u].Next
      /\ H[u].Prev = IF u = G[t].Next THEN G[t].Prev ELSE G[u].Prev
  <2> HIDE DEF H
  <2> QED
    BY <1>1, CutShape DEF H
<1> HIDE DEF H
<1>3. ASSUME G[u] = Unused PROVE H[u] = Unused
  <2>1. G[u].Next = NULL /\ G[u].Prev = NULL /\ G[u].Time = 0
    BY <1>3 DEF Unused
  <2>2. u # G[t].Prev /\ u # G[t].Next
    BY <1>1, <2>1, TickerAssumption
  <2>3. H[u].Next = NULL /\ H[u].Prev = NULL /\ H[u].Time = 0
    BY <1>2, <2>1, <2>2
  <2>4. \A r \in [Next : Timers \cup {NULL}, Prev : Timers \cup {NULL}, Time : 0..(W-1)] :
          r.Next = NULL /\ r.Prev = NULL /\ r.Time = 0 => r = Unused
    BY DEF Unused
  <2>5. H[u] \in [Next : Timers \cup {NULL}, Prev : Timers \cup {NULL}, Time : 0..(W-1)]
    BY <1>2 DEF Records
  <2> QED
    BY <2>3, <2>4, <2>5
<1>4. G[u].Next \in Timers => H[u].Next \in Timers
  BY <1>2
<1> QED
  BY <1>3, <1>4 DEF H

\* Linking a timer in does, too.
LEMMA InsertOthers ==
  ASSUME NEW G \in Records, NEW R, Knit(G), Round(G, R), NEW t \in Timers, G[t].Next = NULL,
         NEW q \in R, NEW x \in 0..(W-1), NEW u \in Timers, u # t
  PROVE  /\ G[u] = Unused => Inserted(G, t, q, x)[u] = Unused
         /\ G[u].Next \in Timers => Inserted(G, t, q, x)[u].Next \in Timers
<1> DEFINE H == Inserted(G, t, q, x)
<1>1. /\ q \in Timers /\ G[q].Next \in Timers /\ q # t /\ G[q].Next # t /\ G[G[q].Next].Prev = q
  BY TickerAssumption DEF Round, Knit
<1>2. /\ H \in Records
      /\ H[u].Time = G[u].Time
      /\ H[u].Next = IF u = q THEN t ELSE G[u].Next
      /\ H[u].Prev = IF u = G[q].Next THEN t ELSE G[u].Prev
  <2> HIDE DEF H
  <2>1. /\ H \in Records /\ H[t] = [Next |-> G[q].Next, Prev |-> q, Time |-> x]
        /\ \A v \in Timers \ {t} : /\ H[v].Time = G[v].Time
                                   /\ H[v].Next = IF v = q THEN t ELSE G[v].Next
                                   /\ H[v].Prev = IF v = G[q].Next THEN t ELSE G[v].Prev
    BY <1>1, InsertShape DEF H
  <2> QED
    BY <2>1
<1> HIDE DEF H
<1>3. ASSUME G[u] = Unused PROVE H[u] = Unused
  <2>1. G[u].Next = NULL /\ G[u].Prev = NULL /\ G[u].Time = 0
    BY <1>3 DEF Unused
  <2>2. u # q /\ u # G[q].Next
    BY <1>1, <2>1, TickerAssumption
  <2>3. H[u].Next = NULL /\ H[u].Prev = NULL /\ H[u].Time = 0
    BY <1>2, <2>1, <2>2
  <2>4. \A r \in [Next : Timers \cup {NULL}, Prev : Timers \cup {NULL}, Time : 0..(W-1)] :
          r.Next = NULL /\ r.Prev = NULL /\ r.Time = 0 => r = Unused
    BY DEF Unused
  <2>5. H[u] \in [Next : Timers \cup {NULL}, Prev : Timers \cup {NULL}, Time : 0..(W-1)]
    BY <1>2 DEF Records
  <2> QED
    BY <2>3, <2>4, <2>5
<1>4. G[u].Next \in Timers => H[u].Next \in Timers
  BY <1>2
<1> QED
  BY <1>3, <1>4 DEF H

\* While no other thread is inside its delete and this one has not begun to unlink, the
\* records are the ring.
LEMMA Calm ==
  ASSUME NEW R, RingIs(R), "del" \in Careful, NEW t \in Timers, Undisturbed({t}),
         pc[t] \notin Unlinking
  PROVE  /\ Sound(timer, R) /\ timer \in Records
         /\ \A u \in Timers \ {t} : pc[u] \notin Deleting
BY DEF RingIs, Undisturbed, Unlinking, Deleting, TypeOK, Records

\* While no thread is inside its delete the records are the ring.
LEMMA CalmAll ==
  ASSUME NEW R, RingIs(R), "del" \in Careful, Undisturbed({})
  PROVE  /\ Sound(timer, R) /\ timer \in Records
         /\ \A u \in Timers : pc[u] \notin Deleting
BY DEF RingIs, Undisturbed, Unlinking, Deleting, TypeOK, Records

\* What the moments and the counter are computed to stays in their range.
LEMMA Wraps ==
  ASSUME NEW x \in Int
  PROVE  x % W \in 0..(W-1)
BY TickerAssumption

-----------------------------------------------------------------------------
\* Adding to the ring keeps it.
LEMMA AddRing ==
  ASSUME NEW R, RingIs(R), "del" \in Careful, NEW t \in Timers, NEW ms \in Delays,
         NEW why \in {"sleep", "wait"}, Add(t, ms, why)
  PROVE  RingIs(R \cup {t})' /\ t \notin R
<1>1. /\ Sound(timer, R) /\ timer \in Records /\ TypeOK
      /\ \A u \in Timers \ {t} : pc[u] \notin Deleting
      /\ pc[t] = "run" /\ timer[t] = Unused /\ timer[t].Next = NULL
  <2>1. pc[t] = "run" /\ pc[t] \notin Unlinking /\ pc[t] \notin Linked_
    BY DEF Add, Unlinking, Linked_
  <2>2. /\ Sound(timer, R) /\ timer \in Records /\ TypeOK
        /\ \A u \in Timers \ {t} : pc[u] \notin Deleting
    BY <2>1, Calm DEF Add, RingIs
  <2>3. timer[t] = Unused
    BY <2>1, <2>2 DEF Sound
  <2> QED
    BY <2>1, <2>2, <2>3 DEF Unused
<1>2. ms \in 0..(W-1) /\ ms \in 0..MaxDelay
  BY TickerAssumption DEF Delays
<1>3. /\ pc' = [pc EXCEPT ![t] = why] /\ rest' = [rest EXCEPT ![t] = ms] /\ LeftTime' = LeftTime
  BY DEF Add
<1>4. /\ pc'[t] = why /\ \A u \in Timers \ {t} : pc'[u] = pc[u]
  BY <1>1, <1>3 DEF TypeOK
<1>5. \A u \in Timers : pc'[u] \notin Deleting /\ pc'[u] \notin Unlinking
  BY <1>1, <1>4 DEF Deleting, Unlinking
<1>6. /\ Asleep' \subseteq Asleep \cup {t} /\ Asleep \subseteq R /\ t \notin R
  BY <1>1, <1>4, TickerAssumption DEF Asleep, Sound, Round
<1>7. /\ timer' \in Records /\ Knit(timer') /\ Round(timer', R \cup {t})
      /\ OS_pTimer' \in R \cup {t} /\ OS_pTimer' \in Timers
      /\ timer'[t].Next \in Timers
      /\ \A u \in Timers \ {t} : /\ timer[u] = Unused => timer'[u] = Unused
                                 /\ timer[u].Next \in Timers => timer'[u].Next \in Timers
      /\ T0TC' \in 0..(W-1) /\ T0MR0' \in 0..(W-1) /\ counting' \in BOOLEAN /\ flag' \in BOOLEAN
  <2>1. CASE OS_pTimer = NULL
    <3>1. /\ timer' = [timer EXCEPT ![t] = [Next |-> t, Prev |-> t, Time |-> ms]]
          /\ OS_pTimer' = t /\ set_time(ms) /\ R = {}
      BY <1>1, <2>1 DEF Add, OS_timer_add, Sound
    <3>2. /\ timer'[t] = [Next |-> t, Prev |-> t, Time |-> ms]
          /\ \A u \in Timers \ {t} : timer'[u] = timer[u]
          /\ timer' \in Records
      BY <1>1, <1>2, <3>1 DEF Records
    <3>3. timer'[t].Next = t /\ timer'[t].Prev = t
      BY <3>2
    <3>4. \A u \in Timers : timer[u].Next # t /\ timer[u].Prev # t
      BY <1>1, TickerAssumption DEF Knit, Sound, Unused
    <3>5. Knit(timer')
      <4> SUFFICES ASSUME NEW u \in Timers
                   PROVE  \/ timer'[u].Next = NULL /\ timer'[u].Prev = NULL
                          \/ /\ timer'[u].Next \in Timers /\ timer'[u].Prev \in Timers
                             /\ timer'[timer'[u].Next].Prev = u /\ timer'[timer'[u].Prev].Next = u
        BY DEF Knit
      <4>1. CASE u = t
        BY <3>3, <4>1
      <4>2. CASE u # t
        <5>1. \/ timer[u].Next = NULL /\ timer[u].Prev = NULL
              \/ /\ timer[u].Next \in Timers /\ timer[u].Prev \in Timers
                 /\ timer[timer[u].Next].Prev = u /\ timer[timer[u].Prev].Next = u
          BY <1>1 DEF Knit, Sound
        <5> QED
          BY <3>2, <3>4, <4>2, <5>1
      <4> QED
        BY <4>1, <4>2
    <3>6. Round(timer', R \cup {t})
      <4>1. R \cup {t} = {t}
        BY <3>1
      <4>2. Round(timer', {t})
        BY <3>3 DEF Round
      <4> QED
        BY <4>1, <4>2
    <3>7. T0TC' \in 0..(W-1) /\ T0MR0' \in 0..(W-1) /\ counting' \in BOOLEAN /\ flag' \in BOOLEAN
      <4>1. 0 \in 0..(W-1) /\ ms % W \in 0..(W-1)
        BY <1>2, TickerAssumption
      <4> QED
        BY <1>1, <3>1, <4>1 DEF set_time, TypeOK
    <3> QED
      BY <3>1, <3>2, <3>3, <3>5, <3>6, <3>7
  <2>2. CASE OS_pTimer # NULL
    <3> DEFINE x == Moment(ms)
               q == Position(x)
    <3>1. OS_pTimer \in R /\ OS_pTimer \in Timers
      BY <1>1, <2>2 DEF Sound, Round
    <3>2. timer[OS_pTimer].Time \in 0..(W-1) /\ get_left_time \in 0..(W-1)
      BY <1>1, <3>1, TickerAssumption DEF Records, TypeOK, get_left_time
    <3>3. x \in 0..(W-1)
      <4>1. timer[OS_pTimer].Time + ms - get_left_time \in Int
        BY <1>2, <3>2
      <4> QED
        BY <4>1, Wraps DEF Moment
    <3> HIDE DEF x
    <3>4. q \in R
      BY <1>1, <3>1, PositionIs DEF Sound
    <3>5. timer' = Inserted(timer, t, q, x)
      BY <2>2 DEF Add, OS_timer_add, Inserted, x
    <3> HIDE DEF q
    <3>6. timer' \in Records /\ Knit(timer') /\ Round(timer', R \cup {t})
      BY <1>1, <3>3, <3>4, <3>5, InsertRing DEF Sound
    <3>7. \A u \in Timers \ {t} : /\ timer[u] = Unused => timer'[u] = Unused
                                  /\ timer[u].Next \in Timers => timer'[u].Next \in Timers
      BY <1>1, <3>3, <3>4, <3>5, InsertOthers DEF Sound
    <3>8. timer'[t].Next \in Timers
      BY <3>6 DEF Round
    <3>9. OS_pTimer' \in R \cup {t} /\ OS_pTimer' \in Timers
      BY <2>2, <3>1 DEF Add, OS_timer_add
    <3>10. T0TC' \in 0..(W-1) /\ T0MR0' \in 0..(W-1) /\ counting' \in BOOLEAN /\ flag' \in BOOLEAN
      <4>1. 0 \in 0..(W-1) /\ ms % W \in 0..(W-1)
        BY <1>2, TickerAssumption
      <4>2. UNCHANGED hardware \/ set_time(ms)
        BY <2>2 DEF Add, OS_timer_add
      <4> QED
        BY <1>1, <4>1, <4>2 DEF set_time, TypeOK, hardware
    <3> QED
      BY <3>6, <3>7, <3>8, <3>9, <3>10
  <2> QED
    BY <2>1, <2>2
<1>8. TypeOK'
  <2>1. pc' \in [Timers -> {"run", "sleep", "wait", "slept", "timeout"} \cup Deleting]
    BY <1>1, <1>3 DEF TypeOK
  <2>2. rest' \in [Timers -> 0..MaxDelay] /\ LeftTime' \in [Timers -> 0..(W-1)]
    BY <1>1, <1>2, <1>3 DEF TypeOK
  <2> QED
    BY <1>7, <2>1, <2>2 DEF TypeOK, Records
<1>9. Sound(timer, R \cup {t})'
  <2>1. \A u \in Timers : IF pc'[u] \in Linked_ THEN timer'[u].Next \in Timers ELSE timer'[u] = Unused
    <3> SUFFICES ASSUME NEW u \in Timers
                 PROVE  IF pc'[u] \in Linked_ THEN timer'[u].Next \in Timers ELSE timer'[u] = Unused
      OBVIOUS
    <3>1. CASE u = t
      BY <1>4, <1>7, <3>1 DEF Linked_
    <3>2. CASE u # t
      <4>1. IF pc[u] \in Linked_ THEN timer[u].Next \in Timers ELSE timer[u] = Unused
        BY <1>1 DEF Sound
      <4> QED
        BY <1>4, <1>7, <3>2, <4>1
    <3> QED
      BY <3>1, <3>2
  <2>2. OS_pTimer' # NULL
    BY <1>7, TickerAssumption
  <2> QED
    BY <1>6, <1>7, <2>1, <2>2 DEF Sound
<1> QED
  BY <1>5, <1>6, <1>8, <1>9 DEF RingIs

\* The ring without a timer that is on a ring, before anything else has changed.
LEMMA CutSound ==
  ASSUME NEW R, Sound(timer, R), timer \in Records, NEW t \in Timers, pc[t] \in Linked_
  PROVE  /\ timer[t].Next \in Timers /\ timer[t].Prev \in Timers
         /\ Cut(timer, t) \in Records /\ Knit(Cut(timer, t)) /\ Round(Cut(timer, t), R \ {t})
         /\ Cut(timer, t)[t] = Unused
         /\ \A u \in Timers \ {t} :
              IF pc[u] \in Linked_ THEN Cut(timer, t)[u].Next \in Timers ELSE Cut(timer, t)[u] = Unused
         /\ OS_pTimer = t => R # {} /\ timer[t].Next \in R
         /\ OS_pTimer = t /\ timer[t].Next = t => R \ {t} = {}
         /\ OS_pTimer # t /\ OS_pTimer # NULL => OS_pTimer \in R \ {t}
         /\ OS_pTimer = NULL => R = {}
<1>1. Knit(timer) /\ Round(timer, R) /\ timer[t].Next \in Timers
  BY DEF Sound
<1>2. timer[t].Prev \in Timers
  BY <1>1, TickerAssumption DEF Knit
<1>3. Cut(timer, t) \in Records /\ Knit(Cut(timer, t)) /\ Round(Cut(timer, t), R \ {t})
  BY <1>1, CutRing
<1>4. Cut(timer, t)[t] = Unused
  BY <1>1, <1>2, CutShape
<1>5. ASSUME NEW u \in Timers \ {t}
      PROVE  IF pc[u] \in Linked_ THEN Cut(timer, t)[u].Next \in Timers ELSE Cut(timer, t)[u] = Unused
  <2>1. IF pc[u] \in Linked_ THEN timer[u].Next \in Timers ELSE timer[u] = Unused
    BY DEF Sound
  <2>2. /\ timer[u] = Unused => Cut(timer, t)[u] = Unused
        /\ timer[u].Next \in Timers => Cut(timer, t)[u].Next \in Timers
    BY <1>1, CutOthers
  <2> QED
    BY <2>1, <2>2
<1>6. IF OS_pTimer = NULL THEN R = {} ELSE OS_pTimer \in R
  BY DEF Sound
<1>7. OS_pTimer = t => R # {} /\ timer[t].Next \in R
  BY <1>1, <1>6, TickerAssumption DEF Round
<1>8. ASSUME OS_pTimer = t, timer[t].Next = t PROVE R \ {t} = {}
  <2>1. {t} \in SUBSET R /\ {t} # {} /\ \A u \in {t} : timer[u].Next \in {t}
    BY <1>6, <1>8, TickerAssumption
  <2>2. {t} = R
    BY <1>1, <2>1 DEF Round
  <2> QED
    BY <2>2
<1> QED
  BY <1>1, <1>2, <1>3, <1>4, <1>5, <1>6, <1>7, <1>8

\* The end of a timed wait takes its timer out of the ring.
LEMMA WaitEndsRing ==
  ASSUME NEW R, RingIs(R), "del" \in Careful, NEW t \in Timers, WaitEnds(t)
  PROVE  RingIs(R \ {t})'
<1>1. /\ Sound(timer, R) /\ timer \in Records /\ TypeOK
      /\ \A u \in Timers \ {t} : pc[u] \notin Deleting
      /\ pc[t] \in Linked_
  <2>1. pc[t] \notin Unlinking /\ pc[t] \in Linked_
    BY DEF WaitEnds, Unlinking, Linked_
  <2> QED
    BY <2>1, Calm DEF WaitEnds, RingIs
<1>2. /\ pc' = [pc EXCEPT ![t] = "run"] /\ rest' = [rest EXCEPT ![t] = 0] /\ LeftTime' = LeftTime
      /\ OS_timer_del(t)
  BY DEF WaitEnds
<1>3. /\ pc'[t] = "run" /\ \A u \in Timers \ {t} : pc'[u] = pc[u]
  BY <1>1, <1>2 DEF TypeOK
<1>4. \A u \in Timers : pc'[u] \notin Deleting /\ pc'[u] \notin Unlinking
  BY <1>1, <1>3 DEF Deleting, Unlinking
<1>5. Asleep' \subseteq Asleep \ {t} /\ Asleep \subseteq R
  BY <1>1, <1>3 DEF Asleep, Sound
<1>6. timer[t].Next \in Timers /\ timer[t].Prev \in Timers
  BY <1>1, CutSound
<1>7. /\ timer' = Cut(timer, t)
      /\ \/ OS_pTimer # t /\ UNCHANGED <<OS_pTimer, hardware>>
         \/ OS_pTimer = t /\ timer[t].Next = t /\ OS_pTimer' = NULL /\ stop_counter
         \/ OS_pTimer = t /\ timer[t].Next # t /\ HandOver(t)
  <2>1. ~(NULL \in {timer[t].Prev, timer[t].Next})
    BY <1>6, TickerAssumption
  <2> QED
    BY <1>2, <2>1 DEF OS_timer_del, Unlinked, Cut
<1>8. /\ timer' \in Records /\ Knit(timer') /\ Round(timer', R \ {t})
      /\ timer'[t] = Unused
      /\ \A u \in Timers \ {t} :
           IF pc[u] \in Linked_ THEN timer'[u].Next \in Timers ELSE timer'[u] = Unused
  BY <1>1, <1>7, CutSound
<1>9. /\ IF OS_pTimer' = NULL THEN R \ {t} = {} ELSE OS_pTimer' \in R \ {t}
      /\ OS_pTimer' \in Timers \cup {NULL}
  <2>1. /\ OS_pTimer = t => R # {} /\ timer[t].Next \in R
        /\ OS_pTimer = t /\ timer[t].Next = t => R \ {t} = {}
        /\ OS_pTimer # t /\ OS_pTimer # NULL => OS_pTimer \in R \ {t}
        /\ OS_pTimer = NULL => R = {}
    BY <1>1, CutSound
  <2>2. OS_pTimer \in Timers \cup {NULL}
    BY <1>1 DEF TypeOK
  <2> QED
    BY <1>6, <1>7, <2>1, <2>2, TickerAssumption DEF HandOver
<1>10. TypeOK'
  <2>1. pc' \in [Timers -> {"run", "sleep", "wait", "slept", "timeout"} \cup Deleting]
    BY <1>1, <1>2 DEF TypeOK
  <2>2. rest' \in [Timers -> 0..MaxDelay] /\ LeftTime' \in [Timers -> 0..(W-1)]
    BY <1>1, <1>2, TickerAssumption DEF TypeOK
  <2>3. T0TC' \in 0..(W-1) /\ T0MR0' \in 0..(W-1) /\ counting' \in BOOLEAN /\ flag' \in BOOLEAN
    <3>1. (timer[timer[t].Next].Time - timer[t].Time + get_left_time) % W \in 0..(W-1)
      <4>1. timer[timer[t].Next].Time \in Int /\ timer[t].Time \in Int /\ get_left_time \in Int
        BY <1>1, <1>6, TickerAssumption DEF Records, TypeOK, get_left_time
      <4> QED
        BY <4>1, TickerAssumption
    <3>2. 0 \in 0..(W-1)
      BY TickerAssumption
    <3> QED
      BY <1>1, <1>7, <3>1, <3>2 DEF TypeOK, hardware, stop_counter, HandOver, set_time
  <2> QED
    BY <1>8, <1>9, <2>1, <2>2, <2>3 DEF TypeOK, Records
<1>11. Sound(timer, R \ {t})'
  <2>1. \A u \in Timers : IF pc'[u] \in Linked_ THEN timer'[u].Next \in Timers ELSE timer'[u] = Unused
    <3> SUFFICES ASSUME NEW u \in Timers
                 PROVE  IF pc'[u] \in Linked_ THEN timer'[u].Next \in Timers ELSE timer'[u] = Unused
      OBVIOUS
    <3>1. CASE u = t
      BY <1>3, <1>8, <3>1 DEF Linked_
    <3>2. CASE u # t
      BY <1>3, <1>8, <3>2
    <3> QED
      BY <3>1, <3>2
  <2> QED
    BY <1>5, <1>8, <1>9, <2>1 DEF Sound
<1> QED
  BY <1>4, <1>10, <1>11 DEF RingIs

\* The steps of an unlocked delete before it unlinks, to pc "to", leave the ring alone.
LEMMA LookRing ==
  ASSUME NEW R, RingIs(R), "del" \in Careful, NEW t \in Timers, Undisturbed({t}),
         pc[t] \in Linked_, NEW to \in Deleting \cap Linked_, pc' = [pc EXCEPT ![t] = to],
         \/ OS_pTimer' = OS_pTimer
         \/ OS_pTimer = t /\ OS_pTimer' = timer[t].Next,
         Where(t, OS_pTimer)', T0TC' \in 0..(W-1), T0MR0' \in 0..(W-1),
         counting' \in BOOLEAN, flag' \in BOOLEAN, LeftTime' \in [Timers -> 0..(W-1)],
         UNCHANGED <<timer, rest>>
  PROVE  RingIs(R)'
<1>1. /\ Sound(timer, R) /\ timer \in Records /\ TypeOK
      /\ \A u \in Timers \ {t} : pc[u] \notin Deleting
  <2>1. pc[t] \notin Unlinking
    BY DEF Unlinking, Linked_
  <2> QED
    BY <2>1, Calm DEF RingIs
<1>2. /\ pc'[t] = to /\ \A u \in Timers \ {t} : pc'[u] = pc[u]
  BY <1>1 DEF TypeOK
<1>3. /\ \A u \in Timers : pc'[u] \notin Unlinking
      /\ \A u \in Timers : pc'[u] \in Deleting => u = t
  <2>1. to \notin Unlinking
    BY DEF Unlinking, Linked_
  <2> QED
    BY <1>1, <1>2, <2>1 DEF Deleting, Unlinking
<1>4. Asleep' \subseteq Asleep
  <2>1. to \notin {"sleep", "wait"}
    BY DEF Deleting
  <2> QED
    BY <1>2, <2>1 DEF Asleep
<1>5. timer[t].Next \in Timers
  BY <1>1 DEF Sound
<1>6. OS_pTimer' \in Timers \cup {NULL} /\ (IF OS_pTimer' = NULL THEN R = {} ELSE OS_pTimer' \in R)
  <2>1. OS_pTimer = t => timer[t].Next \in R
    BY <1>1, CutSound
  <2> QED
    BY <1>1, <1>5, <2>1, TickerAssumption DEF Sound, TypeOK
<1>7. TypeOK'
  <2>1. pc' \in [Timers -> {"run", "sleep", "wait", "slept", "timeout"} \cup Deleting]
    BY <1>1 DEF TypeOK
  <2> QED
    BY <1>1, <1>6, <2>1 DEF TypeOK
<1>8. Sound(timer, R)'
  <2>1. ASSUME NEW u \in Timers
        PROVE  IF pc'[u] \in Linked_ THEN timer'[u].Next \in Timers ELSE timer'[u] = Unused
    <3>1. IF pc[u] \in Linked_ THEN timer[u].Next \in Timers ELSE timer[u] = Unused
      BY <1>1 DEF Sound
    <3>2. pc[u] \in Linked_ <=> pc'[u] \in Linked_
      BY <1>2
    <3> QED
      BY <3>1, <3>2
  <2> QED
    BY <1>1, <1>4, <1>6, <2>1 DEF Sound
<1>9. \A u \in Timers : pc'[u] \in Deleting => Where(u, OS_pTimer)'
  BY <1>3
<1> QED
  BY <1>3, <1>7, <1>8, <1>9 DEF RingIs

\* The step with which an unlocked delete comes to unlink: OS_pTimer is now what it is to be.
LEMMA LetGoRing ==
  ASSUME NEW R, RingIs(R), "del" \in Careful, NEW t \in Timers, Undisturbed({t}),
         pc[t] \in {"test", "none", "start"}, pc' = [pc EXCEPT ![t] = "unlink1"],
         \/ OS_pTimer # t /\ OS_pTimer' = OS_pTimer
         \/ OS_pTimer = t /\ timer[t].Next = t /\ OS_pTimer' = NULL,
         T0TC' \in 0..(W-1), T0MR0' \in 0..(W-1), counting' \in BOOLEAN, flag' \in BOOLEAN,
         LeftTime' \in [Timers -> 0..(W-1)], UNCHANGED <<timer, rest>>
  PROVE  RingIs(R \ {t})' /\ Later(t)' = Cut(timer, t)
<1>1. /\ Sound(timer, R) /\ timer \in Records /\ TypeOK
      /\ \A u \in Timers \ {t} : pc[u] \notin Deleting
      /\ pc[t] \in Linked_
  <2>1. pc[t] \notin Unlinking /\ pc[t] \in Linked_
    BY DEF Unlinking, Linked_
  <2> QED
    BY <2>1, Calm DEF RingIs
<1>2. /\ pc'[t] = "unlink1" /\ \A u \in Timers \ {t} : pc'[u] = pc[u]
  BY <1>1 DEF TypeOK
<1>3. /\ \A u \in Timers : pc'[u] \in Deleting => u = t
      /\ Where(t, OS_pTimer)'
      /\ pc'[t] \in Unlinking
      /\ \A u \in Timers : pc'[u] \in Unlinking => u = t
  BY <1>1, <1>2 DEF Deleting, Unlinking, Where
<1>4. Asleep' \subseteq Asleep \ {t} /\ Asleep \subseteq R
  BY <1>1, <1>2 DEF Asleep, Sound
<1> DEFINE H == Cut(timer, t)
<1>5. Later(t)' = H
  BY <1>2 DEF Later, Unlinked, Cut
<1> HIDE DEF H
<1>6. /\ timer[t].Next \in Timers /\ timer[t].Prev \in Timers
      /\ Knit(H) /\ Round(H, R \ {t}) /\ H[t] = Unused
      /\ \A u \in Timers \ {t} : IF pc[u] \in Linked_ THEN H[u].Next \in Timers ELSE H[u] = Unused
  BY <1>1, CutSound DEF H
<1>7. /\ IF OS_pTimer' = NULL THEN R \ {t} = {} ELSE OS_pTimer' \in R \ {t}
      /\ OS_pTimer' \in Timers \cup {NULL}
  <2>1. /\ OS_pTimer = t => R # {} /\ timer[t].Next \in R
        /\ OS_pTimer = t /\ timer[t].Next = t => R \ {t} = {}
        /\ OS_pTimer # t /\ OS_pTimer # NULL => OS_pTimer \in R \ {t}
        /\ OS_pTimer = NULL => R = {}
    BY <1>1, CutSound
  <2>2. OS_pTimer \in Timers \cup {NULL}
    BY <1>1 DEF TypeOK
  <2> QED
    BY <1>6, <2>1, <2>2, TickerAssumption
<1>8. TypeOK'
  BY <1>1, <1>7 DEF TypeOK, Deleting
<1>9. \A u \in Timers : IF pc'[u] \in Linked_ THEN H[u].Next \in Timers ELSE H[u] = Unused
  <2> SUFFICES ASSUME NEW u \in Timers
               PROVE  IF pc'[u] \in Linked_ THEN H[u].Next \in Timers ELSE H[u] = Unused
    OBVIOUS
  <2>1. CASE u = t
    BY <1>2, <1>6, <2>1 DEF Linked_
  <2>2. CASE u # t
    BY <1>2, <1>6, <2>2
  <2> QED
    BY <2>1, <2>2
<1>10. Sound(Later(t), R \ {t})'
  BY <1>4, <1>5, <1>6, <1>7, <1>9 DEF Sound
<1>11. timer'[t].Next \in Timers /\ timer'[t].Prev \in Timers
  BY <1>6
<1> QED
  BY <1>3, <1>5, <1>8, <1>10, <1>11 DEF RingIs, H

\* The steps of the unlinking itself change nothing of the ring as it will be.
LEMMA UnlinkRing ==
  ASSUME NEW R, RingIs(R), "del" \in Careful, NEW t \in Timers, DelUnlink(t)
  PROVE  /\ RingIs(R)'
         /\ IF pc[t] = "clear" THEN timer' = Later(t) ELSE Later(t)' = Later(t)
<1>1. /\ pc[t] \in Unlinking /\ TypeOK /\ Sound(Later(t), R)
      /\ timer[t].Next \in Timers /\ timer[t].Prev \in Timers
      /\ \A u \in Timers \ {t} : pc[u] \notin Deleting
      /\ UNCHANGED <<OS_pTimer, hardware, LeftTime, rest>>
  <2>1. pc[t] \in Unlinking /\ Undisturbed({t}) /\ UNCHANGED <<OS_pTimer, hardware, LeftTime, rest>>
    BY DEF DelUnlink, Unlinking
  <2> QED
    BY <2>1 DEF RingIs, Undisturbed
<1> DEFINE n == timer[t].Next
           q == timer[t].Prev
<1>2. timer \in Records
  BY <1>1 DEF TypeOK, Records
<1>3. ASSUME NEW to, pc' = [pc EXCEPT ![t] = to], to \in {"unlink2", "clear", "run"}
      PROVE  /\ pc'[t] = to /\ \A u \in Timers \ {t} : pc'[u] = pc[u]
             /\ \A u \in Timers : pc'[u] \in Deleting => u = t
             /\ \A u \in Timers : pc'[u] \in Unlinking => u = t
             /\ Where(t, OS_pTimer)'
             /\ Asleep' \subseteq Asleep
             /\ \A u \in Timers : pc'[u] \in Linked_ <=> pc[u] \in Linked_
             /\ pc' \in [Timers -> {"run", "sleep", "wait", "slept", "timeout"} \cup Deleting]
  <2>1. pc'[t] = to /\ \A u \in Timers \ {t} : pc'[u] = pc[u]
    BY <1>1, <1>3 DEF TypeOK
  <2>2. pc' \in [Timers -> {"run", "sleep", "wait", "slept", "timeout"} \cup Deleting]
    BY <1>1, <1>3 DEF TypeOK, Deleting
  <2> QED
    BY <1>1, <1>3, <2>1, <2>2 DEF Deleting, Unlinking, Asleep, Linked_, Where
<1>4. ASSUME timer' \in Records, pc' = [pc EXCEPT ![t] = "unlink2"] \/ pc' = [pc EXCEPT ![t] = "clear"],
             timer'[t].Next = n, timer'[t].Prev = q, Later(t)' = Later(t)
      PROVE  RingIs(R)'
  <2>1. /\ pc'[t] \in Unlinking /\ \A u \in Timers : pc'[u] \in Deleting => u = t
        /\ \A u \in Timers : pc'[u] \in Unlinking => u = t
        /\ Where(t, OS_pTimer)'
        /\ Asleep' \subseteq Asleep
        /\ \A u \in Timers : pc'[u] \in Linked_ <=> pc[u] \in Linked_
        /\ pc' \in [Timers -> {"run", "sleep", "wait", "slept", "timeout"} \cup Deleting]
    BY <1>3, <1>4 DEF Unlinking
  <2>2. TypeOK'
    BY <1>1, <1>4, <2>1 DEF TypeOK, Records, hardware
  <2>3. Sound(Later(t), R)'
    BY <1>1, <1>4, <2>1 DEF Sound
  <2> QED
    BY <1>1, <1>4, <2>1, <2>2, <2>3 DEF RingIs
<1>5. CASE pc[t] = "unlink1"
  <2>1. timer' = [timer EXCEPT ![q].Next = n] /\ pc' = [pc EXCEPT ![t] = "unlink2"]
    BY <1>5 DEF DelUnlink
  <2>2. timer' \in Records /\ timer'[t].Next = n /\ timer'[t].Prev = q
    BY <1>1, <1>2, <2>1 DEF Records
  <2>3. Later(t) = [[timer EXCEPT ![q].Next = n, ![n].Prev = q] EXCEPT ![t] = Unused]
    BY <1>5 DEF Later, Unlinked
  <2>4. Later(t)' = [[timer' EXCEPT ![n].Prev = q] EXCEPT ![t] = Unused]
    <3>1. pc'[t] = "unlink2"
      BY <1>3, <2>1
    <3> QED
      BY <2>2, <3>1 DEF Later
  <2>5. Later(t)' = Later(t)
    BY <2>1, <2>3, <2>4
  <2> QED
    BY <1>4, <1>5, <2>1, <2>2, <2>5
<1>6. CASE pc[t] = "unlink2"
  <2>1. timer' = [timer EXCEPT ![n].Prev = q] /\ pc' = [pc EXCEPT ![t] = "clear"]
    BY <1>6 DEF DelUnlink
  <2>2. timer' \in Records /\ timer'[t].Next = n /\ timer'[t].Prev = q
    BY <1>1, <1>2, <2>1 DEF Records
  <2>3. Later(t)' = [timer' EXCEPT ![t] = Unused]
    <3>1. pc'[t] = "clear"
      BY <1>3, <2>1
    <3> QED
      BY <3>1 DEF Later
  <2>4. Later(t)' = Later(t)
    BY <1>6, <2>1, <2>3 DEF Later
  <2> QED
    BY <1>4, <1>6, <2>1, <2>2, <2>4
<1>7. CASE pc[t] = "clear"
  <2>1. timer' = [timer EXCEPT ![t] = Unused] /\ pc' = [pc EXCEPT ![t] = "run"]
    BY <1>7 DEF DelUnlink
  <2>2. timer' = Later(t)
    BY <1>7, <2>1 DEF Later
  <2>3. timer' \in Records
    <3>1. 0 \in 0..(W-1)
      BY TickerAssumption
    <3> QED
      BY <1>2, <2>1, <3>1 DEF Records, Unused
  <2>4. /\ pc'[t] = "run" /\ \A u \in Timers : pc'[u] \in Deleting => u = t
        /\ \A u \in Timers : pc'[u] \in Unlinking => u = t
        /\ Where(t, OS_pTimer)'
        /\ Asleep' \subseteq Asleep
        /\ \A u \in Timers : pc'[u] \in Linked_ <=> pc[u] \in Linked_
        /\ pc' \in [Timers -> {"run", "sleep", "wait", "slept", "timeout"} \cup Deleting]
    BY <1>3, <2>1
  <2>5. TypeOK'
    BY <1>1, <2>3, <2>4 DEF TypeOK, Records, hardware
  <2>6. Sound(timer, R)'
    BY <1>1, <2>2, <2>4 DEF Sound
  <2>7. \A u \in Timers : pc'[u] \notin Unlinking
    BY <2>4 DEF Unlinking
  <2> QED
    BY <1>7, <2>2, <2>4, <2>5, <2>6, <2>7 DEF RingIs
<1> QED
  BY <1>1, <1>5, <1>6, <1>7 DEF Unlinking

\* The interrupt moves on along the ring, or leaves it when all of it has rung.
LEMMA RungRing ==
  ASSUME NEW R, RingIs(R), "del" \in Careful, systimer_exception
  PROVE  /\ OS_pTimer' = NULL => RingIs({})'
         /\ OS_pTimer' # NULL => RingIs(R)'
<1>1. /\ Sound(timer, R) /\ timer \in Records /\ TypeOK
      /\ \A u \in Timers : pc[u] \notin Deleting
      /\ timer' = timer /\ LeftTime' = LeftTime /\ rest' = rest /\ flag' = FALSE
  BY CalmAll DEF systimer_exception, RingIs
<1>2. ASSUME NEW S \in SUBSET Timers, S = R \/ OS_pTimer' = NULL,
             IF OS_pTimer' = NULL THEN S = {} ELSE OS_pTimer' \in S,
             Round(timer, S), Asleep' \subseteq S,
             \A u \in Timers :
               \/ pc'[u] = pc[u]
               \/ pc'[u] \in {"slept", "timeout"} /\ pc[u] \in {"sleep", "wait"},
             pc' \in [Timers -> {"run", "sleep", "wait", "slept", "timeout"} \cup Deleting],
             T0TC' \in 0..(W-1), T0MR0' \in 0..(W-1), counting' \in BOOLEAN
      PROVE  RingIs(S)'
  <2>1. TypeOK'
    <3>1. OS_pTimer' \in Timers \cup {NULL}
      BY <1>2
    <3> QED
      BY <1>1, <1>2, <3>1 DEF TypeOK
  <2>2. \A u \in Timers : pc'[u] \notin Deleting /\ pc'[u] \notin Unlinking
    BY <1>1, <1>2 DEF Deleting, Unlinking
  <2>3. \A u \in Timers : pc'[u] \in Linked_ <=> pc[u] \in Linked_
    BY <1>2 DEF Linked_
  <2>4. Sound(timer, S)'
    BY <1>1, <1>2, <2>3 DEF Sound
  <2> QED
    BY <2>1, <2>2, <2>4 DEF RingIs
<1>3. CASE OS_pTimer = NULL
  <2>1. /\ OS_pTimer' = NULL /\ counting' = FALSE /\ UNCHANGED <<T0TC, T0MR0, pc>> /\ R = {}
    BY <1>1, <1>3 DEF systimer_exception, Sound
  <2>2. Round(timer, {}) /\ Asleep' \subseteq {}
    BY <1>1, <2>1 DEF Sound, Asleep
  <2>3. pc' \in [Timers -> {"run", "sleep", "wait", "slept", "timeout"} \cup Deleting]
    BY <1>1, <2>1 DEF TypeOK
  <2>4. T0TC' \in 0..(W-1) /\ T0MR0' \in 0..(W-1) /\ counting' \in BOOLEAN
    BY <1>1, <2>1 DEF TypeOK
  <2>5. RingIs({})'
    BY <1>2, <2>1, <2>2, <2>3, <2>4
  <2> QED
    BY <2>1, <2>5
<1>4. CASE OS_pTimer # NULL
  <2> DEFINE rung == {Step[k] : k \in 0..(Batch - 1)}
             n == Step[Batch]
  <2>1. /\ pc' = [t \in Timers |-> CASE t \in rung /\ pc[t] = "sleep" -> "slept"
                                     [] t \in rung /\ pc[t] = "wait"  -> "timeout"
                                     [] OTHER -> pc[t]]
        /\ IF timer[n].Time # timer[OS_pTimer].Time
           THEN /\ OS_pTimer' = n
                /\ T0TC' = 0 /\ counting' = TRUE
                /\ T0MR0' = (timer[n].Time - timer[timer[n].Prev].Time) % W
           ELSE /\ OS_pTimer' = NULL
                /\ counting' = FALSE
                /\ UNCHANGED <<T0TC, T0MR0>>
    BY <1>4 DEF systimer_exception
  <2>2. /\ OS_pTimer \in R /\ Knit(timer) /\ Round(timer, R) /\ Asleep \subseteq R
    BY <1>1, <1>4 DEF Sound
  <2>3. /\ n \in R /\ (timer[n].Time = timer[OS_pTimer].Time => Batch = Cardinality(R))
    BY <1>1, <2>2, BatchIs
  <2>4. R = {Step[k] : k \in 0..(Cardinality(R) - 1)}
    BY <1>1, <2>2, Cycle
  <2>5. timer[n].Time = timer[OS_pTimer].Time => rung = R
    BY <2>3, <2>4
  <2> HIDE DEF rung, n
  <2>6. \A u \in Timers : pc'[u] = pc[u] \/ (pc'[u] \in {"slept", "timeout"} /\ pc[u] \in {"sleep", "wait"})
    BY <2>1
  <2>7. pc' \in [Timers -> {"run", "sleep", "wait", "slept", "timeout"} \cup Deleting]
    <3>1. \A u \in Timers : pc[u] \in {"run", "sleep", "wait", "slept", "timeout"} \cup Deleting
      BY <1>1 DEF TypeOK
    <3> QED
      BY <2>1, <3>1
  <2>8. Asleep' \subseteq Asleep \ rung
    <3> SUFFICES ASSUME NEW u \in Timers, pc'[u] \in {"sleep", "wait"}
                 PROVE  pc[u] \in {"sleep", "wait"} /\ u \notin rung
      BY DEF Asleep
    <3> QED
      BY <2>1
  <2>9. T0TC' \in 0..(W-1) /\ T0MR0' \in 0..(W-1) /\ counting' \in BOOLEAN
    <3>1. n \in Timers /\ timer[n].Prev \in Timers
      BY <2>2, <2>3, TickerAssumption DEF Knit, Round
    <3>2. timer[n].Time \in Int /\ timer[timer[n].Prev].Time \in Int
      BY <1>1, <3>1 DEF Records
    <3>3. 0 \in 0..(W-1) /\ (timer[n].Time - timer[timer[n].Prev].Time) % W \in 0..(W-1)
      BY <3>2, TickerAssumption
    <3> QED
      BY <1>1, <2>1, <3>3 DEF TypeOK
  <2>10. CASE OS_pTimer' = NULL
    <3>1. n \in Timers
      BY <2>2, <2>3 DEF Round
    <3>2. rung = R
      BY <2>1, <2>5, <2>10, <3>1, TickerAssumption
    <3>3. Asleep' \subseteq {} /\ Round(timer, {})
      BY <2>2, <2>8, <3>2 DEF Round
    <3>4. RingIs({})'
      BY <1>2, <2>6, <2>7, <2>9, <2>10, <3>3
    <3> QED
      BY <2>10, <3>4
  <2>11. CASE OS_pTimer' # NULL
    <3>1. OS_pTimer' \in R /\ R \in SUBSET Timers /\ Asleep' \subseteq R
      BY <2>1, <2>2, <2>3, <2>8, <2>11 DEF Round
    <3>2. RingIs(R)'
      BY <1>2, <2>2, <2>6, <2>7, <2>9, <2>11, <3>1
    <3> QED
      BY <2>11, <3>2
  <2> QED
    BY <2>10, <2>11
<1> QED
  BY <1>3, <1>4

\* A millisecond does not touch the ring.
LEMMA TickRing ==
  ASSUME NEW R, RingIs(R), "del" \in Careful, Tick
  PROVE  RingIs(R)'
<1>1. /\ Sound(timer, R) /\ TypeOK
      /\ \A u \in Timers : pc[u] \notin Deleting
      /\ UNCHANGED <<timer, OS_pTimer, T0MR0, pc, LeftTime>>
  BY CalmAll DEF Tick, RingIs
<1>2. T0TC' \in 0..(W-1) /\ counting' \in BOOLEAN /\ flag' \in BOOLEAN
  <2>1. 0 \in 0..(W-1) /\ (T0TC + 1) % W \in 0..(W-1)
    BY <1>1, TickerAssumption DEF TypeOK
  <2> QED
    BY <1>1, <2>1 DEF Tick, TypeOK
<1>3. rest' \in [Timers -> 0..MaxDelay]
  <2>1. rest' = [t \in Timers |-> IF t \in Asleep /\ rest[t] > 0 THEN rest[t] - 1 ELSE rest[t]]
    BY DEF Tick
  <2>2. \A t \in Timers : rest[t] \in 0..MaxDelay
    BY <1>1 DEF TypeOK
  <2>3. ASSUME NEW t \in Timers
        PROVE  (IF t \in Asleep /\ rest[t] > 0 THEN rest[t] - 1 ELSE rest[t]) \in 0..MaxDelay
    BY <2>2, TickerAssumption
  <2> QED
    BY <2>1, <2>3
<1>4. TypeOK'
  BY <1>1, <1>2, <1>3 DEF TypeOK
<1>5. Sound(timer, R)' /\ Asleep' = Asleep
  BY <1>1 DEF Sound, Asleep
<1>6. \A u \in Timers : pc'[u] \notin Deleting /\ pc'[u] \notin Unlinking
  BY <1>1 DEF Deleting, Unlinking
<1> QED
  BY <1>4, <1>5, <1>6 DEF RingIs

-----------------------------------------------------------------------------
\* A woken thread finds its timer on a ring: its delete goes on.
LEMMA EntryGoesOn ==
  ASSUME NEW R, RingIs(R), "del" \in Careful, NEW t \in Timers, DelEntry(t)
  PROVE  pc' = [pc EXCEPT ![t] = "test"] /\ RingIs(R)'
<1>1. /\ pc[t] = "slept" /\ pc[t] \notin Unlinking /\ pc[t] \in Linked_ /\ Undisturbed({t}) /\ TypeOK
      /\ UNCHANGED <<timer, OS_pTimer, hardware, LeftTime, rest>>
  BY DEF DelEntry, Unlinking, Linked_, RingIs
<1>2. Sound(timer, R) /\ timer \in Records
  BY <1>1, Calm
<1>3. timer[t].Next \in Timers /\ timer[t].Prev \in Timers
  BY <1>1, <1>2, CutSound
<1>4. pc' = [pc EXCEPT ![t] = "test"]
  BY <1>3, TickerAssumption DEF DelEntry
<1>5. /\ T0TC' \in 0..(W-1) /\ T0MR0' \in 0..(W-1) /\ counting' \in BOOLEAN /\ flag' \in BOOLEAN
      /\ LeftTime' \in [Timers -> 0..(W-1)]
  BY <1>1 DEF TypeOK, hardware
<1>6. /\ UNCHANGED <<timer, rest>> /\ OS_pTimer' = OS_pTimer /\ Where(t, OS_pTimer)'
  BY <1>1, <1>4 DEF Where, TypeOK
<1>7. "test" \in Deleting \cap Linked_
  BY DEF Deleting, Linked_
<1> QED
  BY <1>1, <1>4, <1>5, <1>6, <1>7, LookRing

\* Each step of the unlocked delete before it unlinks.
DelStep(t) == DelTest(t) \/ DelStop(t) \/ DelLeft(t) \/ DelHandOver(t) \/ DelStart(t)

\* What such a step finds and leaves alone.
LEMMA DelStepType ==
  ASSUME NEW R, RingIs(R), "del" \in Careful, NEW t \in Timers, DelStep(t)
  PROVE  /\ TypeOK /\ Sound(timer, R) /\ Undisturbed({t}) /\ Where(t, OS_pTimer)
         /\ timer[t].Next \in Timers /\ pc[t] \in Deleting /\ pc[t] \in Linked_
         /\ UNCHANGED <<timer, rest>>
         /\ T0TC' \in 0..(W-1) /\ T0MR0' \in 0..(W-1) /\ counting' \in BOOLEAN /\ flag' \in BOOLEAN
         /\ LeftTime' \in [Timers -> 0..(W-1)]
<1>1. /\ TypeOK /\ Undisturbed({t}) /\ pc[t] \in Deleting /\ pc[t] \in Linked_ /\ pc[t] \notin Unlinking
      /\ UNCHANGED <<timer, rest>>
  BY DEF RingIs, DelStep, DelTest, DelStop, DelLeft, DelHandOver, DelStart, Deleting, Linked_, Unlinking
<1>2. /\ Sound(timer, R) /\ Where(t, OS_pTimer) /\ timer[t].Next \in Timers
  <2>1. Sound(timer, R) /\ Where(t, OS_pTimer)
    BY <1>1, Calm DEF RingIs
  <2> QED
    BY <1>1, <2>1 DEF Sound
<1>3. 0 \in 0..(W-1) /\ get_left_time \in 0..(W-1)
  BY <1>1, TickerAssumption DEF TypeOK, get_left_time
<1>4. LeftTime' \in [Timers -> 0..(W-1)]
  <2>1. \/ LeftTime' = LeftTime
        \/ LeftTime' = [LeftTime EXCEPT ![t] = get_left_time]
        \/ LeftTime' = [LeftTime EXCEPT ![t] = 0]
    BY DEF DelStep, DelTest, DelStop, DelLeft, DelHandOver, DelStart
  <2>2. LeftTime \in [Timers -> 0..(W-1)]
    BY <1>1 DEF TypeOK
  <2> QED
    BY <1>3, <2>1, <2>2
<1>5. T0TC' \in 0..(W-1) /\ T0MR0' \in 0..(W-1) /\ counting' \in BOOLEAN /\ flag' \in BOOLEAN
  <2>1. T0TC \in 0..(W-1) /\ T0MR0 \in 0..(W-1) /\ counting \in BOOLEAN /\ flag \in BOOLEAN
    BY <1>1 DEF TypeOK
  <2>2. CASE DelTest(t) \/ DelLeft(t) \/ DelHandOver(t)
    BY <2>1, <2>2 DEF DelTest, DelLeft, DelHandOver, hardware
  <2>3. CASE DelStop(t)
    BY <1>3, <2>1, <2>3 DEF DelStop, hardware
  <2>4. CASE DelStart(t)
    <3>1. PICK Time \in IF OS_pTimer = NULL THEN 0..(W-1) ELSE {timer[OS_pTimer].Time} :
            set_time(Time - timer[t].Time + LeftTime[t])
      BY <2>4 DEF DelStart
    <3>2. timer[t].Time \in Int /\ LeftTime[t] \in Int
      BY <1>1 DEF TypeOK
    <3>3. Time \in Int
      BY <1>1 DEF TypeOK
    <3>4. (Time - timer[t].Time + LeftTime[t]) % W \in 0..(W-1)
      BY <3>2, <3>3, TickerAssumption
    <3> QED
      BY <1>3, <2>1, <3>1, <3>4 DEF set_time
  <2> QED
    BY <2>2, <2>3, <2>4 DEF DelStep
<1> QED
  BY <1>1, <1>2, <1>4, <1>5

LEMMA DelRing ==
  ASSUME NEW R, RingIs(R), "del" \in Careful, NEW t \in Timers, DelStep(t)
  PROVE  /\ pc'[t] = "unlink1" => RingIs(R \ {t})' /\ Later(t)' = Cut(timer, t)
         /\ pc'[t] # "unlink1" => RingIs(R)'
<1>1. /\ TypeOK /\ Sound(timer, R) /\ Undisturbed({t}) /\ Where(t, OS_pTimer)
      /\ timer[t].Next \in Timers /\ pc[t] \in Deleting /\ pc[t] \in Linked_
      /\ UNCHANGED <<timer, rest>>
      /\ T0TC' \in 0..(W-1) /\ T0MR0' \in 0..(W-1) /\ counting' \in BOOLEAN /\ flag' \in BOOLEAN
      /\ LeftTime' \in [Timers -> 0..(W-1)]
  BY DelStepType
<1>2. ASSUME NEW to, pc' = [pc EXCEPT ![t] = to] PROVE pc'[t] = to
  BY <1>1, <1>2 DEF TypeOK
<1>3. ASSUME NEW to \in Deleting \cap Linked_, pc' = [pc EXCEPT ![t] = to],
             \/ OS_pTimer' = OS_pTimer
             \/ OS_pTimer = t /\ OS_pTimer' = timer[t].Next,
             to \in {"stop", "reset", "none"} => OS_pTimer' = t /\ timer[t].Next = t,
             to \in {"left", "hand"} => OS_pTimer' = t /\ timer[t].Next # t,
             to = "start" => OS_pTimer' = timer[t].Next /\ timer[t].Next # t
      PROVE  pc'[t] # "unlink1" /\ RingIs(R)'
  <2>1. pc'[t] = to /\ to # "unlink1"
    BY <1>2, <1>3 DEF Linked_
  <2>2. Where(t, OS_pTimer)'
    BY <1>1, <1>3, <2>1 DEF Where
  <2> QED
    BY <1>1, <1>3, <2>1, <2>2, LookRing
<1>4. ASSUME pc[t] \in {"test", "none", "start"}, pc' = [pc EXCEPT ![t] = "unlink1"],
             \/ OS_pTimer # t /\ OS_pTimer' = OS_pTimer
             \/ OS_pTimer = t /\ timer[t].Next = t /\ OS_pTimer' = NULL
      PROVE  pc'[t] = "unlink1" /\ RingIs(R \ {t})' /\ Later(t)' = Cut(timer, t)
  BY <1>1, <1>2, <1>4, LetGoRing
<1>5. CASE DelTest(t)
  <2>1. pc[t] = "test" /\ OS_pTimer' = OS_pTimer
    BY <1>5 DEF DelTest
  <2>2. CASE OS_pTimer # t
    <3>1. pc' = [pc EXCEPT ![t] = "unlink1"]
      BY <1>5, <2>2 DEF DelTest
    <3> QED
      BY <1>4, <2>1, <2>2, <3>1
  <2>3. CASE OS_pTimer = t /\ timer[t].Next = t
    <3>1. pc' = [pc EXCEPT ![t] = "stop"] /\ "stop" \in Deleting \cap Linked_
      BY <1>5, <2>3 DEF DelTest, Deleting, Linked_
    <3> QED
      BY <1>3, <2>1, <2>3, <3>1
  <2>4. CASE OS_pTimer = t /\ timer[t].Next # t
    <3>1. pc' = [pc EXCEPT ![t] = "left"] /\ "left" \in Deleting \cap Linked_
      BY <1>5, <2>4 DEF DelTest, Deleting, Linked_
    <3> QED
      BY <1>3, <2>1, <2>4, <3>1
  <2> QED
    BY <2>2, <2>3, <2>4
<1>6. CASE DelStop(t)
  <2>1. pc[t] \in {"stop", "reset", "none"} /\ OS_pTimer = t /\ timer[t].Next = t
    BY <1>1, <1>6 DEF DelStop, Where
  <2>2. CASE pc[t] \in {"stop", "reset"}
    <3>1. PICK to \in {"reset", "none"} : pc' = [pc EXCEPT ![t] = to] /\ OS_pTimer' = OS_pTimer
      BY <1>6, <2>2 DEF DelStop
    <3>2. to \in Deleting \cap Linked_ /\ to \notin {"left", "hand", "start"}
      BY DEF Deleting, Linked_
    <3> QED
      BY <1>3, <2>1, <3>1, <3>2
  <2>3. CASE pc[t] = "none"
    <3>1. pc' = [pc EXCEPT ![t] = "unlink1"] /\ OS_pTimer' = NULL
      BY <1>6, <2>3 DEF DelStop
    <3> QED
      BY <1>4, <2>1, <2>3, <3>1
  <2> QED
    BY <2>1, <2>2, <2>3
<1>7. CASE DelLeft(t)
  <2>1. pc[t] = "left" /\ pc' = [pc EXCEPT ![t] = "hand"] /\ OS_pTimer' = OS_pTimer
    BY <1>7 DEF DelLeft
  <2>2. OS_pTimer = t /\ timer[t].Next # t /\ "hand" \in Deleting \cap Linked_
    BY <1>1, <2>1 DEF Where, Deleting, Linked_
  <2> QED
    BY <1>3, <2>1, <2>2
<1>8. CASE DelHandOver(t)
  <2>1. pc[t] = "hand" /\ pc' = [pc EXCEPT ![t] = "start"] /\ OS_pTimer' = timer[t].Next
    BY <1>8 DEF DelHandOver
  <2>2. OS_pTimer = t /\ timer[t].Next # t /\ "start" \in Deleting \cap Linked_
    BY <1>1, <2>1 DEF Where, Deleting, Linked_
  <2> QED
    BY <1>3, <2>1, <2>2
<1>9. CASE DelStart(t)
  <2>1. pc[t] = "start" /\ pc' = [pc EXCEPT ![t] = "unlink1"] /\ OS_pTimer' = OS_pTimer
    BY <1>9 DEF DelStart
  <2>2. OS_pTimer # t
    BY <1>1, <2>1 DEF Where
  <2> QED
    BY <1>4, <2>1, <2>2
<1> QED
  BY <1>5, <1>6, <1>7, <1>8, <1>9 DEF DelStep

\* Nothing is on the ring of a system that starts.
LEMMA InitRing ==
  ASSUME Init
  PROVE  RingIs({})
<1>1. 0 \in 0..(W-1) /\ 0 \in 0..MaxDelay
  BY TickerAssumption
<1>2. TypeOK
  <2>1. timer \in [Timers -> [Next : Timers \cup {NULL}, Prev : Timers \cup {NULL}, Time : 0..(W-1)]]
    BY <1>1 DEF Init, Unused
  <2> QED
    BY <1>1, <2>1 DEF Init, TypeOK
<1>3. \A t \in Timers : pc[t] = "run" /\ timer[t] = Unused /\ timer[t].Next = NULL /\ timer[t].Prev = NULL
  BY DEF Init, Unused
<1>4. Knit(timer) /\ Round(timer, {})
  BY <1>3 DEF Knit, Round
<1>5. Asleep = {}
  BY <1>3 DEF Asleep
<1>6. Sound(timer, {})
  BY <1>3, <1>4, <1>5 DEF Sound, Linked_, Init
<1> QED
  BY <1>2, <1>3, <1>6 DEF RingIs, Deleting, Unlinking

\* A step of something else leaves the ring alone.
LEMMA StutterRing ==
  ASSUME NEW R, RingIs(R), UNCHANGED vars
  PROVE  RingIs(R)'
<1>1. UNCHANGED <<timer, OS_pTimer, pc>> /\ TypeOK'
  BY DEF vars, RingIs, TypeOK
<1>2. Asleep' = Asleep /\ \A t \in Timers : Later(t)' = Later(t)
  BY <1>1 DEF Asleep, Later, Unlinked
<1>3. Sound(timer, R) => Sound(timer, R)'
  BY <1>1, <1>2 DEF Sound
<1>4. \A t \in Timers : Sound(Later(t), R) => Sound(Later(t), R)'
  BY <1>1, <1>2 DEF Sound
<1>5. \A t \in Timers : Where(t, OS_pTimer) => Where(t, OS_pTimer)'
  BY <1>1 DEF Where
<1> QED
  BY <1>1, <1>3, <1>4, <1>5 DEF RingIs

\* Whatever happens, there is a ring.
LEMMA RingSteps ==
  ASSUME "del" \in Careful, RingInv, [Next]_vars
  PROVE  RingInv'
<1>1. PICK R \in SUBSET Timers : RingIs(R)
  BY DEF RingInv
<1>2. CASE UNCHANGED vars
  <2>1. RingIs(R)'
    BY <1>1, <1>2, StutterRing
  <2> QED
    BY <2>1 DEF RingInv
<1>3. ASSUME NEW t \in Timers, NEW ms \in Delays, Add(t, ms, "sleep") \/ Add(t, ms, "wait")
      PROVE  RingInv'
  <2>1. RingIs(R \cup {t})'
    BY <1>1, <1>3, AddRing
  <2>2. R \cup {t} \in SUBSET Timers
    OBVIOUS
  <2> QED
    BY <2>1, <2>2 DEF RingInv
<1>4. ASSUME NEW t \in Timers, WaitEnds(t) PROVE RingInv'
  <2>1. RingIs(R \ {t})'
    BY <1>1, <1>4, WaitEndsRing
  <2>2. R \ {t} \in SUBSET Timers
    OBVIOUS
  <2> QED
    BY <2>1, <2>2 DEF RingInv
<1>5. ASSUME NEW t \in Timers, DelEntry(t) PROVE RingInv'
  <2>1. RingIs(R)'
    BY <1>1, <1>5, EntryGoesOn
  <2> QED
    BY <2>1 DEF RingInv
<1>6. ASSUME NEW t \in Timers, DelStep(t) PROVE RingInv'
  <2>1. RingIs(R \ {t})' \/ RingIs(R)'
    BY <1>1, <1>6, DelRing
  <2>2. R \ {t} \in SUBSET Timers
    OBVIOUS
  <2> QED
    BY <2>1, <2>2 DEF RingInv
<1>7. ASSUME NEW t \in Timers, DelUnlink(t) PROVE RingInv'
  <2>1. RingIs(R)'
    BY <1>1, <1>7, UnlinkRing
  <2> QED
    BY <2>1 DEF RingInv
<1>8. CASE systimer_exception
  <2>1. RingIs({})' \/ RingIs(R)'
    BY <1>1, <1>8, RungRing
  <2>2. {} \in SUBSET Timers
    OBVIOUS
  <2> QED
    BY <2>1, <2>2 DEF RingInv
<1>9. CASE Tick
  <2>1. RingIs(R)'
    BY <1>1, <1>9, TickRing
  <2> QED
    BY <2>1 DEF RingInv
<1> QED
  BY <1>2, <1>3, <1>4, <1>5, <1>6, <1>7, <1>8, <1>9 DEF Next, Thread, DelStep

\* The ring that is there is the one a walk from OS_pTimer meets.
LEMMA RingIsSound ==
  ASSUME RingInv
  PROVE  RingSound
<1>1. PICK R \in SUBSET Timers : RingIs(R)
  BY DEF RingInv
<1>2. TypeOK
  BY <1>1 DEF RingIs
<1>3. ASSUME \A t \in Timers : pc[t] \notin Deleting
      PROVE  /\ NULL \notin Ring
             /\ \A t \in Ring : /\ timer[t].Next \in Ring /\ timer[timer[t].Next].Prev = t
                                /\ pc[t] # "run"
             /\ Asleep \subseteq Ring
  <2>1. Sound(timer, R) /\ timer \in Records
    BY <1>1, <1>2, <1>3 DEF RingIs, Deleting, Unlinking, TypeOK, Records
  <2>2. Ring = R
    <3>1. CASE OS_pTimer = NULL
      BY <2>1, <3>1 DEF Sound, Ring
    <3>2. CASE OS_pTimer # NULL
      BY <2>1, <3>2, Cycle DEF Sound
    <3> QED
      BY <3>1, <3>2
  <2>3. ASSUME NEW t \in R
        PROVE  timer[t].Next \in R /\ timer[timer[t].Next].Prev = t /\ pc[t] # "run"
    <3>1. t \in Timers /\ timer[t].Next \in R /\ timer[t].Next \in Timers /\ timer[t].Next # NULL
      BY <2>1, TickerAssumption DEF Sound, Round
    <3>2. timer[timer[t].Next].Prev = t
      BY <2>1, <3>1 DEF Sound, Knit
    <3>3. pc[t] # "run"
      BY <2>1, <3>1 DEF Sound, Linked_, Unused
    <3> QED
      BY <3>1, <3>2, <3>3
  <2> QED
    BY <2>1, <2>2, <2>3, TickerAssumption DEF Sound
<1> QED
  BY <1>2, <1>3 DEF RingSound

\* When nothing interferes with the unlocked delete of sleep, the ring is sound in every
\* state, whether or not a timer is added or deleted while a match waits for its interrupt.
THEOREM RingStaysSound ==
  ASSUME "del" \in Careful
  PROVE  Spec => []RingSound
<1>1. Init => RingInv
  <2>1. {} \in SUBSET Timers
    OBVIOUS
  <2> QED
    BY <2>1, InitRing DEF RingInv
<1>2. RingInv /\ [Next]_vars => RingInv'
  BY RingSteps
<1>3. RingInv => RingSound
  BY RingIsSound
<1> QED
  BY <1>1, <1>2, <1>3, PTL DEF Spec

-----------------------------------------------------------------------------
\* The remainder of a sum or a difference that leaves the range at most once.
LEMMA ModOnce ==
  ASSUME NEW x \in Int, 0 - W <= x, x < 2 * W
  PROVE  x % W = IF x < 0 THEN x + W ELSE IF x < W THEN x ELSE x - W
<1>1. W \in Nat \ {0}
  BY TickerAssumption
<1> QED
  BY <1>1

\* A gap is what lies between two moments, around the wrap if need be.
LEMMA GapIs ==
  ASSUME NEW G \in Records, NEW p \in Timers, NEW u \in Timers
  PROVE  /\ G[u].Time \in 0..(W-1) /\ G[p].Time \in 0..(W-1) /\ W \in Nat \ {0}
         /\ Gap(G, p, u) \in 0..(W-1)
         /\ Gap(G, p, u) = IF G[u].Time < G[p].Time THEN G[u].Time - G[p].Time + W
                           ELSE G[u].Time - G[p].Time
<1>1. /\ G[u].Time \in 0..(W-1) /\ G[p].Time \in 0..(W-1) /\ W \in Nat \ {0}
  BY TickerAssumption DEF Records
<1>2. /\ G[u].Time - G[p].Time \in Int /\ 0 - W <= G[u].Time - G[p].Time
      /\ G[u].Time - G[p].Time < 2 * W /\ G[u].Time - G[p].Time < W
  BY <1>1
<1>3. Gap(G, p, u) = IF G[u].Time - G[p].Time < 0 THEN G[u].Time - G[p].Time + W
                     ELSE IF G[u].Time - G[p].Time < W THEN G[u].Time - G[p].Time
                     ELSE G[u].Time - G[p].Time - W
  BY <1>2, ModOnce DEF Gap
<1> QED
  BY <1>1, <1>2, <1>3

\* Gaps seen from another timer.
LEMMA GapFrom ==
  ASSUME NEW G \in Records, NEW p \in Timers, NEW n \in Timers, NEW u \in Timers
  PROVE  Gap(G, n, u) = IF Gap(G, p, u) < Gap(G, p, n) THEN Gap(G, p, u) - Gap(G, p, n) + W
                        ELSE Gap(G, p, u) - Gap(G, p, n)
<1> DEFINE a == G[p].Time
           b == G[n].Time
           c == G[u].Time
           x == Gap(G, p, u)
           y == Gap(G, p, n)
           z == Gap(G, n, u)
<1>1. /\ a \in 0..(W-1) /\ b \in 0..(W-1) /\ c \in 0..(W-1) /\ W \in Nat \ {0}
      /\ x = IF c < a THEN c - a + W ELSE c - a
      /\ y = IF b < a THEN b - a + W ELSE b - a
      /\ z = IF c < b THEN c - b + W ELSE c - b
  BY GapIs
<1> HIDE DEF a, b, c, x, y, z
<1>2. z = IF x < y THEN x - y + W ELSE x - y
  BY <1>1
<1> QED
  BY <1>2 DEF x, y, z

\* The timer next to p lies nearest to it.
LEMMA NextIsNearest ==
  ASSUME NEW G \in Records, NEW R, Round(G, R), NEW p \in R, NEW L, NEW A, NEW r,
         OnTime(G, R, p, L, A, r)
  PROVE  \A u \in R \ {p} : Gap(G, p, G[p].Next) <= Gap(G, p, u)
<1> DEFINE n == G[p].Next
           g(u) == Gap(G, p, u)
           S == {u \in R : u = p \/ g(n) <= g(u)}
<1>1. \A u \in R : u \in Timers /\ G[u].Next \in R
  BY DEF Round
<1>2. \A u \in R : g(u) \in 0..(W-1) /\ W \in Nat
  BY <1>1, GapIs
<1>3. \A u \in R : G[u].Next # p => g(u) <= g(G[u].Next)
  BY DEF OnTime
<1>4. S \in SUBSET R /\ S # {}
  OBVIOUS
<1> HIDE DEF g
<1>5. \A u \in S : G[u].Next \in S
  BY <1>1, <1>2, <1>3
<1>6. S = R
  <2> HIDE DEF S
  <2> QED
    BY <1>4, <1>5 DEF Round
<1> QED
  BY <1>6 DEF g

\* A timer is cut out, and another takes over when it was the one the counter counts for.
LEMMA CutTime ==
  ASSUME NEW G \in Records, NEW R, Knit(G), Round(G, R), NEW p \in R, NEW L \in Nat, NEW A, NEW r,
         OnTime(G, R, p, L, A, r), NEW t \in Timers, G[t].Next \in Timers,
         NEW B, NEW s, Kept(B, s, A \ {t}, r), A \subseteq R
  PROVE  /\ p # t => OnTime(Cut(G, t), R \ {t}, p, L, B, s)
         /\ p = t /\ G[t].Next # t =>
              OnTime(Cut(G, t), R \ {t}, G[t].Next, Gap(G, p, G[t].Next) + L, B, s)
<1> DEFINE H == Cut(G, t)
           n == G[t].Next
           q == G[t].Prev
           g(u) == Gap(G, p, u)
<1>1. /\ q \in Timers /\ G[q].Next = t /\ G[n].Prev = t
      /\ \A u \in R : u \in Timers /\ G[u].Next \in R /\ G[u].Next \in Timers
  BY TickerAssumption DEF Knit, Round
<1>2. \A u \in R : G[u].Next = t => u = q
  BY <1>1, TickerAssumption DEF Knit
<1>3. /\ H \in Records
      /\ \A u \in R \ {t} : H[u].Time = G[u].Time /\ H[u].Next = IF u = q THEN n ELSE G[u].Next
  <2> HIDE DEF H
  <2>1. /\ H \in Records /\ H[t] = Unused
        /\ \A u \in Timers \ {t} :
              /\ H[u].Time = G[u].Time
              /\ H[u].Next = IF u = G[t].Prev THEN G[t].Next ELSE G[u].Next
              /\ H[u].Prev = IF u = G[t].Next THEN G[t].Prev ELSE G[u].Prev
    BY <1>1, CutShape DEF H
  <2> QED
    BY <1>1, <2>1
<1> HIDE DEF H
<1>4. /\ \A u \in R : g(u) \in 0..(W-1) /\ g(u) + L <= W
      /\ \A u \in R : G[u].Next # p => g(u) <= g(G[u].Next)
      /\ \A u \in A : g(u) + L = r[u]
      /\ W \in Nat
  BY <1>1, GapIs, TickerAssumption DEF OnTime
<1>5. \A u \in R \ {t} : H[u].Next \in R \ {t}
  <2>1. Round(H, R \ {t})
    BY CutRing DEF H
  <2> QED
    BY <2>1 DEF Round
<1>6. ASSUME p # t PROVE OnTime(H, R \ {t}, p, L, B, s)
  <2>1. \A u \in R \ {t} : Gap(H, p, u) = g(u)
    BY <1>3, <1>6 DEF Gap
  <2> HIDE DEF g
  <2>2. ASSUME NEW u \in R \ {t}, H[u].Next # p PROVE g(u) <= g(H[u].Next)
    <3>1. CASE u = q
      <4>1. t \in R /\ H[u].Next = n /\ n \in R
        BY <1>1, <1>3, <3>1
      <4>2. g(u) <= g(t) /\ g(t) <= g(n)
        BY <1>1, <1>4, <1>6, <2>2, <3>1, <4>1
      <4> QED
        BY <1>4, <4>1, <4>2
    <3>2. CASE u # q
      BY <1>3, <1>4, <2>2, <3>2
    <3> QED
      BY <3>1, <3>2
  <2>3. \A u \in B : u \in R \ {t} /\ u \in A /\ s[u] = r[u]
    BY DEF Kept
  <2> QED
    BY <1>4, <1>5, <2>1, <2>2, <2>3 DEF OnTime
<1>7. ASSUME p = t, n # t PROVE OnTime(H, R \ {t}, n, g(n) + L, B, s)
  <2>1. n \in R \ {t}
    BY <1>1, <1>7
  <2>2. \A u \in R \ {t} : g(n) <= g(u)
    BY <1>7, NextIsNearest
  <2>3. ASSUME NEW u \in R \ {t} PROVE Gap(H, n, u) = g(u) - g(n)
    <3>1. Gap(H, n, u) = Gap(G, n, u)
      BY <1>3, <2>1 DEF Gap
    <3>2. p \in Timers /\ n \in Timers /\ u \in Timers
      BY <1>1, <2>1
    <3>3. Gap(G, n, u) = IF g(u) < g(n) THEN g(u) - g(n) + W ELSE g(u) - g(n)
      BY <3>2, GapFrom, SMTT(30)
    <3> HIDE DEF g
    <3> QED
      BY <1>4, <2>1, <2>2, <3>1, <3>3
  <2> HIDE DEF g
  <2>4. ASSUME NEW u \in R \ {t}, H[u].Next # n PROVE Gap(H, n, u) <= Gap(H, n, H[u].Next)
    <3>1. u # q /\ H[u].Next = G[u].Next /\ G[u].Next # p
      BY <1>2, <1>3, <1>7, <2>4
    <3>2. g(u) <= g(H[u].Next)
      BY <1>4, <3>1
    <3>3. /\ Gap(H, n, u) = g(u) - g(n) /\ Gap(H, n, H[u].Next) = g(H[u].Next) - g(n)
          /\ g(u) \in Int /\ g(n) \in Int /\ g(H[u].Next) \in Int
      BY <1>4, <1>5, <2>1, <2>3
    <3> QED
      BY <3>2, <3>3
  <2>5. ASSUME NEW u \in R \ {t} PROVE Gap(H, n, u) + (g(n) + L) = g(u) + L
    <3>1. Gap(H, n, u) = g(u) - g(n) /\ g(u) \in Int /\ g(n) \in Int
      BY <1>4, <2>1, <2>3
    <3> QED
      BY <3>1
  <2>6. \A u \in B : u \in R \ {t} /\ u \in A /\ s[u] = r[u]
    BY DEF Kept
  <2> QED
    BY <1>4, <2>4, <2>5, <2>6 DEF OnTime
<1> QED
  BY <1>6, <1>7 DEF H

\* A timer is linked in behind q at a moment that lies d behind p: where the moments rise past
\* it, or, when it is to come before p, at the end of the ring.
LEMMA InsertTime ==
  ASSUME NEW G \in Records, NEW R, Knit(G), Round(G, R), NEW p \in R, NEW L \in 0..(W-1), NEW A, NEW r,
         OnTime(G, R, p, L, A, r), NEW t \in Timers, G[t].Next = NULL, NEW q \in R,
         NEW x \in 0..(W-1), NEW ms \in 1..(W-1), NEW d \in 0..(W-1), (x - G[p].Time) % W = d,
         NEW B, NEW s, Kept(B \ {t}, s, A, r), A \subseteq R, s[t] = ms
  PROVE  /\ d + L = ms /\ Gap(G, p, q) <= d /\ (G[q].Next # p => d <= Gap(G, p, G[q].Next)) =>
              OnTime(Inserted(G, t, q, x), R \cup {t}, p, L, B, s)
         /\ d + L = ms + W /\ G[q].Next = p =>
              OnTime(Inserted(G, t, q, x), R \cup {t}, t, ms, B, s)
<1> DEFINE H == Inserted(G, t, q, x)
           n == G[q].Next
           g(u) == Gap(G, p, u)
<1>1. /\ q \in Timers /\ p \in Timers /\ n \in R /\ t \notin R /\ q # t /\ n # t /\ p # t
      /\ \A u \in R : u \in Timers /\ u # t /\ G[u].Next \in R
      /\ G[p].Time \in Int
  <2>1. \A u \in R : u \in Timers /\ G[u].Next \in R
    BY DEF Round
  <2>2. t \notin R
    BY <2>1, TickerAssumption
  <2>3. G[p].Time \in Int
    BY <2>1 DEF Records
  <2> QED
    BY <2>1, <2>2, <2>3
<1>2. \A u \in R : G[u].Next = n => u = q
  <2>1. \A u \in R : G[u].Next \in Timers
    BY DEF Round
  <2> QED
    BY <1>1, <2>1, TickerAssumption DEF Knit
<1>3. /\ H \in Records /\ H[t].Next = n /\ H[t].Time = x
      /\ \A u \in R : H[u].Time = G[u].Time /\ H[u].Next = IF u = q THEN t ELSE G[u].Next
  <2> HIDE DEF H
  <2>1. n \in Timers
    BY <1>1
  <2>2. /\ H \in Records /\ H[t] = [Next |-> G[q].Next, Prev |-> q, Time |-> x]
        /\ \A u \in Timers \ {t} :
              /\ H[u].Time = G[u].Time
              /\ H[u].Next = IF u = q THEN t ELSE G[u].Next
              /\ H[u].Prev = IF u = G[q].Next THEN t ELSE G[u].Prev
    BY <1>1, <2>1, InsertShape DEF H
  <2> QED
    BY <1>1, <2>2
<1> HIDE DEF H
<1>4. /\ \A u \in R : g(u) \in 0..(W-1) /\ g(u) + L <= W
      /\ \A u \in R : G[u].Next # p => g(u) <= g(G[u].Next)
      /\ \A u \in A : g(u) + L = r[u]
      /\ W \in Nat \ {0} /\ g(p) = 0
  <2>1. \A u \in R : g(u) \in 0..(W-1) /\ W \in Nat \ {0}
    BY <1>1, GapIs
  <2>2. g(p) = 0
    BY <1>1, GapIs
  <2> QED
    BY <1>1, <2>1, <2>2 DEF OnTime
<1>5. Gap(H, p, t) = d /\ \A u \in R : Gap(H, p, u) = g(u)
  BY <1>1, <1>3 DEF Gap
<1>6. /\ \A u \in R : H[u].Next \in R \cup {t}
      /\ \A u \in B : u # t => u \in A /\ u \in R /\ s[u] = r[u]
  BY <1>1, <1>3 DEF Kept
<1>7. ASSUME d + L = ms, g(q) <= d, n # p => d <= g(n)
      PROVE  OnTime(H, R \cup {t}, p, L, B, s)
  <2> HIDE DEF g
  <2>1. ASSUME NEW u \in R \cup {t}, H[u].Next # p PROVE Gap(H, p, u) <= Gap(H, p, H[u].Next)
    <3>1. CASE u = t
      BY <1>1, <1>3, <1>5, <1>7, <2>1, <3>1
    <3>2. CASE u # t /\ u = q
      BY <1>1, <1>3, <1>5, <1>7, <3>2
    <3>3. CASE u # t /\ u # q
      <4>1. u \in R /\ H[u].Next = G[u].Next /\ G[u].Next \in R /\ G[u].Next # p
        BY <1>1, <1>3, <2>1, <3>3
      <4> QED
        BY <1>4, <1>5, <4>1
    <3> QED
      BY <3>1, <3>2, <3>3
  <2>2. \A u \in R \cup {t} : Gap(H, p, u) + L <= W
    <3>1. d + L <= W
      BY <1>4, <1>7
    <3> QED
      BY <1>4, <1>5, <3>1
  <2>3. ASSUME NEW u \in B PROVE Gap(H, p, u) + L = s[u]
    <3>1. CASE u = t
      BY <1>5, <1>7, <3>1
    <3>2. CASE u # t
      BY <1>4, <1>5, <1>6, <3>2
    <3> QED
      BY <3>1, <3>2
  <2> QED
    BY <2>1, <2>2, <2>3 DEF OnTime
<1>8. ASSUME d + L = ms + W, n = p
      PROVE  OnTime(H, R \cup {t}, t, ms, B, s)
  <2>1. ASSUME NEW u \in R PROVE Gap(H, t, u) = g(u) + L - ms
    <3>1. Gap(H, t, u) = IF g(u) < d THEN g(u) - d + W ELSE g(u) - d
      <4>1. Gap(H, t, u) = IF Gap(H, p, u) < Gap(H, p, t) THEN Gap(H, p, u) - Gap(H, p, t) + W
                           ELSE Gap(H, p, u) - Gap(H, p, t)
        BY <1>1, <1>3, GapFrom
      <4> QED
        BY <1>5, <4>1
    <3> HIDE DEF g
    <3>2. g(u) \in 0..(W-1) /\ g(u) + L <= W
      BY <1>4
    <3> QED
      BY <1>4, <1>8, <3>1, <3>2
  <2>2. Gap(H, t, t) = 0
    BY <1>3, GapIs
  <2> HIDE DEF g
  <2>3. ASSUME NEW u \in R PROVE Gap(H, t, u) \in Int /\ 0 <= Gap(H, t, u) /\ Gap(H, t, u) + ms = g(u) + L
    <3>1. g(u) \in 0..(W-1) /\ L > ms
      BY <1>4, <1>8
    <3> QED
      BY <2>1, <3>1
  <2>4. ASSUME NEW u \in R \cup {t}, H[u].Next # t PROVE Gap(H, t, u) <= Gap(H, t, H[u].Next)
    <3>1. CASE u = t
      BY <1>1, <1>3, <2>2, <2>3, <3>1
    <3>2. CASE u # t
      <4>1. u \in R /\ u # q /\ H[u].Next = G[u].Next /\ G[u].Next \in R
        BY <1>1, <1>3, <2>4, <3>2
      <4>2. G[u].Next # p
        BY <1>2, <1>8, <4>1
      <4>3. g(u) <= g(G[u].Next) /\ g(u) \in 0..(W-1) /\ g(G[u].Next) \in 0..(W-1)
        BY <1>4, <4>1, <4>2
      <4> QED
        BY <2>1, <4>1, <4>3
    <3> QED
      BY <3>1, <3>2
  <2>5. \A u \in R \cup {t} : Gap(H, t, u) + ms <= W
    <3>1. 0 + ms <= W
      BY <1>4
    <3> QED
      BY <1>4, <2>2, <2>3, <3>1
  <2>6. ASSUME NEW u \in B PROVE Gap(H, t, u) + ms = s[u]
    <3>1. CASE u = t
      BY <2>2, <3>1
    <3>2. CASE u # t
      BY <1>4, <1>6, <2>3, <3>2
    <3> QED
      BY <3>1, <3>2
  <2> QED
    BY <2>4, <2>5, <2>6 DEF OnTime
<1> QED
  BY <1>7, <1>8 DEF H

\* The remainders of differences.
LEMMA ModFrom ==
  ASSUME NEW a \in 0..(W-1), NEW b \in 0..(W-1), NEW c \in 0..(W-1)
  PROVE  /\ (b - a) % W \in 0..(W-1)
         /\ (c - b) % W = IF (c - a) % W < (b - a) % W THEN ((c - a) % W) - ((b - a) % W) + W
                          ELSE ((c - a) % W) - ((b - a) % W)
<1>1. W \in Nat \ {0}
  BY TickerAssumption
<1>2. /\ b - a \in Int /\ 0 - W <= b - a /\ b - a < 2 * W /\ b - a < W
      /\ c - a \in Int /\ 0 - W <= c - a /\ c - a < 2 * W /\ c - a < W
      /\ c - b \in Int /\ 0 - W <= c - b /\ c - b < 2 * W /\ c - b < W
  BY <1>1
<1>3. /\ (b - a) % W = IF b - a < 0 THEN b - a + W ELSE IF b - a < W THEN b - a ELSE b - a - W
      /\ (c - a) % W = IF c - a < 0 THEN c - a + W ELSE IF c - a < W THEN c - a ELSE c - a - W
      /\ (c - b) % W = IF c - b < 0 THEN c - b + W ELSE IF c - b < W THEN c - b ELSE c - b - W
  BY <1>2, ModOnce
<1> DEFINE X == (b - a) % W
           Y == (c - a) % W
           Z == (c - b) % W
<1>4. /\ X = IF b - a < 0 THEN b - a + W ELSE b - a
      /\ Y = IF c - a < 0 THEN c - a + W ELSE c - a
      /\ Z = IF c - b < 0 THEN c - b + W ELSE c - b
  BY <1>2, <1>3
<1> HIDE DEF X, Y, Z
<1>5. X \in 0..(W-1) /\ Z = IF Y < X THEN Y - X + W ELSE Y - X
  BY <1>1, <1>4
<1> QED
  BY <1>5 DEF X, Y, Z

\* The moment of a timer of ms milliseconds, seen from OS_pTimer.
LEMMA MomentIs ==
  ASSUME timer \in Records, OS_pTimer \in Timers, get_left_time \in 0..(W-1), NEW ms \in 1..(W-1)
  PROVE  /\ Moment(ms) \in 0..(W-1)
         /\ (Moment(ms) - timer[OS_pTimer].Time) % W =
              IF get_left_time <= ms THEN ms - get_left_time ELSE ms - get_left_time + W
<1> DEFINE a == timer[OS_pTimer].Time
           L == get_left_time
           y == a + ms - L
           x == Moment(ms)
<1>1. W \in Nat \ {0} /\ a \in 0..(W-1) /\ L \in 0..(W-1)
  BY TickerAssumption DEF Records
<1> HIDE DEF a, L
<1>2. y \in Int /\ 0 - W <= y /\ y < 2 * W
  BY <1>1
<1>3. x = y % W
  BY DEF Moment, a, L
<1> HIDE DEF x
<1>4. x = IF y < 0 THEN y + W ELSE IF y < W THEN y ELSE y - W
  <2> HIDE DEF y
  <2> QED
    BY <1>2, <1>3, ModOnce
<1>5. x \in 0..(W-1)
  BY <1>1, <1>2, <1>4
<1> DEFINE z == x - a
<1>6. z \in Int /\ 0 - W <= z /\ z < 2 * W
  BY <1>1, <1>5
<1>7. z % W = IF z < 0 THEN z + W ELSE IF z < W THEN z ELSE z - W
  <2> HIDE DEF z
  <2> QED
    BY <1>6, ModOnce
<1> DEFINE v == z % W
<1>8. v = IF L <= ms THEN ms - L ELSE ms - L + W
  <2>1. v = IF z < 0 THEN z + W ELSE IF z < W THEN z ELSE z - W
    BY <1>7
  <2> HIDE DEF v
  <2> QED
    BY <1>1, <1>4, <1>5, <2>1
<1> QED
  BY <1>5, <1>8 DEF x, a, L

\* Along the walk the moments rise.
LEMMA Rising ==
  ASSUME timer \in Records, NEW R, Knit(timer), Round(timer, R), OS_pTimer \in R, NEW L, NEW A, NEW r,
         OnTime(timer, R, OS_pTimer, L, A, r)
  PROVE  \A i, j \in 0..(Cardinality(R) - 1) :
           i <= j => Gap(timer, OS_pTimer, Step[i]) <= Gap(timer, OS_pTimer, Step[j])
<1> DEFINE m == Cardinality(R)
           g(u) == Gap(timer, OS_pTimer, u)
<1>1. /\ m \in 1..Cardinality(Timers) /\ Cardinality(Timers) \in Nat
      /\ \A k \in 1..(m - 1) : Step[k] # OS_pTimer
  BY Cycle, Steps
<1>2. /\ Step \in [0..Cardinality(Timers) -> R]
      /\ \A k \in 0..(Cardinality(Timers) - 1) : Step[k + 1] = timer[Step[k]].Next
  BY Steps
<1>3. \A u \in R : g(u) \in 0..(W-1) /\ W \in Nat
  <2>1. \A u \in R : u \in Timers
    BY DEF Round
  <2> QED
    BY <2>1, GapIs
<1>4. \A u \in R : timer[u].Next # OS_pTimer => g(u) <= g(timer[u].Next)
  BY DEF OnTime
<1> HIDE DEF m, g
<1>5. ASSUME NEW i \in 0..(m - 1), NEW j \in 0..(m - 1), i <= j, ~(g(Step[i]) <= g(Step[j]))
      PROVE  FALSE
  <2> DEFINE K == {k \in Nat : k \in 0..(m - 1) /\ i <= k /\ ~(g(Step[i]) <= g(Step[k]))}
  <2>1. PICK k \in K : \A h \in K : k <= h
    <3>1. K \in SUBSET Nat /\ K # {}
      BY <1>5
    <3> HIDE DEF K
    <3> QED
      BY <3>1, Least
  <2>2. k \in 0..(m - 1) /\ i <= k /\ ~(g(Step[i]) <= g(Step[k])) /\ i \in 0..Cardinality(Timers)
    BY <1>1, <2>1
  <2>3. Step[i] \in R /\ g(Step[i]) \in Int
    BY <1>2, <1>3, <2>2
  <2>4. k # i
    BY <2>2, <2>3
  <2> DEFINE h == k - 1
  <2>5. /\ h \in Nat /\ h \in 0..(m - 1) /\ i <= h /\ ~(k <= h) /\ h + 1 = k /\ k \in 1..(m - 1)
        /\ h \in 0..(Cardinality(Timers) - 1) /\ h \in 0..Cardinality(Timers)
    BY <1>1, <2>2, <2>4
  <2> HIDE DEF h
  <2>6. g(Step[i]) <= g(Step[h])
    BY <2>1, <2>5
  <2>7. Step[k] = timer[Step[h]].Next /\ Step[k] # OS_pTimer /\ Step[h] \in R
    BY <1>1, <1>2, <2>5
  <2>8. g(Step[h]) <= g(Step[k]) /\ Step[k] \in R
    BY <1>4, <2>7 DEF Round
  <2>9. g(Step[h]) \in Int /\ g(Step[k]) \in Int
    BY <1>3, <2>7, <2>8
  <2> QED
    BY <2>2, <2>3, <2>6, <2>8, <2>9
<1> QED
  BY <1>5 DEF m, g

\* Where OS_timer_add links a timer in: where the moments rise past its own, and at the end of
\* the ring when it comes before OS_pTimer.
LEMMA PositionTime ==
  ASSUME timer \in Records, NEW R, Knit(timer), Round(timer, R), OS_pTimer \in R,
         NEW L \in 0..(W-1), NEW A, NEW r, OnTime(timer, R, OS_pTimer, L, A, r),
         NEW ms \in 1..(W-1), NEW x \in 0..(W-1), NEW d \in 0..(W-1),
         (x - timer[OS_pTimer].Time) % W = d
  PROVE  /\ d + L = ms =>
              /\ Gap(timer, OS_pTimer, Position(x)) <= d
              /\ timer[Position(x)].Next # OS_pTimer =>
                   d <= Gap(timer, OS_pTimer, timer[Position(x)].Next)
         /\ d + L = ms + W => timer[Position(x)].Next = OS_pTimer
<1> DEFINE m == Cardinality(R)
           g(u) == Gap(timer, OS_pTimer, u)
<1>1. m \in 1..Cardinality(Timers) /\ Cardinality(Timers) \in Nat
  BY Cycle, Steps
<1>2. /\ Step \in [0..Cardinality(Timers) -> R] /\ Step[0] = OS_pTimer
      /\ \A k \in 0..(Cardinality(Timers) - 1) : Step[k + 1] = timer[Step[k]].Next
  BY Steps
<1>3. PICK k \in 0..(m - 1) : Position(x) = Step[k] /\ Found(x, k)
  BY PositionIs
<1>4. \A u \in R : u \in Timers /\ timer[u].Next \in R /\ g(u) \in 0..(W-1) /\ W \in Nat
  <2>1. \A u \in R : u \in Timers /\ timer[u].Next \in R
    BY DEF Round
  <2> QED
    BY <2>1, GapIs
<1>5. /\ \A u \in R : timer[u].Next # OS_pTimer => g(u) <= g(timer[u].Next)
      /\ \A u \in R : g(u) + L <= W
      /\ g(OS_pTimer) = 0
  <2>1. g(OS_pTimer) = 0
    BY <1>4, GapIs
  <2> QED
    BY <2>1 DEF OnTime
<1>6. ASSUME NEW u \in R, timer[u].Next # OS_pTimer
      PROVE  /\ g(u) <= d => (Behind(u, x) <=> d <= g(timer[u].Next))
             /\ d + L = ms + W => ~Behind(u, x)
  <2> DEFINE n == timer[u].Next
             a == timer[OS_pTimer].Time
             b == timer[u].Time
             c == timer[n].Time
  <2>1. a \in 0..(W-1) /\ b \in 0..(W-1) /\ c \in 0..(W-1) /\ n \in R
    BY <1>4, GapIs
  <2>2. Behind(u, x) <=> (x - b) % W <= (c - b) % W
    BY DEF Behind
  <2>3. /\ g(u) = (b - a) % W /\ g(n) = (c - a) % W /\ d = (x - a) % W
    BY DEF Gap
  <2> HIDE DEF a, b, c, n
  <2>4. /\ (x - b) % W = IF d < g(u) THEN d - g(u) + W ELSE d - g(u)
        /\ (c - b) % W = IF g(n) < g(u) THEN g(n) - g(u) + W ELSE g(n) - g(u)
    <3>1. (x - b) % W = IF (x - a) % W < (b - a) % W THEN ((x - a) % W) - ((b - a) % W) + W
                        ELSE ((x - a) % W) - ((b - a) % W)
      BY <2>1, ModFrom
    <3>2. (c - b) % W = IF (c - a) % W < (b - a) % W THEN ((c - a) % W) - ((b - a) % W) + W
                        ELSE ((c - a) % W) - ((b - a) % W)
      BY <2>1, ModFrom
    <3> QED
      BY <2>3, <3>1, <3>2
  <2>5. g(u) <= g(n) /\ g(n) + L <= W
    BY <1>5, <1>6, <2>1 DEF n
  <2>6. g(u) \in 0..(W-1) /\ g(n) \in 0..(W-1) /\ W \in Nat
    BY <1>4, <2>1
  <2> HIDE DEF g
  <2> DEFINE X == (x - b) % W
             Y == (c - b) % W
  <2>7. Behind(u, x) <=> X <= Y
    BY <2>2
  <2>8. /\ X = IF d < g(u) THEN d - g(u) + W ELSE d - g(u)
        /\ Y = IF g(n) < g(u) THEN g(n) - g(u) + W ELSE g(n) - g(u)
    BY <2>4
  <2> HIDE DEF X, Y
  <2>9. g(u) <= d => (X <= Y <=> d <= g(n))
    BY <2>5, <2>6, <2>8
  <2>10. d + L = ms + W => ~(X <= Y)
    BY <2>5, <2>6, <2>8
  <2> QED
    BY <2>7, <2>9, <2>10 DEF n, g
<1> HIDE DEF m, g
<1>7. /\ Step[k] \in R /\ timer[Step[k]].Next = Step[k + 1]
      /\ Behind(Step[k], x) \/ Step[k + 1] = OS_pTimer
      /\ \A j \in 0..(k - 1) : /\ ~Behind(Step[j], x) /\ Step[j + 1] # OS_pTimer
                               /\ Step[j] \in R /\ timer[Step[j]].Next = Step[j + 1]
  <2>1. k \in 0..(Cardinality(Timers) - 1) /\ k \in 0..Cardinality(Timers)
    BY <1>1
  <2>2. \A j \in 0..(k - 1) : j \in 0..(Cardinality(Timers) - 1) /\ j \in 0..Cardinality(Timers)
    BY <1>1
  <2> QED
    BY <1>2, <1>3, <2>1, <2>2 DEF Found
<1>8. g(Step[k]) <= d
  <2> SUFFICES ASSUME ~(g(Step[k]) <= d) PROVE FALSE
    OBVIOUS
  <2> DEFINE K == {j \in Nat : j <= k /\ ~(g(Step[j]) <= d)}
  <2>1. PICK j \in K : \A i \in K : j <= i
    <3>1. K \in SUBSET Nat /\ K # {}
      OBVIOUS
    <3> HIDE DEF K
    <3> QED
      BY <3>1, Least
  <2>2. j \in Nat /\ j <= k /\ ~(g(Step[j]) <= d)
    BY <2>1
  <2>3. j # 0
    BY <1>2, <1>5, <2>2
  <2> DEFINE i == j - 1
  <2>4. i \in Nat /\ i <= k /\ ~(j <= i) /\ i \in 0..(k - 1) /\ i + 1 = j
    BY <2>2, <2>3
  <2> HIDE DEF i
  <2>5. g(Step[i]) <= d
    BY <2>1, <2>4
  <2>6. ~Behind(Step[i], x) /\ Step[j] # OS_pTimer /\ Step[i] \in R /\ timer[Step[i]].Next = Step[j]
    BY <1>7, <2>4
  <2>7. ~(d <= g(Step[j])) /\ Step[j] \in R
    BY <1>4, <1>6, <2>5, <2>6
  <2>8. g(Step[j]) \in Int
    BY <1>4, <2>7
  <2> QED
    BY <2>2, <2>7, <2>8
<1>9. Step[k + 1] # OS_pTimer => d <= g(Step[k + 1])
  BY <1>6, <1>7, <1>8
<1>10. d + L = ms + W => Step[k + 1] = OS_pTimer
  BY <1>6, <1>7
<1> QED
  BY <1>3, <1>7, <1>8, <1>9, <1>10 DEF g

-----------------------------------------------------------------------------
\* What the counter has left, and what it has left when it was just set.
LEMMA LeftIs ==
  ASSUME TypeOK
  PROVE  /\ get_left_time \in 0..(W-1) /\ W \in Nat \ {0}
         /\ get_left_time = IF T0MR0 < T0TC THEN T0MR0 - T0TC + W ELSE T0MR0 - T0TC
<1>1. W \in Nat \ {0} /\ T0MR0 \in 0..(W-1) /\ T0TC \in 0..(W-1)
  BY TickerAssumption DEF TypeOK
<1> DEFINE x == T0MR0 - T0TC
<1>2. x \in Int /\ 0 - W <= x /\ x < 2 * W /\ x < W
  BY <1>1
<1>3. get_left_time = IF x < 0 THEN x + W ELSE IF x < W THEN x ELSE x - W
  <2>1. get_left_time = x % W
    BY DEF get_left_time
  <2> HIDE DEF x
  <2> QED
    BY <1>2, <2>1, ModOnce
<1> QED
  BY <1>1, <1>2, <1>3

\* set_time starts the counter with exactly the milliseconds it was given left.
LEMMA LeftSet ==
  ASSUME NEW ms \in 0..(W-1), set_time(ms)
  PROVE  get_left_time' = ms /\ counting' = TRUE /\ flag' = flag
<1>1. W \in Nat \ {0} /\ ms \in Int /\ 0 - W <= ms /\ ms < 2 * W /\ ms < W /\ ~(ms < 0)
  BY TickerAssumption
<1>2. ms % W = ms
  BY <1>1, ModOnce
<1>3. T0MR0' = ms /\ T0TC' = 0 /\ counting' = TRUE /\ flag' = flag
  BY <1>2 DEF set_time
<1>4. get_left_time' = (ms - 0) % W
  BY <1>3 DEF get_left_time
<1>5. ms - 0 = ms
  BY <1>1
<1> QED
  BY <1>2, <1>3, <1>4, <1>5

\* With no delete under way, what there is to show.
LEMMA TimeOf ==
  ASSUME NEW R, \A u \in Timers : pc'[u] \notin Deleting,
         ~flag', OS_pTimer' # NULL => counting' /\ get_left_time' # 0,
         OS_pTimer' = NULL => ~counting',
         OnTime(timer', R, OS_pTimer', get_left_time', Asleep', rest')
  PROVE  TimeIs(R)'
<1>1. \A u \in Timers :
        /\ pc'[u] \notin Unlinking /\ pc'[u] \notin {"reset", "none"} /\ pc'[u] # "start"
        /\ pc'[u] \notin {"hand", "start"} /\ pc'[u] \notin {"test", "left", "hand"}
  BY DEF Deleting, Unlinking
<1>2. Left' = get_left_time'
  BY DEF Left
<1> QED
  BY <1>1, <1>2 DEF TimeIs

\* And what there is to use.
LEMMA TimeThen ==
  ASSUME NEW R, TimeIs(R), \A u \in Timers : pc[u] \notin Deleting
  PROVE  /\ OnTime(timer, R, OS_pTimer, Left, Asleep, rest)
         /\ OS_pTimer # NULL /\ ~flag => counting /\ get_left_time # 0
         /\ OS_pTimer = NULL => ~counting /\ ~flag
<1>1. \A u \in Timers : pc[u] \notin Unlinking /\ pc[u] # "start" /\ pc[u] \notin {"reset", "none"}
  BY DEF Deleting, Unlinking
<1> QED
  BY <1>1 DEF TimeIs

\* Adding a timer keeps the time.
LEMMA AddTime ==
  ASSUME NEW R, RingIs(R), TimeIs(R), "del" \in Careful, "match" \in Careful,
         NEW t \in Timers, NEW ms \in Delays, NEW why \in {"sleep", "wait"}, Add(t, ms, why)
  PROVE  TimeIs(R \cup {t})'
<1>1. /\ Sound(timer, R) /\ timer \in Records /\ TypeOK
      /\ \A u \in Timers : pc[u] \notin Deleting /\ pc[u] \notin Unlinking
      /\ pc[t] = "run" /\ timer[t].Next = NULL /\ ~flag
  <2>1. pc[t] = "run" /\ pc[t] \notin Unlinking /\ pc[t] \notin Linked_ /\ pc[t] \notin Deleting
    BY DEF Add, Unlinking, Linked_, Deleting
  <2>2. /\ Sound(timer, R) /\ timer \in Records /\ TypeOK
        /\ \A u \in Timers \ {t} : pc[u] \notin Deleting
    BY <2>1, Calm DEF Add, RingIs
  <2>3. timer[t] = Unused
    BY <2>1, <2>2 DEF Sound
  <2>4. ~flag
    BY DEF Add, NoLateMatch
  <2> QED
    BY <2>1, <2>2, <2>3, <2>4 DEF Unused, Deleting, Unlinking
<1>2. ms \in 1..(W-1) /\ ms \in 0..(W-1) /\ W \in Nat \ {0} /\ ms # 0
  BY TickerAssumption DEF Delays
<1>3. /\ pc' = [pc EXCEPT ![t] = why] /\ rest' = [rest EXCEPT ![t] = ms] /\ OS_timer_add(t, ms)
  BY DEF Add
<1>4. /\ pc'[t] = why /\ \A u \in Timers \ {t} : pc'[u] = pc[u] /\ rest'[u] = rest[u]
      /\ rest'[t] = ms
  BY <1>1, <1>3 DEF TypeOK
<1>5. \A u \in Timers : pc'[u] \notin Deleting
  BY <1>1, <1>4 DEF Deleting
<1>6. /\ Asleep' \subseteq Asleep \cup {t} /\ Asleep \subseteq R
      /\ \A u \in Asleep' \ {t} : rest'[u] = rest[u]
  BY <1>1, <1>4 DEF Asleep, Sound
<1>7. /\ get_left_time \in 0..(W-1) /\ OnTime(timer, R, OS_pTimer, get_left_time, Asleep, rest)
  BY <1>1, LeftIs, TimeThen DEF Left
<1>8. CASE OS_pTimer = NULL
  <2>1. /\ timer' = [timer EXCEPT ![t] = [Next |-> t, Prev |-> t, Time |-> ms]]
        /\ OS_pTimer' = t /\ set_time(ms) /\ R = {}
    BY <1>1, <1>3, <1>8 DEF OS_timer_add, Sound
  <2>2. get_left_time' = ms /\ counting' = TRUE /\ ~flag' /\ OS_pTimer' # NULL
    BY <1>1, <1>2, <2>1, LeftSet, TickerAssumption
  <2>3. timer'[t] = [Next |-> t, Prev |-> t, Time |-> ms]
    BY <1>1, <2>1 DEF Records
  <2>4. timer'[t].Next = t /\ Gap(timer', t, t) = 0
    BY <1>2, <2>3 DEF Gap
  <2>5. R \cup {t} = {t} /\ Asleep' \subseteq {t}
    BY <1>6, <2>1
  <2>6. OnTime(timer', R \cup {t}, t, ms, Asleep', rest')
    <3>1. 0 + ms <= W /\ 0 + ms = ms
      BY <1>2
    <3> QED
      BY <1>4, <2>4, <2>5, <3>1 DEF OnTime
  <2> QED
    BY <1>2, <1>5, <2>1, <2>2, <2>6, TimeOf
<1>9. CASE OS_pTimer # NULL
  <2> DEFINE x == Moment(ms)
             q == Position(x)
             L == get_left_time
             d == IF L <= ms THEN ms - L ELSE ms - L + W
  <2>1. OS_pTimer \in R /\ OS_pTimer \in Timers /\ Knit(timer) /\ Round(timer, R)
    BY <1>1, <1>9 DEF Sound, Round
  <2>2. x \in 0..(W-1) /\ (x - timer[OS_pTimer].Time) % W = d
    BY <1>1, <1>2, <1>7, <2>1, MomentIs
  <2>3. d \in 0..(W-1) /\ (d + L = ms \/ d + L = ms + W) /\ (L <= ms => d + L = ms) /\ (~(L <= ms) => d + L = ms + W)
    <3>1. L \in 0..(W-1)
      BY <1>7
    <3> HIDE DEF L
    <3> QED
      BY <1>2, <3>1
  <2>4. timer' = Inserted(timer, t, q, x)
    BY <1>3, <1>9 DEF OS_timer_add, Inserted
  <2>5. IF L <= ms THEN UNCHANGED <<OS_pTimer, hardware>> ELSE OS_pTimer' = t /\ set_time(ms)
    BY <1>3, <1>9 DEF OS_timer_add
  <2> HIDE DEF x, d
  <2>6. q \in R
    BY <1>1, <2>1, PositionIs
  <2>7. /\ d + L = ms => /\ Gap(timer, OS_pTimer, q) <= d
                         /\ timer[q].Next # OS_pTimer => d <= Gap(timer, OS_pTimer, timer[q].Next)
        /\ d + L = ms + W => timer[q].Next = OS_pTimer
    BY <1>1, <1>2, <1>7, <2>1, <2>2, <2>3, PositionTime
  <2> HIDE DEF q, L
  <2>8. /\ d + L = ms => OnTime(timer', R \cup {t}, OS_pTimer, L, Asleep', rest')
        /\ d + L = ms + W => OnTime(timer', R \cup {t}, t, ms, Asleep', rest')
    <3>1. L \in 0..(W-1) /\ OnTime(timer, R, OS_pTimer, L, Asleep, rest)
      BY <1>7 DEF L
    <3> DEFINE B == Asleep'
               s == rest'
               p == OS_pTimer
    <3>2. Kept(B \ {t}, s, Asleep, rest) /\ Asleep \subseteq R /\ s[t] = ms
      BY <1>4, <1>6 DEF Kept
    <3>3. /\ timer \in Records /\ Knit(timer) /\ Round(timer, R) /\ p \in R
          /\ OnTime(timer, R, p, L, Asleep, rest) /\ timer[t].Next = NULL
          /\ (x - timer[p].Time) % W = d
      BY <1>1, <2>1, <2>2, <3>1
    <3>4. /\ d + L = ms => /\ Gap(timer, p, q) <= d
                           /\ timer[q].Next # p => d <= Gap(timer, p, timer[q].Next)
          /\ d + L = ms + W => timer[q].Next = p
      BY <2>7
    <3>5. x \in 0..(W-1) /\ d \in 0..(W-1)
      BY <2>2, <2>3
    <3> HIDE DEF B, s, p
    <3>6. /\ d + L = ms /\ Gap(timer, p, q) <= d /\ (timer[q].Next # p => d <= Gap(timer, p, timer[q].Next)) =>
               OnTime(Inserted(timer, t, q, x), R \cup {t}, p, L, B, s)
          /\ d + L = ms + W /\ timer[q].Next = p =>
               OnTime(Inserted(timer, t, q, x), R \cup {t}, t, ms, B, s)
      BY <1>2, <2>6, <3>1, <3>2, <3>3, <3>5, InsertTime
    <3> QED
      BY <2>4, <3>4, <3>6 DEF B, s, p
  <2>9. CASE L <= ms
    <3>1. /\ OS_pTimer' = OS_pTimer /\ ~flag' /\ get_left_time' = L /\ counting' = counting
      BY <1>1, <2>5, <2>9 DEF hardware, get_left_time, L
    <3>2. counting /\ L # 0
      BY <1>1, <1>9, TimeThen DEF L
    <3> QED
      BY <1>5, <1>9, <2>3, <2>8, <2>9, <3>1, <3>2, TimeOf
  <2>10. CASE ~(L <= ms)
    <3>1. OS_pTimer' = t /\ get_left_time' = ms /\ counting' = TRUE /\ ~flag' /\ t # NULL
      BY <1>1, <1>2, <2>5, <2>10, LeftSet, TickerAssumption
    <3> QED
      BY <1>2, <1>5, <2>3, <2>8, <2>10, <3>1, TimeOf
  <2> QED
    BY <2>9, <2>10
<1> QED
  BY <1>8, <1>9

\* What a delete sets the counter to when it hands over: all that lies ahead of the next timer.
LEMMA HandedOver ==
  ASSUME TypeOK, NEW t \in Timers, timer[t].Next \in Timers, ToNext(t) # 0,
         Gap(timer, t, timer[t].Next) + get_left_time <= W,
         set_time(timer[timer[t].Next].Time - timer[t].Time + get_left_time)
  PROVE  /\ Gap(timer, t, timer[t].Next) + get_left_time \in 0..(W-1)
         /\ get_left_time' = Gap(timer, t, timer[t].Next) + get_left_time
         /\ counting' /\ flag' = flag
<1> DEFINE n == timer[t].Next
           a == timer[n].Time - timer[t].Time
           b == T0MR0 - T0TC
           g == Gap(timer, t, n)
           L == get_left_time
<1>1. timer \in Records
  BY DEF TypeOK, Records
<1>2. /\ W \in Nat \ {0} /\ a \in Int /\ g \in 0..(W-1) /\ (g = a \/ g = a + W)
  <2>1. /\ timer[n].Time \in 0..(W-1) /\ timer[t].Time \in 0..(W-1) /\ W \in Nat \ {0}
        /\ g \in 0..(W-1)
        /\ g = IF timer[n].Time < timer[t].Time THEN timer[n].Time - timer[t].Time + W
               ELSE timer[n].Time - timer[t].Time
    BY <1>1, GapIs
  <2> HIDE DEF g
  <2> QED
    BY <2>1
<1>3. b \in Int /\ L \in 0..(W-1) /\ (L = b \/ L = b + W)
  <2>1. T0MR0 \in Int /\ T0TC \in Int
    BY TickerAssumption DEF TypeOK
  <2> HIDE DEF L
  <2>2. L \in 0..(W-1) /\ L = IF T0MR0 < T0TC THEN T0MR0 - T0TC + W ELSE T0MR0 - T0TC
    BY LeftIs DEF L
  <2> QED
    BY <2>1, <2>2
<1>4. g + L <= W
  OBVIOUS
<1>5. (a + b) % W # 0
  <2>1. (timer[n].Time - timer[t].Time + T0MR0 - T0TC) % W # 0
    BY DEF ToNext
  <2>2. timer[n].Time \in Int /\ timer[t].Time \in Int /\ T0MR0 \in Int /\ T0TC \in Int
    BY TickerAssumption DEF TypeOK
  <2>3. timer[n].Time - timer[t].Time + T0MR0 - T0TC = a + b
    BY <2>2
  <2> QED
    BY <2>1, <2>3
<1> HIDE DEF a, b, g, L
<1>6. g + L # W
  <2> SUFFICES ASSUME g + L = W PROVE FALSE
    OBVIOUS
  <2> DEFINE c == a + b
  <2>1. c \in Int /\ 0 - W <= c /\ c < 2 * W /\ (c = W \/ c = 0 \/ c = 0 - W)
    BY <1>2, <1>3
  <2> HIDE DEF c
  <2>2. c % W = IF c < 0 THEN c + W ELSE IF c < W THEN c ELSE c - W
    BY <2>1, ModOnce
  <2>3. c % W = 0
    BY <1>2, <2>1, <2>2
  <2> QED
    BY <1>5, <2>3 DEF c
<1>7. (a + L) % W = g + L /\ g + L \in 0..(W-1)
  <2> DEFINE c == a + L
  <2>1. c \in Int /\ 0 - W <= c /\ c < 2 * W /\ (c = g + L \/ c = g + L - W) /\ g + L \in 0..(W-1)
    BY <1>2, <1>3, <1>4, <1>6
  <2>2. c % W = IF c < 0 THEN c + W ELSE IF c < W THEN c ELSE c - W
    <3> HIDE DEF c
    <3> QED
      BY <2>1, ModOnce
  <2> DEFINE v == c % W
  <2>3. v = IF c < 0 THEN c + W ELSE IF c < W THEN c ELSE c - W
    BY <2>2
  <2> HIDE DEF v, c
  <2>4. v = g + L
    BY <1>2, <1>3, <2>1, <2>3
  <2> QED
    BY <2>1, <2>4 DEF v, c
<1>8. set_time(a + L)
  BY DEF a, L
<1>9. T0MR0' = g + L /\ T0TC' = 0 /\ counting' /\ flag' = flag
  BY <1>7, <1>8 DEF set_time
<1>10. get_left_time' = g + L
  <2> DEFINE c == g + L
  <2>1. c \in Int /\ 0 - W <= c /\ c < 2 * W /\ c - 0 = c /\ ~(c < 0) /\ c < W
    BY <1>2, <1>7
  <2>2. T0MR0' = c /\ T0TC' = 0
    BY <1>9
  <2> HIDE DEF c
  <2>3. get_left_time' = (c - 0) % W
    BY <2>2 DEF get_left_time
  <2>4. c % W = c
    BY <2>1, ModOnce
  <2>5. get_left_time' = c
    BY <2>1, <2>3, <2>4
  <2> QED
    BY <2>5 DEF c
<1> QED
  BY <1>7, <1>8, <1>9, <1>10 DEF g, L

\* A delete keeps the time, the ring being looked at without the timer.  The counter counts
\* for p.
LEMMA DelTime ==
  ASSUME NEW R, Sound(timer, R), TypeOK, NEW t \in Timers, pc[t] \in Linked_, ~flag,
         Kept(Asleep', rest', Asleep \ {t}, rest),
         NEW p, p \in R \/ (p = NULL /\ R = {}),
         OnTime(timer, R, p, get_left_time, Asleep, rest),
         \/ /\ p # t /\ OS_pTimer' = p /\ UNCHANGED hardware
            /\ (p # NULL => counting /\ get_left_time # 0) /\ (p = NULL => ~counting)
         \/ p = t /\ OS_pTimer = t /\ timer[t].Next = t /\ OS_pTimer' = NULL /\ ~counting' /\ ~flag'
         \/ /\ p = t /\ timer[t].Next # t /\ OS_pTimer' = timer[t].Next /\ ToNext(t) # 0
            /\ get_left_time # 0 /\ set_time(timer[timer[t].Next].Time - timer[t].Time + get_left_time)
  PROVE  /\ ~flag' /\ (OS_pTimer' # NULL => counting' /\ get_left_time' # 0)
         /\ OS_pTimer' = NULL => ~counting'
         /\ OnTime(Cut(timer, t), R \ {t}, OS_pTimer', get_left_time', Asleep', rest')
<1>1. timer \in Records
  BY DEF TypeOK, Records
<1>2. /\ timer[t].Next \in Timers /\ Knit(timer) /\ Round(timer, R) /\ Asleep \subseteq R
      /\ R \subseteq Timers
  BY DEF Sound, Round
<1>3. get_left_time \in 0..(W-1) /\ get_left_time \in Nat /\ W \in Nat \ {0}
  <2>1. get_left_time \in 0..(W-1) /\ W \in Nat \ {0}
    BY LeftIs
  <2> QED
    BY <2>1
<1>4. \A r, L : OnTime(Cut(timer, t), {}, r, L, {}, rest')
  BY DEF OnTime
<1>5. CASE /\ p # t /\ OS_pTimer' = p /\ UNCHANGED hardware
           /\ (p # NULL => counting /\ get_left_time # 0) /\ (p = NULL => ~counting)
  <2>1. get_left_time' = get_left_time /\ counting' = counting /\ OS_pTimer' = p /\ ~flag'
    BY <1>5 DEF hardware, get_left_time
  <2>2. CASE p = NULL
    <3>1. R = {}
      BY <1>2, <2>2, TickerAssumption
    <3>2. R \ {t} = {} /\ Asleep' = {}
      BY <1>2, <3>1 DEF Kept
    <3> QED
      BY <1>4, <1>5, <2>1, <2>2, <3>2
  <2>3. CASE p # NULL
    <3> DEFINE B == Asleep'
               s == rest'
    <3>1. Kept(B, s, Asleep \ {t}, rest) /\ p \in R
      BY <2>3
    <3> HIDE DEF B, s
    <3>2. OnTime(Cut(timer, t), R \ {t}, p, get_left_time, B, s)
      BY <1>1, <1>2, <1>3, <1>5, <3>1, CutTime
    <3> QED
      BY <1>5, <2>1, <2>3, <3>2 DEF B, s
  <2> QED
    BY <2>2, <2>3
<1>6. CASE p = t /\ OS_pTimer = t /\ timer[t].Next = t /\ OS_pTimer' = NULL /\ ~counting' /\ ~flag'
  <2>1. R \ {t} = {}
    BY <1>1, <1>6, CutSound
  <2>2. Asleep' = {}
    BY <1>2, <2>1 DEF Kept
  <2> QED
    BY <1>4, <1>6, <2>1, <2>2
<1>7. CASE /\ p = t /\ timer[t].Next # t /\ OS_pTimer' = timer[t].Next /\ ToNext(t) # 0
           /\ get_left_time # 0 /\ set_time(timer[timer[t].Next].Time - timer[t].Time + get_left_time)
  <2> DEFINE n == timer[t].Next
             B == Asleep'
             s == rest'
             L == get_left_time
  <2>1. t \in R /\ n \in R /\ n # NULL /\ t # NULL
    BY <1>2, <1>7, TickerAssumption DEF Round
  <2>2. Gap(timer, t, n) + L <= W /\ Gap(timer, t, n) \in 0..(W-1)
    BY <1>1, <1>2, <1>3, <1>7, <2>1, GapIs DEF OnTime
  <2>3. get_left_time' = Gap(timer, t, n) + L /\ counting' /\ flag' = flag
    BY <1>1, <1>2, <1>7, <2>2, HandedOver
  <2>4. Kept(B, s, Asleep \ {t}, rest) /\ L \in Nat /\ OnTime(timer, R, t, L, Asleep, rest)
    BY <1>3, <1>7
  <2>5. L # 0 /\ L \in Nat /\ OS_pTimer' = n
    BY <1>3, <1>7
  <2> HIDE DEF B, s, L
  <2>6. OnTime(Cut(timer, t), R \ {t}, n, Gap(timer, t, n) + L, B, s)
    BY <1>1, <1>2, <1>7, <2>1, <2>4, CutTime
  <2>7. Gap(timer, t, n) + L # 0
    BY <1>3, <2>2, <2>5
  <2> QED
    BY <2>1, <2>3, <2>5, <2>6, <2>7 DEF B, s
<1> QED
  BY <1>5, <1>6, <1>7

\* The end of a timed wait keeps the time.
LEMMA WaitEndsTime ==
  ASSUME NEW R, RingIs(R), TimeIs(R), "del" \in Careful, "match" \in Careful,
         NEW t \in Timers, WaitEnds(t)
  PROVE  TimeIs(R \ {t})'
<1>1. /\ Sound(timer, R) /\ timer \in Records /\ TypeOK /\ Undisturbed({t}) /\ NoZero(t) /\ ~flag
      /\ \A u \in Timers \ {t} : pc[u] \notin Deleting
      /\ pc[t] \in Linked_
  <2>1. pc[t] \notin Unlinking /\ pc[t] \in Linked_
    BY DEF WaitEnds, Unlinking, Linked_
  <2>2. Undisturbed({t}) /\ NoZero(t) /\ ~flag
    BY DEF WaitEnds, NoLateMatch
  <2> QED
    BY <2>1, <2>2, Calm DEF RingIs
<1>2. /\ pc' = [pc EXCEPT ![t] = "run"] /\ rest' = [rest EXCEPT ![t] = 0] /\ OS_timer_del(t)
  BY DEF WaitEnds
<1>3. /\ pc'[t] = "run" /\ \A u \in Timers \ {t} : pc'[u] = pc[u] /\ rest'[u] = rest[u]
  BY <1>1, <1>2 DEF TypeOK
<1>4. \A u \in Timers : pc'[u] \notin Deleting
  BY <1>1, <1>3 DEF Deleting
<1>5. Kept(Asleep', rest', Asleep \ {t}, rest)
  BY <1>3 DEF Asleep, Kept
<1>6. timer[t].Next \in Timers /\ timer[t].Prev \in Timers
  BY <1>1, CutSound
<1>7. /\ timer' = Cut(timer, t)
      /\ \/ OS_pTimer # t /\ UNCHANGED <<OS_pTimer, hardware>>
         \/ OS_pTimer = t /\ timer[t].Next = t /\ OS_pTimer' = NULL /\ stop_counter
         \/ OS_pTimer = t /\ timer[t].Next # t /\ HandOver(t)
  <2>1. ~(NULL \in {timer[t].Prev, timer[t].Next})
    BY <1>6, TickerAssumption
  <2> QED
    BY <1>2, <2>1 DEF OS_timer_del, Unlinked, Cut
<1>8. /\ ~flag' /\ (OS_pTimer' # NULL => counting' /\ get_left_time' # 0)
      /\ OS_pTimer' = NULL => ~counting'
      /\ OnTime(Cut(timer, t), R \ {t}, OS_pTimer', get_left_time', Asleep', rest')
  <2>1. \A u \in Timers : pc[u] \notin Deleting
    BY <1>1 DEF WaitEnds, Deleting
  <2>2. /\ OnTime(timer, R, OS_pTimer, get_left_time, Asleep, rest)
        /\ OS_pTimer # NULL => counting /\ get_left_time # 0
        /\ OS_pTimer = NULL => ~counting
    BY <1>1, <2>1, TimeThen DEF Left
  <2>3. OS_pTimer \in R \/ (OS_pTimer = NULL /\ R = {})
    BY <1>1 DEF Sound
  <2>4. OS_pTimer = t /\ timer[t].Next # t => ToNext(t) # 0
    BY <1>1, <1>6, TickerAssumption DEF NoZero
  <2>5. OS_pTimer = t => get_left_time # 0
    BY <2>2, TickerAssumption
  <2>6. stop_counter => ~counting' /\ ~flag'
    BY <1>1 DEF stop_counter
  <2>7. HandOver(t) => /\ OS_pTimer' = timer[t].Next
                       /\ set_time(timer[timer[t].Next].Time - timer[t].Time + get_left_time)
    BY DEF HandOver
  <2> QED
    BY <1>1, <1>5, <1>7, <2>2, <2>3, <2>4, <2>5, <2>6, <2>7, DelTime
<1>9. OnTime(timer', R \ {t}, OS_pTimer', get_left_time', Asleep', rest')
  BY <1>7, <1>8
<1> QED
  BY <1>4, <1>8, <1>9, TimeOf

\* What a delete under way finds before it unlinks: the counter counts for p.
LEMMA TimeInDel ==
  ASSUME NEW R, RingIs(R), TimeIs(R), "del" \in Careful, NEW t \in Timers, DelStep(t)
  PROVE  LET p == IF pc[t] = "start" THEN t ELSE OS_pTimer
         IN  /\ ~flag /\ OnTime(timer, R, p, get_left_time, Asleep, rest)
             /\ p \in R \/ (p = NULL /\ R = {})
             /\ pc[t] \notin {"reset", "none"} =>
                  (p # NULL => counting /\ get_left_time # 0) /\ (p = NULL => ~counting)
             /\ \A u \in Timers \ {t} : pc[u] \notin Deleting
<1>1. /\ TypeOK /\ Sound(timer, R) /\ Undisturbed({t}) /\ Where(t, OS_pTimer)
      /\ timer[t].Next \in Timers /\ pc[t] \in Deleting /\ pc[t] \in Linked_
  BY DelStepType
<1>2. /\ pc[t] \notin Unlinking /\ \A u \in Timers \ {t} : pc[u] \notin Deleting
  BY <1>1 DEF RingIs, Linked_, Unlinking
<1>3. ~flag /\ Left = get_left_time
  BY <1>1 DEF TimeIs, Left
<1>4. \A u \in Timers \ {t} : pc[u] \notin Unlinking /\ pc[u] # "start" /\ pc[u] \notin {"reset", "none"}
  BY <1>2 DEF Deleting, Unlinking
<1>5. (OS_pTimer # NULL /\ pc[t] \notin {"reset", "none"} => counting /\ get_left_time # 0)
      /\ (OS_pTimer = NULL => ~counting)
  BY <1>3, <1>4 DEF TimeIs
<1>6. CASE pc[t] = "start"
  <2>1. OnTime(timer, R, t, get_left_time, Asleep, rest)
    BY <1>3, <1>6 DEF TimeIs
  <2>2. OS_pTimer = timer[t].Next /\ OS_pTimer # NULL
    BY <1>1, <1>6, TickerAssumption DEF Where
  <2>3. t \in R
    BY <1>1, <2>2, TickerAssumption DEF Sound, Knit, Round
  <2> QED
    BY <1>2, <1>3, <1>5, <1>6, <2>1, <2>2, <2>3, TickerAssumption
<1>7. CASE pc[t] # "start"
  <2>1. OnTime(timer, R, OS_pTimer, get_left_time, Asleep, rest)
    BY <1>2, <1>3, <1>4, <1>7 DEF TimeIs
  <2>2. OS_pTimer \in R \/ (OS_pTimer = NULL /\ R = {})
    BY <1>1 DEF Sound
  <2> QED
    BY <1>2, <1>3, <1>5, <1>7, <2>1, <2>2
<1> QED
  BY <1>6, <1>7

\* What there is to show of a step that comes to pc "to" and does not unlink.
LEMMA TimeInStep ==
  ASSUME NEW R, TypeOK, NEW t \in Timers, \A u \in Timers \ {t} : pc[u] \notin Deleting,
         NEW to \in {"test", "stop", "reset", "none", "left", "hand", "start"},
         pc' = [pc EXCEPT ![t] = to], ~flag', UNCHANGED timer,
         to \notin {"reset", "none"} /\ OS_pTimer' # NULL => counting' /\ get_left_time' # 0,
         to \in {"reset", "none"} \/ OS_pTimer' = NULL => ~counting',
         OnTime(timer, R, IF to = "start" THEN t ELSE OS_pTimer', get_left_time', Asleep', rest'),
         to = "start" => ToNext(t)' # 0,
         to \in {"hand", "start"} => LeftTime'[t] = get_left_time',
         to \in {"test", "left", "hand"} => NoZero(t)'
  PROVE  TimeIs(R)'
<1>1. pc'[t] = to /\ \A u \in Timers \ {t} : pc'[u] = pc[u]
  BY DEF TypeOK
<1>2. \A u \in Timers \ {t} :
        /\ pc'[u] \notin Unlinking /\ pc'[u] \notin {"reset", "none"} /\ pc'[u] # "start"
        /\ pc'[u] \notin {"hand", "start"} /\ pc'[u] \notin {"test", "left", "hand"}
  BY <1>1 DEF Deleting, Unlinking
<1>3. pc'[t] \notin Unlinking
  BY <1>1 DEF Unlinking
<1>4. Left' = get_left_time'
  BY DEF Left
<1>5. (\A u \in Timers : pc'[u] \notin Unlinking /\ pc'[u] # "start") =>
        OnTime(timer', R, OS_pTimer', Left', Asleep', rest')
  BY <1>1, <1>4
<1>6. ASSUME NEW u \in Timers
      PROVE  /\ pc'[u] \in {"reset", "none"} => ~counting'
             /\ pc'[u] = "start" => OnTime(timer', R, u, Left', Asleep', rest') /\ ToNext(u)' # 0
             /\ pc'[u] \notin Unlinking
             /\ pc'[u] \in {"hand", "start"} => LeftTime'[u] = get_left_time'
             /\ pc'[u] \in {"test", "left", "hand"} => NoZero(u)'
  <2>1. CASE u # t
    BY <1>2, <2>1
  <2>2. CASE u = t
    BY <1>1, <1>3, <1>4, <2>2
  <2> QED
    BY <2>1, <2>2
<1> QED
  BY <1>1, <1>5, <1>6 DEF TimeIs

\* The delete begins with a look.
LEMMA EntryTime ==
  ASSUME NEW R, RingIs(R), TimeIs(R), "del" \in Careful, "match" \in Careful, NEW t \in Timers,
         DelEntry(t)
  PROVE  TimeIs(R)'
<1>1. /\ pc[t] = "slept" /\ Undisturbed({t}) /\ ~flag /\ NoZero(t)
      /\ UNCHANGED <<timer, OS_pTimer, hardware, rest>>
  BY DEF DelEntry, NoLateMatch
<1>2. pc' = [pc EXCEPT ![t] = "test"]
  BY EntryGoesOn
<1>3. TypeOK /\ \A u \in Timers : pc[u] \notin Deleting
  <2>1. pc[t] \notin Unlinking /\ pc[t] \notin Deleting
    BY <1>1 DEF Unlinking, Deleting
  <2> QED
    BY <1>1, <2>1, Calm DEF RingIs
<1>4. /\ OnTime(timer, R, OS_pTimer, get_left_time, Asleep, rest)
      /\ OS_pTimer # NULL => counting /\ get_left_time # 0
      /\ OS_pTimer = NULL => ~counting
  BY <1>1, <1>3, TimeThen DEF Left
<1>5. /\ get_left_time' = get_left_time /\ ~flag' /\ counting' = counting /\ Asleep' = Asleep
      /\ NoZero(t)'
  BY <1>1, <1>2, <1>3 DEF hardware, get_left_time, Asleep, TypeOK, NoZero, ToNext
<1>6. OnTime(timer, R, OS_pTimer', get_left_time', Asleep', rest')
  BY <1>1, <1>4, <1>5
<1> QED
  BY <1>1, <1>2, <1>3, <1>4, <1>5, <1>6, TimeInStep

\* The steps that look, and the one that makes the next timer OS_pTimer, keep the time.
LEMMA LookTime ==
  ASSUME NEW R, RingIs(R), TimeIs(R), "del" \in Careful, NEW t \in Timers, DelStep(t),
         pc[t] \in {"test", "left", "hand"}, NEW to \in {"stop", "left", "hand", "start"},
         pc' = [pc EXCEPT ![t] = to], UNCHANGED hardware,
         to # "start" => OS_pTimer' = OS_pTimer,
         to = "start" => OS_pTimer = t /\ OS_pTimer' = timer[t].Next /\ timer[t].Next # t,
         to \in {"hand", "start"} => LeftTime'[t] = get_left_time
  PROVE  TimeIs(R)'
<1>1. /\ TypeOK /\ UNCHANGED <<timer, rest>> /\ timer[t].Next \in Timers
  BY DelStepType
<1>2. /\ ~flag /\ OnTime(timer, R, OS_pTimer, get_left_time, Asleep, rest)
      /\ (OS_pTimer # NULL => counting /\ get_left_time # 0) /\ (OS_pTimer = NULL => ~counting)
      /\ \A u \in Timers \ {t} : pc[u] \notin Deleting
  BY TimeInDel
<1>3. NoZero(t)
  BY DEF TimeIs
<1>4. Asleep' = Asleep
  BY <1>1 DEF Asleep, TypeOK
<1>5. /\ get_left_time' = get_left_time /\ ~flag' /\ counting' = counting /\ ToNext(t)' = ToNext(t)
  BY <1>1, <1>2 DEF hardware, get_left_time, ToNext
<1>6. CASE to = "start"
  <2>1. ToNext(t) # 0 /\ OS_pTimer # NULL /\ OS_pTimer' # NULL
    BY <1>1, <1>3, <1>6, TickerAssumption DEF NoZero
  <2>2. OnTime(timer, R, t, get_left_time', Asleep', rest')
    BY <1>1, <1>2, <1>4, <1>5, <1>6
  <2> QED
    BY <1>1, <1>2, <1>5, <1>6, <2>1, <2>2, TimeInStep
<1>7. CASE to # "start"
  <2>1. OnTime(timer, R, OS_pTimer', get_left_time', Asleep', rest') /\ NoZero(t)'
    BY <1>1, <1>2, <1>3, <1>4, <1>5, <1>7 DEF NoZero
  <2> QED
    BY <1>1, <1>2, <1>5, <1>7, <2>1, TimeInStep
<1> QED
  BY <1>6, <1>7

\* Stopping the counter of the only timer: nobody is asleep.
LEMMA StopTime ==
  ASSUME NEW R, RingIs(R), TimeIs(R), "del" \in Careful, NEW t \in Timers, DelStep(t),
         pc[t] \in {"stop", "reset"}, NEW to \in {"reset", "none"},
         pc' = [pc EXCEPT ![t] = to], ~counting', UNCHANGED <<OS_pTimer, flag>>
  PROVE  TimeIs(R)'
<1>1. /\ TypeOK /\ Sound(timer, R) /\ Where(t, OS_pTimer) /\ UNCHANGED <<timer, rest>>
      /\ T0TC' \in 0..(W-1) /\ T0MR0' \in 0..(W-1)
  BY DelStepType
<1>2. /\ ~flag /\ \A u \in Timers \ {t} : pc[u] \notin Deleting
  BY TimeInDel
<1>3. OS_pTimer = t /\ timer[t].Next = t
  BY <1>1 DEF Where
<1>4. R = {t}
  <2>1. t \in R /\ Round(timer, R)
    BY <1>1, <1>3, TickerAssumption DEF Sound
  <2>2. {t} \in SUBSET R /\ {t} # {} /\ \A u \in {t} : timer[u].Next \in {t}
    BY <1>3, <2>1
  <2> QED
    BY <2>1, <2>2 DEF Round
<1>5. Asleep' = {}
  <2>1. Asleep' = Asleep /\ t \notin Asleep /\ Asleep \subseteq R
    BY <1>1 DEF Asleep, TypeOK, Sound
  <2> QED
    BY <1>4, <2>1
<1>6. OnTime(timer, R, OS_pTimer', get_left_time', Asleep', rest')
  <2>1. get_left_time' \in 0..(W-1) /\ W \in Nat
    <3>1. W \in Nat \ {0} /\ T0MR0' \in Int /\ T0TC' \in Int
      BY <1>1, TickerAssumption
    <3>2. T0MR0' - T0TC' \in Int
      BY <3>1
    <3> QED
      BY <3>1, <3>2, Wraps DEF get_left_time
  <2>2. Gap(timer, t, t) = 0
    <3>1. timer \in Records
      BY <1>1 DEF TypeOK, Records
    <3>2. Gap(timer, t, t) = timer[t].Time - timer[t].Time /\ timer[t].Time \in 0..(W-1)
      BY <3>1, GapIs
    <3> QED
      BY <3>2
  <2>3. 0 + get_left_time' <= W
    <3> DEFINE L == get_left_time'
    <3>1. L \in 0..(W-1) /\ W \in Nat
      BY <2>1
    <3> HIDE DEF L
    <3>2. 0 + L <= W
      BY <3>1
    <3> QED
      BY <3>2 DEF L
  <2>4. ASSUME NEW L, L = get_left_time', NEW r PROVE OnTime(timer, {t}, t, L, {}, r)
    <3>1. \A u \in {t} : timer[u].Next = t /\ Gap(timer, t, u) + L <= W
      BY <1>3, <2>2, <2>3, <2>4
    <3> QED
      BY <3>1 DEF OnTime
  <2> QED
    BY <1>1, <1>3, <1>4, <1>5, <2>4
<1> QED
  BY <1>1, <1>2, <1>6, TimeInStep

\* Letting go of a timer keeps the time.
LEMMA LetGoTime ==
  ASSUME NEW R, RingIs(R), TimeIs(R), "del" \in Careful, NEW t \in Timers, DelStep(t),
         pc[t] \in {"test", "none", "start"}, pc' = [pc EXCEPT ![t] = "unlink1"],
         Later(t)' = Cut(timer, t),
         \/ pc[t] = "test" /\ OS_pTimer # t /\ UNCHANGED <<OS_pTimer, hardware>>
         \/ pc[t] = "none" /\ OS_pTimer' = NULL /\ UNCHANGED hardware
         \/ /\ pc[t] = "start" /\ OS_pTimer' = OS_pTimer
            /\ set_time(timer[OS_pTimer].Time - timer[t].Time + LeftTime[t])
  PROVE  TimeIs(R \ {t})'
<1>1. /\ TypeOK /\ Sound(timer, R) /\ Where(t, OS_pTimer) /\ UNCHANGED <<timer, rest>>
      /\ timer[t].Next \in Timers /\ pc[t] \in Linked_
  BY DelStepType
<1> DEFINE p == IF pc[t] = "start" THEN t ELSE OS_pTimer
<1>2. /\ ~flag /\ OnTime(timer, R, p, get_left_time, Asleep, rest)
      /\ p \in R \/ (p = NULL /\ R = {})
      /\ pc[t] \notin {"reset", "none"} =>
           (p # NULL => counting /\ get_left_time # 0) /\ (p = NULL => ~counting)
      /\ \A u \in Timers \ {t} : pc[u] \notin Deleting
  BY TimeInDel
<1>3. /\ pc'[t] = "unlink1" /\ \A u \in Timers \ {t} : pc'[u] = pc[u]
  BY <1>1 DEF TypeOK
<1>4. Kept(Asleep', rest', Asleep \ {t}, rest)
  BY <1>1, <1>3 DEF Asleep, Kept
<1>5. \/ /\ p # t /\ OS_pTimer' = p /\ UNCHANGED hardware
         /\ (p # NULL => counting /\ get_left_time # 0) /\ (p = NULL => ~counting)
      \/ p = t /\ OS_pTimer = t /\ timer[t].Next = t /\ OS_pTimer' = NULL /\ ~counting' /\ ~flag'
      \/ /\ p = t /\ timer[t].Next # t /\ OS_pTimer' = timer[t].Next /\ ToNext(t) # 0
         /\ get_left_time # 0 /\ set_time(timer[timer[t].Next].Time - timer[t].Time + get_left_time)
  <2>1. CASE pc[t] = "test"
    BY <1>2, <2>1
  <2>2. CASE pc[t] = "none"
    <3>1. OS_pTimer = t /\ timer[t].Next = t /\ ~counting
      BY <1>1, <2>2 DEF Where, TimeIs
    <3> QED
      BY <1>2, <2>2, <3>1 DEF hardware
  <2>3. CASE pc[t] = "start"
    <3>1. OS_pTimer = timer[t].Next /\ timer[t].Next # t
      BY <1>1, <2>3 DEF Where
    <3>2. ToNext(t) # 0 /\ LeftTime[t] = get_left_time
      BY <2>3 DEF TimeIs
    <3>3. get_left_time # 0
      BY <1>2, <2>3, TickerAssumption
    <3> QED
      BY <2>3, <3>1, <3>2, <3>3
  <2> QED
    BY <2>1, <2>2, <2>3
<1> HIDE DEF p
<1>6. /\ ~flag' /\ (OS_pTimer' # NULL => counting' /\ get_left_time' # 0)
      /\ OS_pTimer' = NULL => ~counting'
      /\ OnTime(Cut(timer, t), R \ {t}, OS_pTimer', get_left_time', Asleep', rest')
  BY <1>1, <1>2, <1>4, <1>5, DelTime
<1>7. Left' = get_left_time'
  BY <1>6 DEF Left
<1>8. OnTime(Later(t)', R \ {t}, OS_pTimer', Left', Asleep', rest')
  BY <1>6, <1>7
<1>9. /\ pc'[t] \in Unlinking
      /\ \A u \in Timers : pc'[u] \in Unlinking => u = t
      /\ \A u \in Timers :
           /\ pc'[u] \notin {"reset", "none"} /\ pc'[u] # "start"
           /\ pc'[u] \notin {"hand", "start"} /\ pc'[u] \notin {"test", "left", "hand"}
  BY <1>2, <1>3 DEF Deleting, Unlinking
<1> QED
  BY <1>6, <1>8, <1>9 DEF TimeIs

\* And so does the unlinking.
LEMMA UnlinkTime ==
  ASSUME NEW R, RingIs(R), TimeIs(R), "del" \in Careful, NEW t \in Timers, DelUnlink(t)
  PROVE  TimeIs(R)'
<1>1. /\ pc[t] \in Unlinking /\ pc[t] \in Deleting /\ TypeOK
      /\ \A u \in Timers \ {t} : pc[u] \notin Deleting
      /\ UNCHANGED <<OS_pTimer, hardware, LeftTime, rest>>
  <2>1. /\ pc[t] \in Unlinking /\ pc[t] \in Deleting /\ Undisturbed({t})
        /\ UNCHANGED <<OS_pTimer, hardware, LeftTime, rest>>
    BY DEF DelUnlink, Unlinking, Deleting
  <2> QED
    BY <2>1 DEF RingIs, Undisturbed
<1>2. /\ ~flag /\ OnTime(Later(t), R, OS_pTimer, Left, Asleep, rest)
      /\ (OS_pTimer # NULL => counting /\ get_left_time # 0)
      /\ (OS_pTimer = NULL => ~counting)
  <2>1. \A u \in Timers : pc[u] \notin {"reset", "none"}
    BY <1>1 DEF Unlinking, Deleting
  <2> QED
    BY <1>1, <2>1 DEF TimeIs
<1>3. Left' = Left /\ get_left_time' = get_left_time /\ flag' = flag /\ counting' = counting
  BY <1>1 DEF hardware, get_left_time, Left
<1>4. IF pc[t] = "clear" THEN timer' = Later(t) ELSE Later(t)' = Later(t)
  BY UnlinkRing
<1>5. /\ pc'[t] = IF pc[t] = "unlink1" THEN "unlink2" ELSE IF pc[t] = "unlink2" THEN "clear" ELSE "run"
      /\ \A u \in Timers \ {t} : pc'[u] = pc[u]
  BY <1>1 DEF DelUnlink, TypeOK
<1>6. /\ \A u \in Timers : pc'[u] \in Unlinking => u = t
      /\ \A u \in Timers :
           /\ pc'[u] \notin {"reset", "none"} /\ pc'[u] # "start"
           /\ pc'[u] \notin {"hand", "start"} /\ pc'[u] \notin {"test", "left", "hand"}
      /\ Asleep' = Asleep
      /\ pc[t] # "clear" <=> pc'[t] \in Unlinking
  BY <1>1, <1>5 DEF Deleting, Unlinking, Asleep
<1>7. CASE pc[t] = "clear"
  <2>1. OnTime(timer', R, OS_pTimer', Left', Asleep', rest')
    BY <1>1, <1>2, <1>3, <1>4, <1>6, <1>7
  <2> QED
    BY <1>1, <1>2, <1>3, <1>6, <1>7, <2>1 DEF TimeIs
<1>8. CASE pc[t] # "clear"
  <2>1. OnTime(Later(t)', R, OS_pTimer', Left', Asleep', rest')
    BY <1>1, <1>2, <1>3, <1>4, <1>6, <1>8
  <2> QED
    BY <1>1, <1>2, <1>3, <1>6, <1>8, <2>1 DEF TimeIs
<1> QED
  BY <1>7, <1>8

\* Each step of the unlocked delete keeps the time.
LEMMA DelStepsTime ==
  ASSUME NEW R, RingIs(R), TimeIs(R), "del" \in Careful, NEW t \in Timers, DelStep(t)
  PROVE  /\ pc'[t] = "unlink1" => TimeIs(R \ {t})'
         /\ pc'[t] # "unlink1" => TimeIs(R)'
<1>1. TypeOK /\ Where(t, OS_pTimer) /\ timer[t].Next \in Timers
  BY DelStepType
<1>2. ASSUME NEW to, pc' = [pc EXCEPT ![t] = to] PROVE pc'[t] = to
  BY <1>1, <1>2 DEF TypeOK
<1>3. pc'[t] = "unlink1" => Later(t)' = Cut(timer, t)
  BY DelRing
<1>4. CASE DelTest(t)
  <2>1. pc[t] = "test" /\ UNCHANGED <<OS_pTimer, hardware>>
    BY <1>4 DEF DelTest
  <2>2. CASE OS_pTimer # t
    <3>1. pc' = [pc EXCEPT ![t] = "unlink1"]
      BY <1>4, <2>2 DEF DelTest
    <3>2. pc'[t] = "unlink1"
      BY <1>2, <3>1
    <3> QED
      BY <1>3, <2>1, <2>2, <3>1, <3>2, LetGoTime
  <2>3. CASE OS_pTimer = t
    <3>1. PICK to \in {"stop", "left"} : pc' = [pc EXCEPT ![t] = to]
      BY <1>4, <2>3 DEF DelTest
    <3>2. pc'[t] = to
      BY <1>2, <3>1
    <3> QED
      BY <2>1, <3>1, <3>2, LookTime
  <2> QED
    BY <2>2, <2>3
<1>5. CASE DelStop(t)
  <2>1. CASE pc[t] \in {"stop", "reset"}
    <3>1. PICK to \in {"reset", "none"} :
            pc' = [pc EXCEPT ![t] = to] /\ ~counting' /\ UNCHANGED <<OS_pTimer, flag>>
      BY <1>5, <2>1 DEF DelStop
    <3>2. pc'[t] = to
      BY <1>2, <3>1
    <3> QED
      BY <2>1, <3>1, <3>2, StopTime
  <2>2. CASE pc[t] = "none"
    <3>1. pc' = [pc EXCEPT ![t] = "unlink1"] /\ OS_pTimer' = NULL /\ UNCHANGED hardware
      BY <1>5, <2>2 DEF DelStop
    <3>2. pc'[t] = "unlink1"
      BY <1>2, <3>1
    <3> QED
      BY <1>3, <2>2, <3>1, <3>2, LetGoTime
  <2> QED
    BY <1>5, <2>1, <2>2 DEF DelStop
<1>6. CASE DelLeft(t)
  <2>1. /\ pc[t] = "left" /\ LeftTime' = [LeftTime EXCEPT ![t] = get_left_time]
        /\ pc' = [pc EXCEPT ![t] = "hand"] /\ UNCHANGED <<OS_pTimer, hardware>>
    BY <1>6 DEF DelLeft
  <2>2. pc'[t] = "hand" /\ LeftTime'[t] = get_left_time
    BY <1>1, <1>2, <2>1 DEF TypeOK
  <2> QED
    BY <2>1, <2>2, LookTime
<1>7. CASE DelHandOver(t)
  <2>1. /\ pc[t] = "hand" /\ OS_pTimer' = timer[t].Next /\ UNCHANGED <<hardware, LeftTime>>
        /\ pc' = [pc EXCEPT ![t] = "start"]
    BY <1>7 DEF DelHandOver
  <2>2. OS_pTimer = t /\ timer[t].Next # t /\ LeftTime[t] = get_left_time
    BY <1>1, <2>1 DEF Where, TimeIs
  <2>3. pc'[t] = "start"
    BY <1>2, <2>1
  <2> QED
    BY <2>1, <2>2, <2>3, LookTime
<1>8. CASE DelStart(t)
  <2>1. pc[t] = "start" /\ pc' = [pc EXCEPT ![t] = "unlink1"] /\ OS_pTimer' = OS_pTimer
    BY <1>8 DEF DelStart
  <2>2. OS_pTimer # NULL
    BY <1>1, <2>1, TickerAssumption DEF Where
  <2>3. set_time(timer[OS_pTimer].Time - timer[t].Time + LeftTime[t])
    BY <1>8, <2>2 DEF DelStart
  <2>4. pc'[t] = "unlink1"
    BY <1>2, <2>1
  <2> QED
    BY <1>3, <2>1, <2>3, <2>4, LetGoTime
<1> QED
  BY <1>4, <1>5, <1>6, <1>7, <1>8 DEF DelStep

\* The timers the interrupt makes ready.
Rung == {Step[k] : k \in 0..(Batch - 1)}

\* They are those of the moment of OS_pTimer; the next one, if there is one, comes later, and
\* none of the others comes before it.
LEMMA RungIs ==
  ASSUME timer \in Records, NEW R, Knit(timer), Round(timer, R), OS_pTimer \in R, NEW L, NEW A, NEW r,
         OnTime(timer, R, OS_pTimer, L, A, r)
  PROVE  /\ \A u \in Rung : u \in R /\ Gap(timer, OS_pTimer, u) = 0
         /\ timer[Step[Batch]].Time = timer[OS_pTimer].Time => Rung = R
         /\ timer[Step[Batch]].Time # timer[OS_pTimer].Time =>
              /\ Step[Batch] \in R /\ Gap(timer, OS_pTimer, Step[Batch]) # 0
              /\ timer[timer[Step[Batch]].Prev].Time = timer[OS_pTimer].Time
              /\ \A u \in R \ Rung : Gap(timer, OS_pTimer, Step[Batch]) <= Gap(timer, OS_pTimer, u)
              /\ \A u \in Rung : timer[u].Next # Step[Batch] => timer[u].Next \in Rung
<1> DEFINE m == Cardinality(R)
           n == Batch
           N == Cardinality(Timers)
           g(u) == Gap(timer, OS_pTimer, u)
<1>1. /\ m \in 1..N /\ N \in Nat /\ R = {Step[k] : k \in 0..(m - 1)} /\ Step[m] = OS_pTimer
      /\ Step \in [0..N -> R] /\ \A k \in 0..(N - 1) : Step[k + 1] = timer[Step[k]].Next
  BY Cycle, Steps
<1>2. /\ n \in 1..m /\ Step[n] \in R
      /\ \A j \in 0..(n - 1) : Step[j] \in R /\ timer[Step[j]].Time = timer[OS_pTimer].Time
      /\ timer[Step[n]].Time = timer[OS_pTimer].Time => n = m
  BY BatchIs
<1>3. \A i, j \in 0..(m - 1) : i <= j => g(Step[i]) <= g(Step[j])
  BY Rising
<1>4. \A u \in R : u \in Timers
  BY DEF Round
<1>5. \A u \in R : /\ g(u) \in 0..(W-1) /\ timer[u].Time \in 0..(W-1) /\ W \in Nat \ {0}
                   /\ g(u) = 0 <=> timer[u].Time = timer[OS_pTimer].Time
  <2> SUFFICES ASSUME NEW u \in R
               PROVE  /\ g(u) \in 0..(W-1) /\ timer[u].Time \in 0..(W-1) /\ W \in Nat \ {0}
                      /\ g(u) = 0 <=> timer[u].Time = timer[OS_pTimer].Time
    OBVIOUS
  <2>1. /\ timer[u].Time \in 0..(W-1) /\ timer[OS_pTimer].Time \in 0..(W-1) /\ W \in Nat \ {0}
        /\ g(u) \in 0..(W-1)
        /\ g(u) = IF timer[u].Time < timer[OS_pTimer].Time THEN timer[u].Time - timer[OS_pTimer].Time + W
                  ELSE timer[u].Time - timer[OS_pTimer].Time
    BY <1>4, GapIs
  <2> HIDE DEF g
  <2> QED
    BY <2>1
<1>6. Rung = {Step[k] : k \in 0..(n - 1)}
  BY DEF Rung
<1> HIDE DEF m, n, N, g
<1>7. \A u \in Rung : u \in R /\ g(u) = 0
  BY <1>2, <1>5, <1>6
<1>8. timer[Step[n]].Time = timer[OS_pTimer].Time => Rung = R
  BY <1>1, <1>2, <1>6
<1>9. ASSUME timer[Step[n]].Time # timer[OS_pTimer].Time
      PROVE  /\ Step[n] \in R /\ g(Step[n]) # 0
             /\ timer[timer[Step[n]].Prev].Time = timer[OS_pTimer].Time
             /\ \A u \in R \ Rung : g(Step[n]) <= g(u)
             /\ \A u \in Rung : timer[u].Next # Step[n] => timer[u].Next \in Rung
  <2>1. Step[n] \in R /\ g(Step[n]) # 0
    BY <1>2, <1>5, <1>9
  <2>2. n \in 1..(m - 1)
    BY <1>1, <1>2, <1>9
  <2>3. timer[timer[Step[n]].Prev].Time = timer[OS_pTimer].Time
    <3> DEFINE j == n - 1
    <3>1. j \in 0..(n - 1) /\ j \in 0..(N - 1) /\ j + 1 = n
      BY <1>1, <2>2
    <3> HIDE DEF j
    <3>2. Step[j] \in R /\ Step[n] = timer[Step[j]].Next
      BY <1>1, <1>2, <3>1
    <3>3. timer[Step[n]].Prev = Step[j]
      BY <1>4, <2>1, <3>2, TickerAssumption DEF Knit
    <3> QED
      BY <1>2, <3>1, <3>3
  <2>4. ASSUME NEW u \in R \ Rung PROVE g(Step[n]) <= g(u)
    <3>1. PICK k \in 0..(m - 1) : u = Step[k]
      BY <1>1
    <3>2. k \notin 0..(n - 1)
      BY <1>6, <3>1
    <3>3. n <= k /\ n \in 0..(m - 1)
      BY <1>1, <2>2, <3>2
    <3> QED
      BY <1>3, <3>1, <3>3
  <2>5. ASSUME NEW u \in Rung, timer[u].Next # Step[n] PROVE timer[u].Next \in Rung
    <3>1. PICK k \in 0..(n - 1) : u = Step[k]
      BY <1>6
    <3>2. k \in 0..(N - 1)
      BY <1>1, <2>2
    <3>3. timer[u].Next = Step[k + 1]
      BY <1>1, <3>1, <3>2
    <3>4. k + 1 # n
      BY <2>5, <3>3
    <3>5. k + 1 \in 0..(n - 1)
      BY <2>2, <3>4
    <3> QED
      BY <1>6, <3>3, <3>5
  <2> QED
    BY <2>1, <2>3, <2>4, <2>5
<1> QED
  BY <1>7, <1>8, <1>9 DEF n, g

\* What the interrupt does, in these terms.
LEMMA RungStep ==
  ASSUME NEW R, RingIs(R), TimeIs(R), "del" \in Careful, systimer_exception
  PROVE  /\ OS_pTimer \in R /\ flag /\ ~flag' /\ timer' = timer /\ rest' = rest
         /\ timer \in Records /\ Knit(timer) /\ Round(timer, R) /\ Asleep \subseteq R
         /\ OnTime(timer, R, OS_pTimer, 0, Asleep, rest)
         /\ \A u \in Timers : pc'[u] \notin Deleting
         /\ Asleep' = Asleep \ Rung
         /\ IF timer[Step[Batch]].Time # timer[OS_pTimer].Time
            THEN /\ OS_pTimer' = Step[Batch] /\ T0TC' = 0 /\ counting' = TRUE
                 /\ T0MR0' = (timer[Step[Batch]].Time - timer[timer[Step[Batch]].Prev].Time) % W
            ELSE OS_pTimer' = NULL /\ counting' = FALSE
<1>1. /\ Sound(timer, R) /\ timer \in Records
      /\ \A u \in Timers : pc[u] \notin Deleting
      /\ timer' = timer /\ rest' = rest /\ ~flag' /\ flag
  BY CalmAll DEF systimer_exception
<1>2. OS_pTimer # NULL /\ OS_pTimer \in R /\ Knit(timer) /\ Round(timer, R) /\ Asleep \subseteq R
  BY <1>1 DEF TimeIs, Sound
<1>3. OnTime(timer, R, OS_pTimer, 0, Asleep, rest)
  BY <1>1, TimeThen DEF Left
<1>4. /\ pc' = [t \in Timers |-> CASE t \in Rung /\ pc[t] = "sleep" -> "slept"
                                   [] t \in Rung /\ pc[t] = "wait"  -> "timeout"
                                   [] OTHER -> pc[t]]
      /\ IF timer[Step[Batch]].Time # timer[OS_pTimer].Time
         THEN /\ OS_pTimer' = Step[Batch] /\ T0TC' = 0 /\ counting' = TRUE
              /\ T0MR0' = (timer[Step[Batch]].Time - timer[timer[Step[Batch]].Prev].Time) % W
         ELSE OS_pTimer' = NULL /\ counting' = FALSE
  BY <1>2 DEF systimer_exception, Rung
<1>5. \A u \in Timers : pc'[u] \notin Deleting
  BY <1>1, <1>4 DEF Deleting
<1>6. \A u \in Timers : pc'[u] \in {"sleep", "wait"} <=> pc[u] \in {"sleep", "wait"} /\ u \notin Rung
  BY <1>4
<1>7. Asleep' = Asleep \ Rung
  BY <1>6 DEF Asleep
<1> QED
  BY <1>1, <1>2, <1>3, <1>4, <1>5, <1>7

\* The interrupt keeps the time: the counter is set for the next timer, and those that have
\* rung now lie at the far end of the ring.
LEMMA RungTime ==
  ASSUME NEW R, RingIs(R), TimeIs(R), "del" \in Careful, systimer_exception
  PROVE  /\ OS_pTimer' = NULL => TimeIs({})'
         /\ OS_pTimer' # NULL => TimeIs(R)'
<1> DEFINE p == OS_pTimer
           n == Step[Batch]
           g(u) == Gap(timer, p, u)
<1>1. /\ p \in R /\ ~flag' /\ timer' = timer /\ rest' = rest
      /\ timer \in Records /\ Knit(timer) /\ Round(timer, R) /\ Asleep \subseteq R
      /\ OnTime(timer, R, p, 0, Asleep, rest)
      /\ \A u \in Timers : pc'[u] \notin Deleting
      /\ Asleep' = Asleep \ Rung
      /\ IF timer[n].Time # timer[p].Time
         THEN /\ OS_pTimer' = n /\ T0TC' = 0 /\ counting' = TRUE
              /\ T0MR0' = (timer[n].Time - timer[timer[n].Prev].Time) % W
         ELSE OS_pTimer' = NULL /\ counting' = FALSE
  BY RungStep
<1>2. /\ \A u \in Rung : u \in R /\ g(u) = 0
      /\ timer[n].Time = timer[p].Time => Rung = R
      /\ timer[n].Time # timer[p].Time =>
           /\ n \in R /\ g(n) # 0
           /\ timer[timer[n].Prev].Time = timer[p].Time
           /\ \A u \in R \ Rung : g(n) <= g(u)
           /\ \A u \in Rung : timer[u].Next # n => timer[u].Next \in Rung
  BY <1>1, RungIs
<1>3. \A u \in R : u \in Timers /\ timer[u].Next \in R
  BY <1>1 DEF Round
<1> HIDE DEF n
<1>4. CASE timer[n].Time = timer[p].Time
  <2>1. OS_pTimer' = NULL /\ counting' = FALSE /\ Asleep' = {}
    BY <1>1, <1>2, <1>4
  <2>2. OnTime(timer', {}, OS_pTimer', get_left_time', Asleep', rest')
    BY <2>1 DEF OnTime
  <2>3. TimeIs({})'
    BY <1>1, <2>1, <2>2, TimeOf
  <2> QED
    BY <2>1, <2>3
<1>5. CASE timer[n].Time # timer[p].Time
  <2>1. OS_pTimer' = n /\ counting' = TRUE /\ n \in R /\ n # NULL /\ g(n) # 0
    BY <1>1, <1>2, <1>3, <1>5, TickerAssumption
  <2>2. /\ \A u \in R : g(u) \in 0..(W-1) /\ W \in Nat \ {0}
        /\ \A u \in R : timer[u].Next # p => g(u) <= g(timer[u].Next)
        /\ \A u \in Asleep : g(u) + 0 = rest[u]
        /\ g(p) = 0
    <3>1. \A u \in R : g(u) \in 0..(W-1) /\ W \in Nat \ {0}
      BY <1>1, <1>3, GapIs
    <3>2. g(p) = 0
      BY <1>1, <1>3, GapIs
    <3> QED
      BY <1>1, <3>1, <3>2 DEF OnTime
  <2>3. get_left_time' = g(n)
    <3>1. T0TC' = 0 /\ T0MR0' = g(n)
      BY <1>1, <1>2, <1>5 DEF Gap
    <3> DEFINE c == g(n)
    <3>2. c \in Int /\ 0 - W <= c /\ c < 2 * W /\ c - 0 = c /\ ~(c < 0) /\ c < W
      BY <2>1, <2>2
    <3>3. T0MR0' = c
      BY <3>1
    <3> HIDE DEF c
    <3>4. get_left_time' = (c - 0) % W
      BY <3>1, <3>3 DEF get_left_time
    <3>5. c % W = c
      BY <3>2, ModOnce
    <3>6. get_left_time' = c
      BY <3>2, <3>4, <3>5
    <3> QED
      BY <3>6 DEF c
  <2>4. ASSUME NEW u \in R
        PROVE  Gap(timer, n, u) = IF u \in Rung THEN W - g(n) ELSE g(u) - g(n)
    <3>1. Gap(timer, n, u) = IF g(u) < g(n) THEN g(u) - g(n) + W ELSE g(u) - g(n)
      BY <1>1, <1>3, <2>1, GapFrom
    <3> HIDE DEF g
    <3>2. g(u) \in 0..(W-1) /\ g(n) \in 0..(W-1) /\ W \in Nat \ {0} /\ g(n) # 0
      BY <2>1, <2>2
    <3>3. CASE u \in Rung
      BY <1>2, <3>1, <3>2, <3>3
    <3>4. CASE u \notin Rung
      <4>1. g(n) <= g(u)
        BY <1>2, <1>5, <3>4
      <4> QED
        BY <3>1, <3>2, <3>4, <4>1
    <3> QED
      BY <3>3, <3>4
  <2> HIDE DEF g
  <2>5. ASSUME NEW u \in R, timer[u].Next # n PROVE Gap(timer, n, u) <= Gap(timer, n, timer[u].Next)
    <3> DEFINE v == timer[u].Next
    <3>1. v \in R /\ g(u) \in 0..(W-1) /\ g(v) \in 0..(W-1) /\ g(n) \in 0..(W-1) /\ W \in Nat \ {0}
      BY <1>3, <2>1, <2>2
    <3>2. CASE u \in Rung
      <4>1. v \in Rung
        BY <1>2, <1>5, <2>5, <3>2
      <4>2. Gap(timer, n, u) = W - g(n) /\ Gap(timer, n, v) = W - g(n)
        BY <2>4, <3>1, <3>2, <4>1
      <4> QED
        BY <3>1, <4>2
    <3>3. CASE u \notin Rung /\ v \in Rung
      <4>1. Gap(timer, n, u) = g(u) - g(n) /\ Gap(timer, n, v) = W - g(n)
        BY <2>4, <3>1, <3>3
      <4> QED
        BY <3>1, <4>1
    <3>4. CASE u \notin Rung /\ v \notin Rung
      <4>1. Gap(timer, n, u) = g(u) - g(n) /\ Gap(timer, n, v) = g(v) - g(n)
        BY <2>4, <3>1, <3>4
      <4>2. v # p
        <5>1. g(n) <= g(v)
          BY <1>2, <1>5, <3>1, <3>4
        <5> QED
          BY <2>1, <2>2, <3>1, <5>1
      <4>3. g(u) <= g(v)
        BY <2>2, <4>2
      <4> QED
        BY <3>1, <4>1, <4>3
    <3> QED
      BY <3>2, <3>3, <3>4
  <2>6. \A u \in R : Gap(timer, n, u) + g(n) <= W
    <3> SUFFICES ASSUME NEW u \in R PROVE Gap(timer, n, u) + g(n) <= W
      OBVIOUS
    <3>1. g(u) \in 0..(W-1) /\ g(n) \in 0..(W-1) /\ W \in Nat \ {0}
      BY <2>1, <2>2
    <3> QED
      BY <2>4, <3>1
  <2>7. ASSUME NEW u \in Asleep \ Rung PROVE Gap(timer, n, u) + g(n) = rest[u]
    <3>1. u \in R /\ Gap(timer, n, u) = g(u) - g(n) /\ g(u) + 0 = rest[u]
      BY <1>1, <2>2, <2>4
    <3>2. g(u) \in Int /\ g(n) \in Int
      BY <2>1, <2>2, <3>1
    <3> QED
      BY <3>1, <3>2
  <2>8. OnTime(timer, R, n, g(n), Asleep \ Rung, rest)
    BY <2>5, <2>6, <2>7 DEF OnTime
  <2>9. OnTime(timer', R, OS_pTimer', get_left_time', Asleep', rest')
    BY <1>1, <2>1, <2>3, <2>8
  <2>10. get_left_time' # 0 /\ OS_pTimer' # NULL
    BY <2>1, <2>3
  <2>11. TimeIs(R)'
    BY <1>1, <2>1, <2>9, <2>10, TimeOf
  <2> QED
    BY <2>10, <2>11
<1> QED
  BY <1>4, <1>5

\* A millisecond takes one from what the counter has left, and from every timer that is set.
LEMMA TickTime ==
  ASSUME NEW R, RingIs(R), TimeIs(R), "del" \in Careful, Tick
  PROVE  /\ TimeIs(R)' /\ Asleep' = Asleep
         /\ \A u \in Asleep : rest[u] \in Nat \ {0} /\ rest'[u] = rest[u] - 1
<1>1. /\ Sound(timer, R) /\ timer \in Records /\ TypeOK /\ ~flag
      /\ \A u \in Timers : pc[u] \notin Deleting
      /\ UNCHANGED <<timer, OS_pTimer, T0MR0, pc, LeftTime>>
  BY CalmAll DEF Tick, RingIs
<1>2. \A u \in Timers :
        /\ pc[u] \notin Unlinking /\ pc[u] \notin {"reset", "none"} /\ pc[u] # "start"
        /\ pc[u] \notin {"hand", "start"} /\ pc[u] \notin {"test", "left", "hand"}
  BY <1>1 DEF Deleting, Unlinking
<1>3. /\ Asleep' = Asleep /\ Asleep \subseteq R /\ Asleep \subseteq Timers
      /\ \A u \in Asleep : rest'[u] = IF rest[u] > 0 THEN rest[u] - 1 ELSE rest[u]
  BY <1>1 DEF Asleep, Sound, Tick
<1>4. /\ OnTime(timer, R, OS_pTimer, get_left_time, Asleep, rest)
      /\ OS_pTimer # NULL => counting /\ get_left_time # 0
      /\ OS_pTimer = NULL => ~counting
  BY <1>1, TimeThen DEF Left
<1>5. CASE OS_pTimer = NULL
  <2>1. R = {} /\ Asleep = {} /\ ~counting
    BY <1>1, <1>3, <1>4, <1>5 DEF Sound
  <2>2. T0TC' = T0TC /\ counting' = counting /\ flag' = flag
    BY <2>1 DEF Tick
  <2>3. OnTime(timer', R, OS_pTimer', get_left_time', Asleep', rest')
    BY <1>3, <2>1 DEF OnTime
  <2>4. TimeIs(R)'
    BY <1>1, <1>5, <2>1, <2>2, <2>3, TimeOf
  <2> QED
    BY <1>3, <2>1, <2>4
<1>6. CASE OS_pTimer # NULL
  <2> DEFINE L == get_left_time
             g(u) == Gap(timer, OS_pTimer, u)
  <2>1. OS_pTimer \in R /\ R \subseteq Timers /\ counting /\ L # 0
    BY <1>1, <1>4, <1>6 DEF Sound, Round
  <2>2. /\ L \in 0..(W-1) /\ W \in Nat \ {0} /\ T0MR0 \in 0..(W-1) /\ T0TC \in 0..(W-1)
        /\ L = IF T0MR0 < T0TC THEN T0MR0 - T0TC + W ELSE T0MR0 - T0TC
    BY <1>1, LeftIs DEF TypeOK
  <2>3. \A u \in R : g(u) \in 0..(W-1)
    BY <1>1, <2>1, GapIs
  <2>4. /\ \A u \in R : timer[u].Next # OS_pTimer => g(u) <= g(timer[u].Next)
        /\ \A u \in R : g(u) + L <= W
        /\ \A u \in Asleep : g(u) + L = rest[u]
    BY <1>4 DEF OnTime
  <2> HIDE DEF g, L
  <2>5. \A u \in Asleep : rest[u] \in Nat \ {0} /\ rest'[u] = rest[u] - 1
    <3> SUFFICES ASSUME NEW u \in Asleep
                 PROVE  rest[u] \in Nat \ {0} /\ rest'[u] = rest[u] - 1
      OBVIOUS
    <3>1. g(u) \in 0..(W-1) /\ g(u) + L = rest[u]
      BY <1>3, <2>3, <2>4
    <3>2. rest[u] \in Nat \ {0}
      BY <2>1, <2>2, <3>1
    <3> QED
      BY <1>3, <3>2
  <2>6. ASSUME NEW l, l = L - 1
        PROVE  OnTime(timer', R, OS_pTimer', l, Asleep', rest')
    <3>1. ASSUME NEW u \in R PROVE g(u) + l <= W
      <4>1. g(u) \in 0..(W-1) /\ g(u) + L <= W
        BY <2>3, <2>4
      <4> QED
        BY <2>2, <2>6, <4>1
    <3>2. ASSUME NEW u \in Asleep PROVE g(u) + l = rest'[u]
      <4>1. g(u) \in 0..(W-1) /\ g(u) + L = rest[u] /\ rest'[u] = rest[u] - 1
        BY <1>3, <2>3, <2>4, <2>5
      <4> QED
        BY <2>2, <2>6, <4>1
    <3>3. timer' = timer /\ OS_pTimer' = OS_pTimer /\ Asleep' = Asleep
      BY <1>1, <1>3
    <3>4. OnTime(timer, R, OS_pTimer, l, Asleep, rest')
      BY <2>4, <3>1, <3>2 DEF OnTime, g
    <3> QED
      BY <3>3, <3>4
  <2> DEFINE c == (T0TC + 1) % W
  <2>7. c = IF T0TC + 1 < W THEN T0TC + 1 ELSE (T0TC + 1) - W
    <3> DEFINE x == T0TC + 1
    <3>1. x \in Int /\ 0 - W <= x /\ x < 2 * W /\ ~(x < 0)
      BY <2>2
    <3>2. x % W = IF x < 0 THEN x + W ELSE IF x < W THEN x ELSE x - W
      <4> HIDE DEF x
      <4> QED
        BY <3>1, ModOnce
    <3>3. c = x % W
      OBVIOUS
    <3> HIDE DEF c, x
    <3>4. c = IF x < W THEN x ELSE x - W
      BY <3>1, <3>2, <3>3
    <3> QED
      BY <3>4 DEF x
  <2>8. IF c = T0MR0
        THEN flag' = TRUE /\ T0TC' = 0 /\ counting' = FALSE
        ELSE T0TC' = c /\ UNCHANGED <<counting, flag>>
    BY <2>1 DEF Tick
  <2> HIDE DEF c
  <2>9. c \in 0..(W-1) /\ (c = T0MR0 <=> L = 1)
    BY <2>1, <2>2, <2>7
  <2>10. CASE c = T0MR0
    <3>1. flag' /\ Left' = 0 /\ L = 1
      BY <2>8, <2>9, <2>10 DEF Left
    <3>2. Left' = L - 1
      BY <3>1
    <3>3. OnTime(timer', R, OS_pTimer', Left', Asleep', rest')
      BY <2>6, <3>2
    <3>4. \A u \in Timers :
            /\ pc'[u] \notin Deleting
            /\ pc'[u] \notin Unlinking /\ pc'[u] \notin {"reset", "none"} /\ pc'[u] # "start"
            /\ pc'[u] \notin {"hand", "start"} /\ pc'[u] \notin {"test", "left", "hand"}
      BY <1>1, <1>2
    <3>5. TimeIs(R)'
      BY <1>1, <1>6, <3>1, <3>3, <3>4 DEF TimeIs
    <3> QED
      BY <1>3, <2>5, <3>5
  <2>11. CASE c # T0MR0
    <3>1. T0TC' = c /\ counting' = counting /\ flag' = flag /\ T0MR0' = T0MR0 /\ L # 1
      BY <1>1, <2>8, <2>9, <2>11
    <3> DEFINE x == T0MR0 - c
    <3>2. x \in Int /\ 0 - W <= x /\ x < 2 * W /\ (x = L - 1 \/ x = L - 1 - W)
      BY <2>1, <2>2, <2>7, <2>9, <3>1
    <3>3. get_left_time' = x % W
      BY <3>1 DEF get_left_time
    <3> HIDE DEF x
    <3>4. x % W = IF x < 0 THEN x + W ELSE IF x < W THEN x ELSE x - W
      BY <3>2, ModOnce
    <3>5. get_left_time' = IF x < 0 THEN x + W ELSE IF x < W THEN x ELSE x - W
      BY <3>3, <3>4
    <3>6. get_left_time' = L - 1 /\ get_left_time' # 0
      BY <2>1, <2>2, <3>1, <3>2, <3>5
    <3>7. OnTime(timer', R, OS_pTimer', get_left_time', Asleep', rest')
      BY <2>6, <3>6
    <3>8. TimeIs(R)'
      BY <1>1, <1>6, <2>1, <3>1, <3>6, <3>7, TimeOf
    <3> QED
      BY <1>3, <2>5, <3>8
  <2> QED
    BY <2>10, <2>11
<1> QED
  BY <1>5, <1>6

\* A step of something else takes no time.
LEMMA StutterTime ==
  ASSUME NEW R, TimeIs(R), UNCHANGED vars
  PROVE  TimeIs(R)'
<1>1. UNCHANGED <<timer, OS_pTimer, pc, rest, LeftTime, flag, counting>>
  BY DEF vars
<1>2. /\ Asleep' = Asleep /\ Left' = Left /\ get_left_time' = get_left_time
      /\ \A t \in Timers : Later(t)' = Later(t)
      /\ \A t \in Timers : ToNext(t)' = ToNext(t) /\ (NoZero(t)' <=> NoZero(t))
  BY DEF vars, hardware, Asleep, Left, get_left_time, Later, Unlinked, NoZero, ToNext
<1> QED
  BY <1>1, <1>2 DEF TimeIs

\* Whatever happens, the ring and the counter are in time.
LEMMA TimeSteps ==
  ASSUME Careful = Disciplines, TimeInv, [Next]_vars
  PROVE  TimeInv'
<1>1. PICK R \in SUBSET Timers : RingIs(R) /\ TimeIs(R)
  BY DEF TimeInv
<1>2. "del" \in Careful /\ "match" \in Careful
  BY DEF Disciplines
<1>3. CASE UNCHANGED vars
  <2>1. RingIs(R)' /\ TimeIs(R)'
    BY <1>1, <1>3, StutterRing, StutterTime
  <2> QED
    BY <2>1 DEF TimeInv
<1>4. ASSUME NEW t \in Timers, NEW ms \in Delays, Add(t, ms, "sleep") \/ Add(t, ms, "wait")
      PROVE  TimeInv'
  <2>1. RingIs(R \cup {t})' /\ TimeIs(R \cup {t})'
    BY <1>1, <1>2, <1>4, AddRing, AddTime
  <2>2. R \cup {t} \in SUBSET Timers
    OBVIOUS
  <2> QED
    BY <2>1, <2>2 DEF TimeInv
<1>5. ASSUME NEW t \in Timers, WaitEnds(t) PROVE TimeInv'
  <2>1. RingIs(R \ {t})' /\ TimeIs(R \ {t})'
    BY <1>1, <1>2, <1>5, WaitEndsRing, WaitEndsTime
  <2>2. R \ {t} \in SUBSET Timers
    OBVIOUS
  <2> QED
    BY <2>1, <2>2 DEF TimeInv
<1>6. ASSUME NEW t \in Timers, DelEntry(t) PROVE TimeInv'
  <2>1. RingIs(R)' /\ TimeIs(R)'
    BY <1>1, <1>2, <1>6, EntryGoesOn, EntryTime
  <2> QED
    BY <2>1 DEF TimeInv
<1>7. ASSUME NEW t \in Timers, DelStep(t) PROVE TimeInv'
  <2>1. (RingIs(R \ {t})' /\ TimeIs(R \ {t})') \/ (RingIs(R)' /\ TimeIs(R)')
    BY <1>1, <1>2, <1>7, DelRing, DelStepsTime
  <2>2. R \ {t} \in SUBSET Timers
    OBVIOUS
  <2> QED
    BY <2>1, <2>2 DEF TimeInv
<1>8. ASSUME NEW t \in Timers, DelUnlink(t) PROVE TimeInv'
  <2>1. RingIs(R)' /\ TimeIs(R)'
    BY <1>1, <1>2, <1>8, UnlinkRing, UnlinkTime
  <2> QED
    BY <2>1 DEF TimeInv
<1>9. CASE systimer_exception
  <2>1. (RingIs({})' /\ TimeIs({})') \/ (RingIs(R)' /\ TimeIs(R)')
    BY <1>1, <1>2, <1>9, RungRing, RungTime
  <2>2. {} \in SUBSET Timers
    OBVIOUS
  <2> QED
    BY <2>1, <2>2 DEF TimeInv
<1>10. CASE Tick
  <2>1. RingIs(R)' /\ TimeIs(R)'
    BY <1>1, <1>2, <1>10, TickRing, TickTime
  <2> QED
    BY <2>1 DEF TimeInv
<1> QED
  BY <1>3, <1>4, <1>5, <1>6, <1>7, <1>8, <1>9, <1>10 DEF Next, Thread, DelStep

\* They are when the system starts.
LEMMA InitTime ==
  ASSUME Init
  PROVE  TimeInv
<1>1. {} \in SUBSET Timers /\ RingIs({})
  BY InitRing
<1>2. /\ ~flag /\ ~counting /\ OS_pTimer = NULL /\ Asleep = {}
      /\ \A t \in Timers : pc[t] = "run"
  BY DEF Init, Asleep
<1>3. OnTime(timer, {}, OS_pTimer, Left, Asleep, rest)
  BY <1>2 DEF OnTime
<1>4. TimeIs({})
  BY <1>2, <1>3 DEF TimeIs, Unlinking
<1> QED
  BY <1>1, <1>4 DEF TimeInv

-----------------------------------------------------------------------------
\* A delete under way has nothing to do with the moments of the others.
LEMMA LaterTimes ==
  ASSUME timer \in Records, NEW t \in Timers, pc[t] \in Unlinking,
         timer[t].Next \in Timers, timer[t].Prev \in Timers
  PROVE  /\ Later(t)[t] = Unused
         /\ \A u \in Timers \ {t} : Later(t)[u].Time = timer[u].Time
<1>1. CASE pc[t] = "unlink1"
  <2>1. Later(t) = Cut(timer, t)
    BY <1>1 DEF Later, Unlinked, Cut
  <2> QED
    BY <2>1, CutShape
<1>2. CASE pc[t] = "unlink2"
  BY <1>2 DEF Later, Records
<1>3. CASE pc[t] = "clear"
  BY <1>3 DEF Later, Records
<1> QED
  BY <1>1, <1>2, <1>3 DEF Unlinking

\* Every timer that is set lies as far behind OS_pTimer as it has time left, but for what the
\* counter has left.
LEMMA AsleepTime ==
  ASSUME TimeInv, \A t \in Timers : pc[t] # "start", NEW u \in Asleep
  PROVE  /\ timer \in Records /\ OS_pTimer \in Timers /\ u \in Timers
         /\ Gap(timer, OS_pTimer, u) + Left = rest[u] /\ rest[u] \in 0..MaxDelay
<1>1. PICK R \in SUBSET Timers : RingIs(R) /\ TimeIs(R)
  BY DEF TimeInv
<1>2. timer \in Records /\ u \in Timers /\ rest[u] \in 0..MaxDelay /\ pc[u] \in {"sleep", "wait"}
  BY <1>1 DEF RingIs, TypeOK, Records, Asleep
<1>3. CASE \A t \in Timers : pc[t] \notin Unlinking
  <2>1. Sound(timer, R) /\ OnTime(timer, R, OS_pTimer, Left, Asleep, rest)
    BY <1>1, <1>3 DEF RingIs, TimeIs
  <2>2. OS_pTimer \in Timers
    BY <2>1 DEF Sound
  <2> QED
    BY <1>2, <2>1, <2>2 DEF OnTime
<1>4. ASSUME NEW t \in Timers, pc[t] \in Unlinking
      PROVE  OS_pTimer \in Timers /\ Gap(timer, OS_pTimer, u) + Left = rest[u]
  <2>1. /\ Sound(Later(t), R) /\ OnTime(Later(t), R, OS_pTimer, Left, Asleep, rest)
        /\ timer[t].Next \in Timers /\ timer[t].Prev \in Timers
    BY <1>1, <1>4 DEF RingIs, TimeIs
  <2>2. /\ Later(t)[t] = Unused
        /\ \A v \in Timers \ {t} : Later(t)[v].Time = timer[v].Time
    BY <1>2, <1>4, <2>1, LaterTimes
  <2>3. u # t
    BY <1>2, <1>4 DEF Unlinking
  <2>4. OS_pTimer \in R
    BY <2>1 DEF Sound
  <2>5. t \notin R
    BY <2>1, <2>2, TickerAssumption DEF Sound, Round, Unused
  <2>6. OS_pTimer \in Timers /\ OS_pTimer # t
    BY <2>4, <2>5
  <2>7. Gap(Later(t), OS_pTimer, u) = Gap(timer, OS_pTimer, u)
    BY <1>2, <2>2, <2>3, <2>6 DEF Gap
  <2> QED
    BY <2>1, <2>6, <2>7 DEF OnTime
<1> QED
  BY <1>2, <1>3, <1>4

\* So the ring and the counter make of every timer what it has left.
LEMMA TimeCounts ==
  ASSUME TimeInv
  PROVE  CountsDown
<1> SUFFICES ASSUME \A t \in Timers : pc[t] # "start", NEW u \in Asleep
             PROVE  (timer[u].Time - timer[OS_pTimer].Time + IF flag THEN 0 ELSE get_left_time) % W = rest[u]
  BY DEF CountsDown
<1> DEFINE a == timer[u].Time - timer[OS_pTimer].Time
           g == Gap(timer, OS_pTimer, u)
           L == IF flag THEN 0 ELSE get_left_time
<1>1. /\ timer \in Records /\ OS_pTimer \in Timers /\ u \in Timers
      /\ g + L = rest[u] /\ rest[u] \in 0..MaxDelay
  BY AsleepTime DEF Left
<1>2. /\ W \in Nat \ {0} /\ a \in Int /\ g \in 0..(W-1) /\ (g = a \/ g = a + W) /\ MaxDelay < W /\ MaxDelay \in Nat
  <2>1. /\ timer[u].Time \in 0..(W-1) /\ timer[OS_pTimer].Time \in 0..(W-1) /\ W \in Nat \ {0}
        /\ g \in 0..(W-1)
        /\ g = IF timer[u].Time < timer[OS_pTimer].Time THEN timer[u].Time - timer[OS_pTimer].Time + W
               ELSE timer[u].Time - timer[OS_pTimer].Time
    BY <1>1, GapIs
  <2>2. MaxDelay < W /\ MaxDelay \in Nat
    BY TickerAssumption
  <2> HIDE DEF g
  <2> QED
    BY <2>1, <2>2
<1>3. L \in 0..(W-1)
  <2>1. TypeOK
    BY DEF TimeInv, RingIs
  <2>2. get_left_time \in 0..(W-1) /\ 0 \in 0..(W-1)
    BY <2>1, LeftIs
  <2> QED
    BY <2>2
<1> HIDE DEF a, g, L
<1> DEFINE x == a + L
<1>4. x \in Int /\ 0 - W <= x /\ x < 2 * W /\ (x = rest[u] \/ x = rest[u] - W)
  BY <1>1, <1>2, <1>3
<1> HIDE DEF x
<1>5. x % W = IF x < 0 THEN x + W ELSE IF x < W THEN x ELSE x - W
  BY <1>4, ModOnce
<1> DEFINE v == x % W
<1>6. v = IF x < 0 THEN x + W ELSE IF x < W THEN x ELSE x - W
  BY <1>5
<1> HIDE DEF v
<1>7. v = rest[u]
  BY <1>1, <1>2, <1>4, <1>6
<1> QED
  BY <1>7 DEF v, x, a, L

\* When the threads are careful, the moments modulo W and the one counter amount to a
\* countdown of its own for every timer that is set: for any number of timers, any delays
\* and any width of the moments.
THEOREM TimersCountDown ==
  ASSUME Careful = Disciplines
  PROVE  Spec => []CountsDown
<1>1. Init => TimeInv
  BY InitTime
<1>2. TimeInv /\ [Next]_vars => TimeInv'
  BY TimeSteps
<1>3. TimeInv => CountsDown
  BY TimeCounts
<1> QED
  BY <1>1, <1>2, <1>3, PTL DEF Spec

-----------------------------------------------------------------------------
\* The alarm clock as the timers show it.
Shown == [t \in Timers |-> IF t \in Asleep THEN rest[t] ELSE 0]

\* No alarm is set when the system starts.
LEMMA ClockStarts ==
  ASSUME Init
  PROVE  Clock!ClockInit
<1>1. Asleep = {}
  BY DEF Init, Asleep
<1> QED
  BY <1>1 DEF Clock!ClockInit

\* Nothing the clock shows has changed.
LEMMA ClockRests ==
  ASSUME Asleep' = Asleep, \A u \in Asleep : rest'[u] = rest[u]
  PROVE  UNCHANGED Clock!clockVars
BY DEF Clock!clockVars

\* Adding a timer sets its alarm.
LEMMA AddSets ==
  ASSUME TypeOK, NEW t \in Timers, NEW ms \in Delays, NEW why \in {"sleep", "wait"}, Add(t, ms, why)
  PROVE  Clock!Set(t, ms)
<1>1. /\ pc[t] = "run" /\ pc' = [pc EXCEPT ![t] = why] /\ rest' = [rest EXCEPT ![t] = ms]
  BY DEF Add
<1>2. /\ pc'[t] = why /\ rest'[t] = ms /\ \A u \in Timers \ {t} : pc'[u] = pc[u] /\ rest'[u] = rest[u]
  BY <1>1 DEF TypeOK
<1>3. t \notin Asleep /\ Asleep' = Asleep \cup {t}
  BY <1>1, <1>2 DEF Asleep
<1>4. Shown' = [Shown EXCEPT ![t] = ms]
  <2>1. \A u \in Timers : Shown'[u] = IF u = t THEN ms ELSE Shown[u]
    BY <1>2, <1>3 DEF Shown
  <2> QED
    BY <2>1 DEF Shown
<1> QED
  BY <1>3, <1>4 DEF Clock!Set, Shown

\* A timed wait that is posted before its time cancels its alarm; one that timed out has none.
LEMMA WaitEndsCancels ==
  ASSUME TypeOK, NEW t \in Timers, WaitEnds(t)
  PROVE  Clock!Cancel(t) \/ UNCHANGED Clock!clockVars
<1>1. /\ pc[t] \in {"wait", "timeout"} /\ pc' = [pc EXCEPT ![t] = "run"] /\ rest' = [rest EXCEPT ![t] = 0]
  BY DEF WaitEnds
<1>2. /\ pc'[t] = "run" /\ \A u \in Timers \ {t} : pc'[u] = pc[u] /\ rest'[u] = rest[u]
  BY <1>1 DEF TypeOK
<1>3. CASE pc[t] = "wait"
  <2>1. t \in Asleep /\ Asleep' = Asleep \ {t}
    BY <1>2, <1>3 DEF Asleep
  <2>2. Shown' = [Shown EXCEPT ![t] = 0]
    <3>1. \A u \in Timers : Shown'[u] = IF u = t THEN 0 ELSE Shown[u]
      BY <1>2, <2>1 DEF Shown
    <3> QED
      BY <3>1 DEF Shown
  <2> QED
    BY <2>1, <2>2 DEF Clock!Cancel, Shown
<1>4. CASE pc[t] = "timeout"
  <2>1. Asleep' = Asleep /\ t \notin Asleep
    BY <1>2, <1>4 DEF Asleep
  <2>2. \A u \in Asleep : rest'[u] = rest[u]
    BY <1>2, <2>1 DEF Asleep
  <2> QED
    BY <2>1, <2>2, ClockRests
<1> QED
  BY <1>1, <1>3, <1>4

\* The unlocked delete of a sleep that is over has no alarm to cancel.
LEMMA DelShowsNothing ==
  ASSUME TypeOK, NEW t \in Timers,
         DelEntry(t) \/ DelStep(t) \/ DelUnlink(t)
  PROVE  UNCHANGED Clock!clockVars
<1>1. /\ rest' = rest /\ pc[t] \notin {"sleep", "wait"}
      /\ \E to : pc' = [pc EXCEPT ![t] = to] /\ to \notin {"sleep", "wait"}
  <2>1. rest' = rest
    BY DEF DelEntry, DelStep, DelTest, DelStop, DelLeft, DelHandOver, DelStart, DelUnlink
  <2>2. CASE DelEntry(t)
    <3> DEFINE to == IF NULL \in {timer[t].Prev, timer[t].Next} THEN "run" ELSE "test"
    <3>1. pc[t] = "slept" /\ pc' = [pc EXCEPT ![t] = to] /\ to \notin {"sleep", "wait"}
      BY <2>2 DEF DelEntry
    <3> QED
      BY <2>1, <3>1
  <2>3. CASE DelTest(t)
    <3> DEFINE to == IF OS_pTimer # t THEN "unlink1"
                     ELSE IF timer[t].Next = t THEN "stop" ELSE "left"
    <3>1. pc[t] = "test" /\ pc' = [pc EXCEPT ![t] = to] /\ to \notin {"sleep", "wait"}
      BY <2>3 DEF DelTest
    <3> QED
      BY <2>1, <3>1
  <2>4. CASE DelStop(t)
    BY <2>1, <2>4 DEF DelStop
  <2>5. CASE DelLeft(t) \/ DelHandOver(t) \/ DelStart(t)
    BY <2>1, <2>5 DEF DelLeft, DelHandOver, DelStart
  <2>6. CASE DelUnlink(t)
    BY <2>1, <2>6 DEF DelUnlink
  <2> QED
    BY <2>2, <2>3, <2>4, <2>5, <2>6 DEF DelStep
<1>2. pc'[t] \notin {"sleep", "wait"} /\ \A u \in Timers \ {t} : pc'[u] = pc[u]
  BY <1>1 DEF TypeOK
<1>3. Asleep' = Asleep
  BY <1>1, <1>2 DEF Asleep
<1> QED
  BY <1>1, <1>3, ClockRests

\* The interrupt rings every alarm that is due, and no other.
LEMMA RungRings ==
  ASSUME NEW R, RingIs(R), TimeIs(R), "del" \in Careful, systimer_exception
  PROVE  Clock!Ring \/ UNCHANGED Clock!clockVars
<1> DEFINE p == OS_pTimer
           n == Step[Batch]
           g(u) == Gap(timer, p, u)
           Due == {u \in Asleep : Shown[u] = 0}
<1>1. /\ p \in R /\ rest' = rest
      /\ timer \in Records /\ Knit(timer) /\ Round(timer, R) /\ Asleep \subseteq R
      /\ OnTime(timer, R, p, 0, Asleep, rest)
      /\ Asleep' = Asleep \ Rung
  BY RungStep
<1>2. /\ \A u \in Rung : u \in R /\ g(u) = 0
      /\ timer[n].Time = timer[p].Time => Rung = R
      /\ timer[n].Time # timer[p].Time => /\ n \in R /\ g(n) # 0
                                          /\ \A u \in R \ Rung : g(n) <= g(u)
  BY <1>1, RungIs
<1>3. \A u \in R : u \in Timers /\ g(u) \in 0..(W-1)
  <2>1. \A u \in R : u \in Timers
    BY <1>1 DEF Round
  <2> QED
    BY <1>1, <2>1, GapIs
<1>4. \A u \in Asleep : u \in R /\ Shown[u] = g(u)
  <2>1. \A u \in Asleep : u \in R /\ g(u) + 0 = rest[u] /\ Shown[u] = rest[u]
    BY <1>1, <1>3 DEF OnTime, Shown
  <2> HIDE DEF g
  <2> QED
    BY <1>3, <2>1
<1> HIDE DEF g, n
<1>5. \A u \in R \ Rung : g(u) # 0
  <2> SUFFICES ASSUME NEW u \in R \ Rung PROVE g(u) # 0
    OBVIOUS
  <2>1. timer[n].Time # timer[p].Time
    BY <1>2
  <2>2. g(n) <= g(u) /\ g(n) # 0 /\ g(n) \in 0..(W-1) /\ g(u) \in 0..(W-1)
    BY <1>2, <1>3, <2>1
  <2> QED
    BY <2>2
<1>6. \A u \in Asleep : u \in Rung <=> Shown[u] = 0
  BY <1>2, <1>4, <1>5
<1>7. Asleep' = Asleep \ Due
  BY <1>1, <1>6
<1>8. Shown' = Shown
  <2>1. \A u \in Timers : (IF u \in Asleep' THEN rest[u] ELSE 0) = (IF u \in Asleep THEN rest[u] ELSE 0)
    BY <1>1, <1>6, <1>7 DEF Shown
  <2> QED
    BY <1>1, <2>1 DEF Shown
<1>9. CASE Due = {}
  <2>1. Asleep' = Asleep
    BY <1>7, <1>9
  <2> QED
    BY <1>1, <2>1, ClockRests
<1>10. CASE Due # {}
  BY <1>7, <1>8, <1>10 DEF Clock!Ring, Clock!Due, Shown
<1> QED
  BY <1>9, <1>10

\* A millisecond passes for every alarm that is set, and passes none that is due.
LEMMA TickPasses ==
  ASSUME NEW R, RingIs(R), TimeIs(R), "del" \in Careful, Tick
  PROVE  Clock!Pass
<1>1. /\ Asleep' = Asleep
      /\ \A u \in Asleep : rest[u] \in Nat \ {0} /\ rest'[u] = rest[u] - 1
  BY TickTime
<1>2. {u \in Asleep : Shown[u] = 0} = {}
  BY <1>1 DEF Shown, Asleep
<1>3. Shown' = [u \in Timers |-> IF u \in Asleep THEN Shown[u] - 1 ELSE 0]
  <2>1. \A u \in Timers : (IF u \in Asleep' THEN rest'[u] ELSE 0) = (IF u \in Asleep THEN Shown[u] - 1 ELSE 0)
    BY <1>1 DEF Shown
  <2> QED
    BY <2>1 DEF Shown
<1> QED
  BY <1>1, <1>2, <1>3 DEF Clock!Pass, Clock!Due, Shown

\* Every step of the timers is one of the alarm clock, or shows nothing.
LEMMA ClockSteps ==
  ASSUME Careful = Disciplines, TimeInv, [Next]_vars
  PROVE  [Clock!ClockNext]_(Clock!clockVars)
<1>1. PICK R \in SUBSET Timers : RingIs(R) /\ TimeIs(R)
  BY DEF TimeInv
<1>2. "del" \in Careful /\ TypeOK
  BY <1>1 DEF Disciplines, RingIs
<1>3. CASE UNCHANGED vars
  <2>1. Asleep' = Asleep /\ rest' = rest
    BY <1>3 DEF vars, Asleep
  <2> QED
    BY <2>1, ClockRests
<1>4. ASSUME NEW t \in Timers, NEW ms \in Delays, Add(t, ms, "sleep") \/ Add(t, ms, "wait")
      PROVE  Clock!ClockNext
  <2>1. Clock!Set(t, ms)
    BY <1>2, <1>4, AddSets
  <2> QED
    BY <2>1 DEF Clock!ClockNext
<1>5. ASSUME NEW t \in Timers, WaitEnds(t)
      PROVE  Clock!ClockNext \/ UNCHANGED Clock!clockVars
  <2>1. Clock!Cancel(t) \/ UNCHANGED Clock!clockVars
    BY <1>2, <1>5, WaitEndsCancels
  <2> QED
    BY <2>1 DEF Clock!ClockNext
<1>6. ASSUME NEW t \in Timers, DelEntry(t) \/ DelStep(t) \/ DelUnlink(t)
      PROVE  UNCHANGED Clock!clockVars
  BY <1>2, <1>6, DelShowsNothing
<1>7. CASE systimer_exception
  <2>1. Clock!Ring \/ UNCHANGED Clock!clockVars
    BY <1>1, <1>2, <1>7, RungRings
  <2> QED
    BY <2>1 DEF Clock!ClockNext
<1>8. CASE Tick
  <2>1. Clock!Pass
    BY <1>1, <1>2, <1>8, TickPasses
  <2> QED
    BY <2>1 DEF Clock!ClockNext
<1> QED
  BY <1>3, <1>4, <1>5, <1>6, <1>7, <1>8 DEF Next, Thread, DelStep

\* The timers are the alarm clock: a delay ends in the millisecond it is due, together with
\* every other that is due then, and not before.
THEOREM TimersAreAClock ==
  ASSUME Careful = Disciplines
  PROVE  Spec => ImplementsClock
<1>1. Init => TimeInv /\ Clock!ClockInit
  BY InitTime, ClockStarts
<1>2. TimeInv /\ [Next]_vars => TimeInv'
  BY TimeSteps
<1>3. TimeInv /\ [Next]_vars => [Clock!ClockNext]_(Clock!clockVars)
  BY ClockSteps
<1> QED
  BY <1>1, <1>2, <1>3, PTL DEF Spec, ImplementsClock, Clock!ClockSpec

=============================================================================
