---------------------------- MODULE LibraryProofs ----------------------------
(***************************************************************************)
(* The library's lists and bits.  Every function of list.h, for any number *)
(* of heads and entries and lists of any length: the rings of pointers     *)
(* carry the sequences the calls promise.  The bit operations and the      *)
(* index of the allocator's trees, for every word.                         *)
(***************************************************************************)
EXTENDS BitOps, ListRings, ListProofs, FiniteSetTheorems, SequenceTheorems, Integers

-----------------------------------------------------------------------------
\* The node a walk of i steps from head h meets when the list is s.
At(h, s, i) == IF i \in 1..Len(s) THEN s[i] ELSE h

\* The pointers of the heap K make the ring of head h carry the sequence s.
RingOf(K, h, s) ==
  \A i \in 0..Len(s) : /\ K[At(h, s, i)].next = At(h, s, i + 1)
                       /\ K[At(h, s, i + 1)].prev = At(h, s, i)

\* s is a sequence of different entries.
Row(s) == /\ s \in Seq(Entries)
          /\ \A i, j \in 1..Len(s) : s[i] = s[j] => i = j

\* Two steps of a walk meet different nodes until the walk is back at the head.
LEMMA AtApart ==
  ASSUME NEW s, Row(s), NEW h \in Heads
  PROVE  /\ Len(s) \in Nat
         /\ \A i \in Int : At(h, s, i) \in Node
         /\ \A i, j \in 0..Len(s) : At(h, s, i) = At(h, s, j) => i = j
         /\ \A i, j \in 1..(Len(s) + 1) : At(h, s, i) = At(h, s, j) => i = j
<1>1. Len(s) \in Nat /\ \A i \in 1..Len(s) : s[i] \in Entries /\ s[i] # h
  BY RingsAssumption DEF Row
<1> QED
  BY <1>1 DEF Row, At, Node

\* Rows without a common entry.
Disjoint(s, t) == \A i \in 1..Len(s), j \in 1..Len(t) : s[i] # t[j]

\* r is s with t set in after its first k entries.
Grafted(r, s, t, k) ==
  /\ Len(r) = Len(s) + Len(t)
  /\ \A i \in 1..k : r[i] = s[i]
  /\ \A i \in 1..Len(t) : r[k + i] = t[i]
  /\ \A i \in (k + 1)..Len(s) : r[i + Len(t)] = s[i]

\* The heap K2 chains t in between the steps k and k + 1 of the ring that K has
\* for s, and leaves the other pointers of that ring.
Joined(K2, K, h, s, t, k) ==
  /\ \A i \in 1..(Len(t) - 1) : K2[t[i]].next = t[i + 1] /\ K2[t[i + 1]].prev = t[i]
  /\ K2[At(h, s, k)].next = t[1] /\ K2[t[1]].prev = At(h, s, k)
  /\ K2[At(h, s, k + 1)].prev = t[Len(t)] /\ K2[t[Len(t)]].next = At(h, s, k + 1)
  /\ \A i \in 0..Len(s) : i # k => K2[At(h, s, i)].next = K[At(h, s, i)].next
  /\ \A i \in 1..(Len(s) + 1) : i # k + 1 => K2[At(h, s, i)].prev = K[At(h, s, i)].prev

\* A row t linked in between the steps k and k + 1 of a ring: the ring carries
\* the sequence that has t there.
LEMMA Graft ==
  ASSUME NEW K, NEW K2, NEW h \in Heads, NEW s, NEW t, NEW r, Row(s), Row(t),
         NEW k \in 0..Len(s), Len(t) > 0,
         RingOf(K, h, s), Grafted(r, s, t, k), Joined(K2, K, h, s, t, k)
  PROVE  RingOf(K2, h, r)
<1> DEFINE n == Len(s)
           m == Len(t)
<1>1. n \in Nat /\ m \in Nat /\ k \in Nat /\ k <= n /\ m > 0
  BY AtApart
<1>2. \A i \in 0..k : At(h, r, i) = At(h, s, i)
  BY <1>1 DEF At, Grafted
<1>3. \A i \in 1..m : At(h, r, k + i) = t[i]
  BY <1>1 DEF At, Grafted
<1>4. \A i \in (k + 1)..(n + 1) : At(h, r, i + m) = At(h, s, i)
  BY <1>1 DEF At, Grafted
<1>5. \A i \in 0..n : K[At(h, s, i)].next = At(h, s, i + 1) /\ K[At(h, s, i + 1)].prev = At(h, s, i)
  BY DEF RingOf
<1> SUFFICES ASSUME NEW i \in 0..(n + m)
             PROVE  /\ K2[At(h, r, i)].next = At(h, r, i + 1)
                    /\ K2[At(h, r, i + 1)].prev = At(h, r, i)
  BY DEF RingOf, Grafted
<1>a. CASE i < k
  <2>1. At(h, r, i) = At(h, s, i) /\ At(h, r, i + 1) = At(h, s, i + 1)
    BY <1>a, <1>1, <1>2
  <2>2. K2[At(h, s, i)].next = At(h, s, i + 1)
    BY <1>a, <1>1, <1>5 DEF Joined
  <2>3. K2[At(h, s, i + 1)].prev = At(h, s, i)
    <3>1. i + 1 \in 1..(n + 1) /\ i + 1 # k + 1 /\ i \in 0..n
      BY <1>a, <1>1
    <3> QED
      BY <3>1, <1>5 DEF Joined
  <2> QED
    BY <2>1, <2>2, <2>3
<1>b. CASE i = k
  <2>1. At(h, r, i) = At(h, s, k)
    BY <1>b, <1>1, <1>2
  <2>2. At(h, r, i + 1) = t[1]
    BY <1>b, <1>1, <1>3
  <2> QED
    BY <2>1, <2>2 DEF Joined
<1>c. CASE i > k /\ i < k + m
  <2>1. i - k \in 1..(m - 1) /\ k + (i - k) = i /\ k + ((i - k) + 1) = i + 1
    BY <1>c, <1>1
  <2>2. At(h, r, i) = t[i - k] /\ At(h, r, i + 1) = t[(i - k) + 1]
    BY <2>1, <1>3, <1>1, SMTT(30)
  <2> QED
    BY <2>1, <2>2 DEF Joined
<1>d. CASE i = k + m
  <2>1. At(h, r, i) = t[m]
    BY <1>d, <1>1, <1>3
  <2>2. At(h, r, i + 1) = At(h, s, k + 1)
    <3>1. k + 1 \in (k + 1)..(n + 1) /\ (k + 1) + m = i + 1
      BY <1>d, <1>1
    <3> QED
      BY <3>1, <1>4
  <2> QED
    BY <2>1, <2>2 DEF Joined
<1>e. CASE i > k + m
  <2> DEFINE j == i - m
  <2>1. /\ j \in (k + 1)..(n + 1) /\ j + 1 \in (k + 1)..(n + 1)
        /\ j + m = i /\ (j + 1) + m = i + 1
        /\ j \in 0..n /\ j # k
        /\ j + 1 \in 1..(n + 1) /\ j + 1 # k + 1
    BY <1>e, <1>1
  <2> HIDE DEF j
  <2>2. At(h, r, i) = At(h, s, j) /\ At(h, r, i + 1) = At(h, s, j + 1)
    BY <2>1, <1>4
  <2> QED
    BY <2>1, <2>2, <1>5 DEF Joined
<1>6. i < k \/ i = k \/ (i > k /\ i < k + m) \/ i = k + m \/ i > k + m
  <2>1. \A a, b, c \in Int : a < b \/ a = b \/ (a > b /\ a < c) \/ a = c \/ a > c
    OBVIOUS
  <2>2. i \in Int /\ k \in Int /\ k + m \in Int
    BY <1>1
  <2> QED
    BY <2>1, <2>2, Zenon
<1> QED
  BY <1>6, <1>a, <1>b, <1>c, <1>d, <1>e

\* The entry at step k taken out of a ring: the ring carries the others.
LEMMA Pluck ==
  ASSUME NEW K, NEW K2, NEW h \in Heads, NEW s, NEW r, Row(s),
         NEW k \in 1..Len(s), RingOf(K, h, s),
         Len(r) = Len(s) - 1,
         \A i \in 1..(k - 1) : r[i] = s[i],
         \A i \in k..(Len(s) - 1) : r[i] = s[i + 1],
         K2[At(h, s, k - 1)].next = At(h, s, k + 1),
         K2[At(h, s, k + 1)].prev = At(h, s, k - 1),
         \A i \in 0..Len(s) : i \notin {k - 1, k} => K2[At(h, s, i)].next = K[At(h, s, i)].next,
         \A i \in 1..(Len(s) + 1) : i \notin {k, k + 1} => K2[At(h, s, i)].prev = K[At(h, s, i)].prev
  PROVE  RingOf(K2, h, r)
<1> DEFINE n == Len(s)
<1>1. n \in Nat /\ k \in Nat /\ 1 <= k /\ k <= n
  BY AtApart
<1>2. \A i \in 0..(k - 1) : At(h, r, i) = At(h, s, i)
  BY <1>1 DEF At
<1>3. \A i \in k..n : At(h, r, i) = At(h, s, i + 1)
  BY <1>1 DEF At
<1>5. \A i \in 0..n : K[At(h, s, i)].next = At(h, s, i + 1) /\ K[At(h, s, i + 1)].prev = At(h, s, i)
  BY DEF RingOf
<1> SUFFICES ASSUME NEW i \in 0..(n - 1)
             PROVE  /\ K2[At(h, r, i)].next = At(h, r, i + 1)
                    /\ K2[At(h, r, i + 1)].prev = At(h, r, i)
  BY DEF RingOf
<1>a. CASE i < k - 1
  <2>1. /\ i \in 0..(k - 1) /\ i + 1 \in 0..(k - 1)
        /\ i \in 0..n /\ i \notin {k - 1, k}
        /\ i + 1 \in 1..(n + 1) /\ i + 1 \notin {k, k + 1}
    BY <1>a, <1>1
  <2> QED
    BY <2>1, <1>2, <1>5
<1>b. CASE i = k - 1
  <2>1. At(h, r, i) = At(h, s, k - 1)
    BY <1>b, <1>1, <1>2
  <2>2. At(h, r, i + 1) = At(h, s, k + 1)
    <3>1. i + 1 = k /\ k \in k..n
      BY <1>b, <1>1
    <3> QED
      BY <3>1, <1>3
  <2> QED
    BY <2>1, <2>2
<1>c. CASE i >= k
  <2>1. /\ i \in k..n /\ i + 1 \in k..n
        /\ i + 1 \in 0..n /\ i + 1 \notin {k - 1, k}
        /\ (i + 1) + 1 \in 1..(n + 1) /\ (i + 1) + 1 \notin {k, k + 1}
    BY <1>c, <1>1
  <2> QED
    BY <2>1, <1>3, <1>5
<1> QED
  BY <1>a, <1>b, <1>c, <1>1

\* The entry at step k exchanged for another.
LEMMA Exchange ==
  ASSUME NEW K, NEW K2, NEW h \in Heads, NEW s, NEW r, Row(s),
         NEW k \in 1..Len(s), RingOf(K, h, s),
         Len(r) = Len(s),
         \A i \in 1..Len(s) : i # k => r[i] = s[i],
         K2[r[k]].next = At(h, s, k + 1), K2[r[k]].prev = At(h, s, k - 1),
         K2[At(h, s, k - 1)].next = r[k], K2[At(h, s, k + 1)].prev = r[k],
         \A i \in 0..Len(s) : i \notin {k - 1, k} => K2[At(h, s, i)].next = K[At(h, s, i)].next,
         \A i \in 1..(Len(s) + 1) : i \notin {k, k + 1} => K2[At(h, s, i)].prev = K[At(h, s, i)].prev
  PROVE  RingOf(K2, h, r)
<1> DEFINE n == Len(s)
<1>1. n \in Nat /\ k \in Nat /\ 1 <= k /\ k <= n
  BY AtApart
<1>2. \A i \in 0..(n + 1) : At(h, r, i) = IF i = k THEN r[k] ELSE At(h, s, i)
  BY <1>1 DEF At
<1>5. \A i \in 0..n : K[At(h, s, i)].next = At(h, s, i + 1) /\ K[At(h, s, i + 1)].prev = At(h, s, i)
  BY DEF RingOf
<1> SUFFICES ASSUME NEW i \in 0..n
             PROVE  /\ K2[At(h, r, i)].next = At(h, r, i + 1)
                    /\ K2[At(h, r, i + 1)].prev = At(h, r, i)
  BY DEF RingOf
<1>a. CASE i = k - 1
  <2>1. i \in 0..(n + 1) /\ i # k /\ i + 1 = k /\ k \in 0..(n + 1)
    BY <1>a, <1>1
  <2> QED
    BY <1>a, <2>1, <1>2
<1>b. CASE i = k
  <2>1. k \in 0..(n + 1) /\ k + 1 \in 0..(n + 1) /\ k + 1 # k
    BY <1>1
  <2> QED
    BY <1>b, <2>1, <1>2
<1>c. CASE i \notin {k - 1, k}
  <2>1. /\ i \in 0..(n + 1) /\ i # k /\ i + 1 \in 0..(n + 1) /\ i + 1 # k
        /\ i + 1 \in 1..(n + 1) /\ i + 1 \notin {k, k + 1}
    BY <1>c, <1>1
  <2> QED
    BY <1>c, <2>1, <1>2, <1>5
<1> QED
  BY <1>a, <1>b, <1>c

\* The heap K2 takes the first k entries off the ring that K has for s and hangs
\* them on l, and leaves the other pointers.
Parted(K2, K, h, l, s, k) ==
  /\ K2[l].next = s[1] /\ K2[s[1]].prev = l
  /\ K2[l].prev = s[k] /\ K2[s[k]].next = l
  /\ K2[h].next = At(h, s, k + 1) /\ K2[At(h, s, k + 1)].prev = h
  /\ \A i \in 1..Len(s) : i # k => K2[At(h, s, i)].next = K[At(h, s, i)].next
  /\ \A i \in 1..(Len(s) + 1) : i \notin {1, k + 1} => K2[At(h, s, i)].prev = K[At(h, s, i)].prev

\* r holds the first k entries of s, r2 the others.
Halves(r, r2, s, k) ==
  /\ Len(r) = k /\ \A i \in 1..k : r[i] = s[i]
  /\ Len(r2) = Len(s) - k /\ \A i \in 1..(Len(s) - k) : r2[i] = s[k + i]

\* Then l carries them and h the rest.
LEMMA Split ==
  ASSUME NEW K, NEW K2, NEW h \in Heads, NEW l \in Heads, l # h,
         NEW s, NEW r, NEW r2, Row(s),
         NEW k \in 1..Len(s), RingOf(K, h, s),
         Halves(r, r2, s, k), Parted(K2, K, h, l, s, k)
  PROVE  RingOf(K2, l, r) /\ RingOf(K2, h, r2)
<1> DEFINE n == Len(s)
<1>1. n \in Nat /\ k \in Nat /\ 1 <= k /\ k <= n
  BY AtApart
<1>2. \A i \in 1..k : At(l, r, i) = At(h, s, i) /\ At(h, s, i) = s[i]
  BY <1>1 DEF At, Halves
<1>3. At(l, r, 0) = l /\ At(l, r, k + 1) = l
  BY <1>1 DEF At, Halves
<1>4. \A i \in 1..(n + 1 - k) : At(h, r2, i) = At(h, s, k + i)
  BY <1>1 DEF At, Halves
<1>5. \A i \in 0..n : K[At(h, s, i)].next = At(h, s, i + 1) /\ K[At(h, s, i + 1)].prev = At(h, s, i)
  BY DEF RingOf
<1>6. At(h, r2, 0) = h
  BY DEF At
<1>7. ASSUME NEW i \in 0..k
      PROVE  /\ K2[At(l, r, i)].next = At(l, r, i + 1)
             /\ K2[At(l, r, i + 1)].prev = At(l, r, i)
  <2>1. CASE i = 0
    <3>1. At(l, r, 1) = s[1]
      BY <1>1, <1>2
    <3> QED
      BY <2>1, <3>1, <1>3 DEF Parted
  <2>2. CASE i = k
    <3>1. At(l, r, k) = s[k] /\ k # 0
      BY <1>1, <1>2
    <3> QED
      BY <2>2, <3>1, <1>3 DEF Parted
  <2>3. CASE i \notin {0, k}
    <3>1. /\ i \in 1..k /\ i + 1 \in 1..k /\ i \in 1..n /\ i # k /\ i \in 0..n
          /\ i + 1 \in 1..(n + 1) /\ i + 1 \notin {1, k + 1}
      BY <2>3, <1>1
    <3> QED
      BY <3>1, <1>2, <1>5 DEF Parted
  <2> QED
    BY <2>1, <2>2, <2>3
<1>8. ASSUME NEW i \in 0..(n - k)
      PROVE  /\ K2[At(h, r2, i)].next = At(h, r2, i + 1)
             /\ K2[At(h, r2, i + 1)].prev = At(h, r2, i)
  <2>1. CASE i = 0
    <3>1. At(h, r2, 1) = At(h, s, k + 1)
      BY <1>1, <1>4
    <3> QED
      BY <2>1, <3>1, <1>6 DEF Parted
  <2>2. CASE i # 0
    <3>1. /\ i \in 1..(n + 1 - k) /\ i + 1 \in 1..(n + 1 - k)
          /\ k + i \in 1..n /\ k + i # k /\ k + i \in 0..n
          /\ k + (i + 1) = (k + i) + 1
          /\ (k + i) + 1 \in 1..(n + 1) /\ (k + i) + 1 \notin {1, k + 1}
      BY <2>2, <1>1
    <3> QED
      BY <3>1, <1>4, <1>5, SMTT(30) DEF Parted
  <2> QED
    BY <2>1, <2>2
<1> QED
  BY <1>7, <1>8 DEF RingOf, Halves

\* The heaps K2 and K agree on the nodes of the ring of h.
Same(K2, K, h, s) == K2[h] = K[h] /\ \A i \in 1..Len(s) : K2[s[i]] = K[s[i]]

\* A ring whose pointers nobody writes stays.
LEMMA Untouched ==
  ASSUME NEW K, NEW K2, NEW h \in Heads, NEW s, Row(s), RingOf(K, h, s),
         Same(K2, K, h, s)
  PROVE  RingOf(K2, h, s)
<1>1. Len(s) \in Nat
  BY AtApart
<1>2. \A i \in 0..(Len(s) + 1) : K2[At(h, s, i)] = K[At(h, s, i)]
  BY <1>1 DEF At, Same
<1>3. \A i \in 0..Len(s) : i \in 0..(Len(s) + 1) /\ i + 1 \in 0..(Len(s) + 1)
  BY <1>1
<1> QED
  BY <1>2, <1>3 DEF RingOf

-----------------------------------------------------------------------------
\* The inductive invariant, of a heap K and a promise p: each ring carries its
\* sequence, and no entry is in two of them.
Apart(p) ==
  \A g, h \in Heads : \A i \in 1..Len(p[g]), j \in 1..Len(p[h]) :
    p[g][i] = p[h][j] => g = h

Rings(K, p) ==
  /\ K \in Links(Node)
  /\ p \in [Heads -> Seq(Entries)]
  /\ \A h \in Heads : Row(p[h]) /\ RingOf(K, h, p[h])
  /\ Apart(p)

\* Writing one ring leaves the invariant when it leaves the others alone.
LEMMA OneRing ==
  ASSUME NEW K, NEW p, Rings(K, p), NEW h \in Heads,
         NEW K2 \in Links(Node), NEW r, Row(r), RingOf(K2, h, r),
         \A g \in Heads \ {h} : Same(K2, K, g, p[g]) /\ Disjoint(p[g], r)
  PROVE  Rings(K2, [p EXCEPT ![h] = r])
<1> DEFINE p2 == [p EXCEPT ![h] = r]
<1>1. p \in [Heads -> Seq(Entries)] /\ r \in Seq(Entries)
  BY DEF Rings, Row
<1>2. p2 \in [Heads -> Seq(Entries)] /\ p2[h] = r /\ \A g \in Heads \ {h} : p2[g] = p[g]
  BY <1>1
<1>3. ASSUME NEW g \in Heads \ {h}
      PROVE  Row(p[g]) /\ RingOf(K2, g, p[g])
  <2>1. Row(p[g]) /\ RingOf(K, g, p[g])
    BY DEF Rings
  <2> QED
    BY <2>1, Untouched
<1> HIDE DEF p2
<1>4. \A g \in Heads : Row(p2[g]) /\ RingOf(K2, g, p2[g])
  BY <1>2, <1>3
<1>5. Apart(p2)
  <2> SUFFICES ASSUME NEW f \in Heads, NEW g \in Heads, f # g,
                      NEW i \in 1..Len(p2[f]), NEW j \in 1..Len(p2[g])
               PROVE  p2[f][i] # p2[g][j]
    BY DEF Apart
  <2>1. CASE f \notin {h} /\ g \notin {h}
    BY <2>1, <1>2 DEF Rings, Apart
  <2>2. CASE f = h
    BY <2>2, <1>2 DEF Disjoint
  <2>3. CASE g = h
    BY <2>3, <1>2 DEF Disjoint
  <2> QED
    BY <2>1, <2>2, <2>3
<1> QED
  BY <1>2, <1>4, <1>5 DEF Rings, p2

\* So does writing two.
LEMMA TwoRings ==
  ASSUME NEW K, NEW p, Rings(K, p), NEW h \in Heads, NEW l \in Heads, l # h,
         NEW K2 \in Links(Node), NEW r, NEW r2, Row(r), RingOf(K2, h, r),
         Row(r2), RingOf(K2, l, r2),
         \A g \in Heads \ {h, l} : Same(K2, K, g, p[g]),
         \A g \in Heads \ {h, l} : Disjoint(p[g], r) /\ Disjoint(p[g], r2),
         Disjoint(r, r2)
  PROVE  Rings(K2, [p EXCEPT ![l] = r2, ![h] = r])
<1> DEFINE p2 == [p EXCEPT ![l] = r2, ![h] = r]
<1>1. p \in [Heads -> Seq(Entries)] /\ r \in Seq(Entries) /\ r2 \in Seq(Entries)
  BY DEF Rings, Row
<1>2. /\ p2 \in [Heads -> Seq(Entries)] /\ p2[h] = r /\ p2[l] = r2
      /\ \A g \in Heads \ {h, l} : p2[g] = p[g]
  BY <1>1
<1>3. ASSUME NEW g \in Heads \ {h, l}
      PROVE  Row(p[g]) /\ RingOf(K2, g, p[g])
  <2>1. Row(p[g]) /\ RingOf(K, g, p[g])
    BY DEF Rings
  <2> QED
    BY <2>1, Untouched
<1> HIDE DEF p2
<1>4. \A g \in Heads : Row(p2[g]) /\ RingOf(K2, g, p2[g])
  BY <1>2, <1>3
<1>5. Apart(p2)
  <2> SUFFICES ASSUME NEW f \in Heads, NEW g \in Heads, f # g,
                      NEW i \in 1..Len(p2[f]), NEW j \in 1..Len(p2[g])
               PROVE  p2[f][i] # p2[g][j]
    BY DEF Apart
  <2>1. CASE f \notin {h, l} /\ g \notin {h, l}
    BY <2>1, <1>2 DEF Rings, Apart
  <2>2. CASE f = h
    <3>1. p2[f] = r
      BY <2>2, <1>2
    <3>2. CASE g = l
      BY <3>1, <3>2, <1>2 DEF Disjoint
    <3>3. CASE g # l
      BY <2>2, <3>1, <3>3, <1>2 DEF Disjoint
    <3> QED
      BY <3>2, <3>3
  <2>3. CASE g = h
    <3>1. p2[g] = r
      BY <2>3, <1>2
    <3>2. CASE f = l
      BY <3>1, <3>2, <1>2 DEF Disjoint
    <3>3. CASE f # l
      BY <2>3, <3>1, <3>3, <1>2 DEF Disjoint
    <3> QED
      BY <3>2, <3>3
  <2>4. CASE f = l /\ g # h
    BY <2>4, <1>2 DEF Disjoint
  <2>5. CASE g = l /\ f # h
    BY <2>5, <1>2 DEF Disjoint
  <2> QED
    BY <2>1, <2>2, <2>3, <2>4, <2>5
<1> QED
  BY <1>2, <1>4, <1>5 DEF Rings, p2

\* No node of one ring is a node of another.
LEMMA Foreign ==
  ASSUME NEW K, NEW p, Rings(K, p), NEW h \in Heads, NEW g \in Heads \ {h},
         NEW i \in Int
  PROVE  At(h, p[h], i) # g /\ \A j \in 1..Len(p[g]) : At(h, p[h], i) # p[g][j]
<1>1. Row(p[h]) /\ Row(p[g]) /\ Apart(p)
  BY DEF Rings
<1>2. /\ \A j \in 1..Len(p[h]) : p[h][j] \in Entries
      /\ \A j \in 1..Len(p[g]) : p[g][j] \in Entries
  BY <1>1 DEF Row
<1>3. \A x \in Entries : x # h /\ x # g
  BY RingsAssumption
<1> QED
  BY <1>1, <1>2, <1>3 DEF At, Apart

\* The neighbours of the entry at step k of a ring.
LEMMA Neighbours ==
  ASSUME NEW K, NEW h \in Heads, NEW s, Row(s), RingOf(K, h, s),
         NEW k \in 1..Len(s)
  PROVE  K[s[k]].next = At(h, s, k + 1) /\ K[s[k]].prev = At(h, s, k - 1)
<1>1. Len(s) \in Nat
  BY AtApart
<1>2. k \in 0..Len(s) /\ k - 1 \in 0..Len(s) /\ (k - 1) + 1 = k /\ At(h, s, k) = s[k]
  BY <1>1 DEF At
<1> QED
  BY <1>2 DEF RingOf

\* And those of the head.
LEMMA HeadNeighbours ==
  ASSUME NEW K, NEW h \in Heads, NEW s, Row(s), RingOf(K, h, s)
  PROVE  K[h].next = At(h, s, 1) /\ K[h].prev = At(h, s, Len(s))
<1>1. Len(s) \in Nat
  BY AtApart
<1>2. At(h, s, 0) = h /\ At(h, s, Len(s) + 1) = h
  BY <1>1 DEF At
<1>3. 0 \in 0..Len(s) /\ Len(s) \in 0..Len(s) /\ 0 + 1 = 1
  BY <1>1
<1> QED
  BY <1>2, <1>3 DEF RingOf

\* Without takes one entry out of a row.
LEMMA WithoutIs ==
  ASSUME NEW s, Row(s), NEW k \in 1..Len(s)
  PROVE  /\ Row(Without(s, s[k]))
         /\ Len(Without(s, s[k])) = Len(s) - 1
         /\ \A i \in 1..(k - 1) : Without(s, s[k])[i] = s[i]
         /\ \A i \in k..(Len(s) - 1) : Without(s, s[k])[i] = s[i + 1]
<1> DEFINE a == SubSeq(s, 1, k - 1)
           b == SubSeq(s, k + 1, Len(s))
<1>1. Len(s) \in Nat /\ k \in Nat /\ 1 <= k /\ k <= Len(s) /\ s \in Seq(Entries)
  BY DEF Row
<1>2. Place(s, s[k]) = k
  BY DEF Row, Place
<1>3. \A i \in 1..Len(s) : s[i] \in Entries
  BY <1>1
<1>4. /\ a \in Seq(Entries) /\ Len(a) = k - 1
      /\ \A i \in 1..(k - 1) : a[i] = s[i]
  BY <1>1, <1>3, SubSeqProperties
<1>5. /\ b \in Seq(Entries) /\ Len(b) = Len(s) - k
      /\ \A i \in 1..(Len(s) - k) : b[i] = s[k + i]
  BY <1>1, <1>3, SubSeqProperties
<1> DEFINE r == Without(s, s[k])
<1>6. r = a \o b
  BY <1>2 DEF Without, RemoveAt
<1> HIDE DEF a, b, r
<1>7. /\ r \in Seq(Entries) /\ Len(r) = Len(s) - 1
      /\ \A i \in 1..(Len(s) - 1) : r[i] = IF i <= k - 1 THEN a[i] ELSE b[i - (k - 1)]
  <2>1. /\ r \in Seq(Entries) /\ Len(r) = Len(a) + Len(b)
        /\ \A i \in 1..(Len(a) + Len(b)) : r[i] = IF i <= Len(a) THEN a[i] ELSE b[i - Len(a)]
    BY <1>4, <1>5, <1>6, ConcatProperties
  <2>2. Len(a) + Len(b) = Len(s) - 1
    BY <1>1, <1>4, <1>5
  <2> QED
    BY <2>1, <2>2, <1>4
<1>8. \A i \in 1..(k - 1) : r[i] = s[i]
  BY <1>1, <1>4, <1>7
<1>9. ASSUME NEW i \in k..(Len(s) - 1) PROVE r[i] = s[i + 1]
  <2>1. i \in 1..(Len(s) - 1) /\ ~(i <= k - 1) /\ i - (k - 1) \in 1..(Len(s) - k) /\ k + (i - (k - 1)) = i + 1
    BY <1>1
  <2> QED
    BY <2>1, <1>5, <1>7
<1>10. \A i, j \in 1..Len(r) : r[i] = r[j] => i = j
  <2> SUFFICES ASSUME NEW i \in 1..Len(r), NEW j \in 1..Len(r), r[i] = r[j] PROVE i = j
    OBVIOUS
  <2> DEFINE f(x) == IF x < k THEN x ELSE x + 1
  <2>1. \A x \in 1..Len(r) : r[x] = s[f(x)] /\ f(x) \in 1..Len(s)
    BY <1>1, <1>7, <1>8, <1>9
  <2>2. f(i) = f(j)
    <3> HIDE DEF f
    <3> QED
      BY <2>1 DEF Row
  <2> QED
    BY <2>2, <1>1, <1>7
<1> QED
  BY <1>7, <1>8, <1>9, <1>10 DEF Row, r

\* list_del, and whatever is then stored into the entry itself: the entry is off
\* its ring and the other rings are as they were.
LEMMA DelRings ==
  ASSUME NEW K, NEW p, Rings(K, p), NEW h \in Heads, NEW k \in 1..Len(p[h]),
         NEW e, e = p[h][k], NEW K2 \in Links(Node),
         \A n \in Node \ {e} : K2[n] = list_del(K, e)[n]
  PROVE  Rings(K2, [p EXCEPT ![h] = Without(p[h], e)])
<1> DEFINE s == p[h]
           r == Without(s, e)
           a == At(h, s, k - 1)
           b == At(h, s, k + 1)
<1>1. K \in Links(Node) /\ Row(s) /\ RingOf(K, h, s) /\ Len(s) \in Nat
  BY AtApart DEF Rings
<1>2. e \in Node /\ e \in Entries /\ e = At(h, s, k)
  BY <1>1 DEF Row, Node, At
<1>3. /\ a \in Node /\ b \in Node
      /\ \A i \in Int : At(h, s, i) \in Node
      /\ \A i, j \in 0..Len(s) : At(h, s, i) = At(h, s, j) => i = j
      /\ \A i, j \in 1..(Len(s) + 1) : At(h, s, i) = At(h, s, j) => i = j
  BY <1>1, AtApart
<1>4. K[e].next = b /\ K[e].prev = a
  BY <1>1, Neighbours
<1>5. \A n \in Node \ {e} :
        /\ K2[n].next = IF n = a THEN b ELSE K[n].next
        /\ K2[n].prev = IF n = b THEN a ELSE K[n].prev
  BY <1>1, <1>2, <1>4, DelShape, SMTT(30)
<1>6. \A n \in Node \ {e, a, b} : K2[n] = K[n]
  BY <1>1, <1>2, <1>3, <1>4 DEF list_del, __list_del, Links
<1>7. /\ Row(r) /\ Len(r) = Len(s) - 1
      /\ \A i \in 1..(k - 1) : r[i] = s[i]
      /\ \A i \in k..(Len(s) - 1) : r[i] = s[i + 1]
  BY <1>1, WithoutIs
<1> HIDE DEF s, r, a, b
<1>8. a # e /\ b # e
  <2>1. k - 1 \in 0..Len(s) /\ k \in 0..Len(s) /\ k - 1 # k
    BY <1>1 DEF s
  <2>2. k + 1 \in 1..(Len(s) + 1) /\ k \in 1..(Len(s) + 1) /\ k + 1 # k
    BY <1>1 DEF s
  <2> QED
    BY <2>1, <2>2, <1>2, <1>3 DEF a, b
<1>9. RingOf(K2, h, r)
  <2>1. K2[a].next = b /\ K2[b].prev = a
    BY <1>3, <1>5, <1>8
  <2>2. ASSUME NEW i \in 0..Len(s), i \notin {k - 1, k}
        PROVE  K2[At(h, s, i)].next = K[At(h, s, i)].next
    <3>1. k - 1 \in 0..Len(s) /\ k \in 0..Len(s) /\ i \in Int
      BY <1>1 DEF s
    <3>2. At(h, s, i) # a /\ At(h, s, i) # e /\ At(h, s, i) \in Node
      BY <2>2, <3>1, <1>2, <1>3 DEF a
    <3> QED
      BY <3>2, <1>5
  <2>3. ASSUME NEW i \in 1..(Len(s) + 1), i \notin {k, k + 1}
        PROVE  K2[At(h, s, i)].prev = K[At(h, s, i)].prev
    <3>1. k + 1 \in 1..(Len(s) + 1) /\ k \in 1..(Len(s) + 1) /\ i \in Int
      BY <1>1 DEF s
    <3>2. At(h, s, i) # b /\ At(h, s, i) # e /\ At(h, s, i) \in Node
      BY <2>3, <3>1, <1>2, <1>3 DEF b
    <3> QED
      BY <3>2, <1>5
  <2>4. k \in 1..Len(s)
    BY DEF s
  <2> QED
    BY <2>1, <2>2, <2>3, <2>4, <1>1, <1>7, Pluck DEF a, b
<1>10. ASSUME NEW g \in Heads \ {h}
       PROVE  Same(K2, K, g, p[g])
  <2>1. \A i \in {k - 1, k, k + 1} :
          At(h, s, i) # g /\ \A j \in 1..Len(p[g]) : At(h, s, i) # p[g][j]
    BY Foreign DEF s
  <2>2. g \in Node /\ \A i \in 1..Len(p[g]) : p[g][i] \in Node
    BY DEF Rings, Row, Node
  <2>3. /\ g \notin {e, a, b}
        /\ \A i \in 1..Len(p[g]) : p[g][i] \notin {e, a, b}
    BY <2>1, <1>2 DEF a, b
  <2> QED
    BY <2>2, <2>3, <1>6 DEF Same
<1>11. ASSUME NEW g \in Heads \ {h}, NEW i \in 1..Len(p[g]), NEW j \in 1..Len(r)
       PROVE  p[g][i] # r[j]
  <2>1. PICK m \in 1..Len(s) : r[j] = s[m]
    <3>1. CASE j < k
      BY <3>1, <1>1, <1>7
    <3>2. CASE j >= k
      <4>1. j \in k..(Len(s) - 1) /\ j + 1 \in 1..Len(s)
        BY <3>2, <1>1, <1>7
      <4> QED
        BY <4>1, <1>7
    <3> QED
      BY <3>1, <3>2, <1>7, <1>1
  <2> QED
    BY <2>1 DEF Rings, Apart, s
<1> QED
  BY <1>7, <1>9, <1>10, <1>11, OneRing DEF r, s, Disjoint

\* The heap __list_add leaves, node by node.
LEMMA LinkShape ==
  ASSUME NEW K \in Links(Node), NEW e \in Node, NEW a \in Node, NEW b \in Node,
         e # a, e # b
  PROVE  LET K2 == __list_add(K, e, a, b) IN
         /\ K2 \in Links(Node)
         /\ K2[e].next = b /\ K2[e].prev = a
         /\ K2[a].next = e /\ K2[b].prev = e
         /\ \A n \in Node \ {e, a} : K2[n].next = K[n].next
         /\ \A n \in Node \ {e, b} : K2[n].prev = K[n].prev
         /\ \A n \in Node \ {e, a, b} : K2[n] = K[n]
  BY DEF __list_add, Links

\* __list_add after step k of a ring, of an entry that is on no ring.
LEMMA AddRings ==
  ASSUME NEW K, NEW p, Rings(K, p), NEW h \in Heads, NEW k \in 0..Len(p[h]),
         NEW e \in Entries,
         \A g \in Heads : \A i \in 1..Len(p[g]) : p[g][i] # e,
         NEW r, Len(r) = Len(p[h]) + 1, r \in Seq(Entries),
         \A i \in 1..k : r[i] = p[h][i],
         r[k + 1] = e,
         \A i \in (k + 1)..Len(p[h]) : r[i + 1] = p[h][i]
  PROVE  Rings(__list_add(K, e, At(h, p[h], k), At(h, p[h], k + 1)), [p EXCEPT ![h] = r])
<1> DEFINE s == p[h]
           a == At(h, s, k)
           b == At(h, s, k + 1)
           K2 == __list_add(K, e, a, b)
           t == <<e>>
<1>1. K \in Links(Node) /\ Row(s) /\ RingOf(K, h, s) /\ Len(s) \in Nat
  BY AtApart DEF Rings
<1>2. /\ a \in Node /\ b \in Node
      /\ \A i \in Int : At(h, s, i) \in Node
      /\ \A i, j \in 0..Len(s) : At(h, s, i) = At(h, s, j) => i = j
      /\ \A i, j \in 1..(Len(s) + 1) : At(h, s, i) = At(h, s, j) => i = j
  BY <1>1, AtApart
<1>3. e \in Node /\ e # h /\ \A i \in Int : At(h, s, i) # e
  BY RingsAssumption DEF Node, At
<1>4. /\ K2 \in Links(Node)
      /\ K2[e].next = b /\ K2[e].prev = a
      /\ K2[a].next = e /\ K2[b].prev = e
      /\ \A n \in Node \ {e, a} : K2[n].next = K[n].next
      /\ \A n \in Node \ {e, b} : K2[n].prev = K[n].prev
      /\ \A n \in Node \ {e, a, b} : K2[n] = K[n]
  <2>1. K \in Links(Node) /\ e \in Node /\ a \in Node /\ b \in Node /\ k \in Int /\ k + 1 \in Int
    BY <1>1, <1>2, <1>3
  <2>2. e # a /\ e # b
    BY <2>1, <1>3
  <2> HIDE DEF a, b
  <2> QED
    BY <2>1, <2>2, LinkShape, SMTT(30)
<1>5. Len(t) = 1 /\ t[1] = e /\ Row(t) /\ \A i \in 1..Len(t) : i = 1
  BY DEF Row
<1>6. \A i \in 1..Len(s) : s[i] # e
  OBVIOUS
<1>7. Row(r)
  <2> DEFINE f(x) == IF x <= k THEN x ELSE x - 1
  <2>0. k \in Nat /\ k <= Len(s)
    BY <1>1
  <2>1. \A x \in 1..Len(r) : x # k + 1 => f(x) \in 1..Len(s) /\ r[x] = s[f(x)]
    <3> SUFFICES ASSUME NEW x \in 1..Len(r), x # k + 1
                 PROVE  f(x) \in 1..Len(s) /\ r[x] = s[f(x)]
      OBVIOUS
    <3>1. CASE x <= k
      BY <3>1, <2>0, <1>1
    <3>2. CASE x > k
      <4>1. x - 1 \in (k + 1)..Len(s) /\ (x - 1) + 1 = x /\ x - 1 \in 1..Len(s)
        BY <3>2, <2>0, <1>1
      <4> QED
        BY <3>2, <4>1, <2>0
    <3> QED
      BY <3>1, <3>2, <2>0, <1>1
  <2>2. ASSUME NEW i \in 1..Len(r), NEW j \in 1..Len(r), r[i] = r[j]
        PROVE  i = j
    <3>1. CASE i = k + 1
      BY <3>1, <2>1, <2>2, <1>6
    <3>2. CASE j = k + 1
      BY <3>2, <2>1, <2>2, <1>6
    <3>3. CASE i # k + 1 /\ j # k + 1
      <4>1. f(i) = f(j)
        <5>1. f(i) \in 1..Len(s) /\ f(j) \in 1..Len(s) /\ s[f(i)] = s[f(j)]
          BY <3>3, <2>1, <2>2
        <5> HIDE DEF f, s
        <5> QED
          BY <5>1, <1>1 DEF Row
      <4> QED
        BY <4>1, <3>3, <2>0, <1>1
    <3> QED
      BY <3>1, <3>2, <3>3
  <2> QED
    BY <2>2 DEF Row
<1> HIDE DEF s, a, b, K2, t
<1>8. RingOf(K2, h, r)
  <2>1. ASSUME NEW i \in 0..Len(s), i # k
        PROVE  K2[At(h, s, i)].next = K[At(h, s, i)].next
    <3>1. At(h, s, i) # a /\ At(h, s, i) # e /\ At(h, s, i) \in Node
      BY <2>1, <1>2, <1>3 DEF a, s
    <3> QED
      BY <3>1, <1>4
  <2>2. ASSUME NEW i \in 1..(Len(s) + 1), i # k + 1
        PROVE  K2[At(h, s, i)].prev = K[At(h, s, i)].prev
    <3>0. k + 1 \in 1..(Len(s) + 1) /\ i \in Int
      BY <1>1 DEF s
    <3>1. At(h, s, i) # b /\ At(h, s, i) # e /\ At(h, s, i) \in Node
      BY <2>2, <3>0, <1>2, <1>3 DEF b
    <3> QED
      BY <3>1, <1>4
  <2>3. k \in 0..Len(s) /\ Len(t) > 0 /\ Grafted(r, s, t, k)
    BY <1>5 DEF s, Grafted
  <2>4. Joined(K2, K, h, s, t, k)
    <3>1. \A i \in 1..(Len(t) - 1) : K2[t[i]].next = t[i + 1] /\ K2[t[i + 1]].prev = t[i]
      BY <1>5
    <3>2. /\ K2[At(h, s, k)].next = t[1] /\ K2[t[1]].prev = At(h, s, k)
          /\ K2[At(h, s, k + 1)].prev = t[Len(t)]
          /\ K2[t[Len(t)]].next = At(h, s, k + 1)
      BY <1>4, <1>5 DEF a, b
    <3> QED
      BY <2>1, <2>2, <3>1, <3>2 DEF Joined
  <2> QED
    BY <2>3, <2>4, <1>1, <1>5, Graft
<1>9. ASSUME NEW g \in Heads \ {h}
      PROVE  Same(K2, K, g, p[g])
  <2>0. k \in Int /\ k + 1 \in Int
    OBVIOUS
  <2>1. /\ a # g /\ \A j \in 1..Len(p[g]) : a # p[g][j]
        /\ b # g /\ \A j \in 1..Len(p[g]) : b # p[g][j]
    <3>1. /\ At(h, p[h], k) # g /\ \A j \in 1..Len(p[g]) : At(h, p[h], k) # p[g][j]
      BY <2>0, Foreign
    <3>2. /\ At(h, p[h], k + 1) # g /\ \A j \in 1..Len(p[g]) : At(h, p[h], k + 1) # p[g][j]
      BY <2>0, Foreign
    <3> QED
      BY <3>1, <3>2 DEF s, a, b
  <2>2. g \in Node /\ g # e /\ \A i \in 1..Len(p[g]) : p[g][i] \in Node /\ p[g][i] # e
    BY RingsAssumption DEF Rings, Row, Node
  <2> QED
    BY <2>1, <2>2, <1>4 DEF Same
<1>10. ASSUME NEW g \in Heads \ {h}, NEW i \in 1..Len(p[g]), NEW j \in 1..Len(r)
       PROVE  p[g][i] # r[j]
  <2>1. r[j] = e \/ \E m \in 1..Len(s) : r[j] = s[m]
    <3>1. CASE j <= k
      BY <3>1, <1>1 DEF s
    <3>2. CASE j > k + 1
      <4>1. j - 1 \in (k + 1)..Len(s) /\ (j - 1) + 1 = j /\ j - 1 \in 1..Len(s)
        BY <3>2, <1>1 DEF s
      <4> QED
        BY <4>1 DEF s
    <3> QED
      BY <3>1, <3>2, <1>1 DEF s
  <2> QED
    BY <2>1 DEF Rings, Apart, s
<1>11. \A g \in Heads \ {h} : Disjoint(p[g], r)
  BY <1>10 DEF Disjoint
<1>12. Rings(K2, [p EXCEPT ![h] = r])
  BY <1>4, <1>7, <1>8, <1>9, <1>11, OneRing
<1> QED
  BY <1>12 DEF s, a, b, K2

\* The heap list_replace leaves, node by node.
LEMMA ReplaceShape ==
  ASSUME NEW K \in Links(Node), NEW old \in Node, NEW new \in Node,
         NEW a \in Node, NEW b \in Node, a = K[old].prev, b = K[old].next,
         old \notin {a, b, new}, new \notin {a, b}
  PROVE  LET K2 == list_replace(K, old, new) IN
         /\ K2 \in Links(Node)
         /\ K2[new].next = b /\ K2[new].prev = a
         /\ K2[a].next = new /\ K2[b].prev = new
         /\ \A n \in Node \ {new, a} : K2[n].next = K[n].next
         /\ \A n \in Node \ {new, b} : K2[n].prev = K[n].prev
         /\ \A n \in Node \ {new, a, b} : K2[n] = K[n]
<1> DEFINE F == [K EXCEPT ![new].next = b, ![b].prev = new]
<1>1. /\ F \in Links(Node)
      /\ F[old].prev = a
      /\ F[new].next = b /\ F[new].prev = K[new].prev
      /\ F[b].prev = new /\ F[b].next = K[b].next
      /\ \A n \in Node \ {new, b} : F[n] = K[n]
  BY DEF Links
<1>2. list_replace(K, old, new) = [F EXCEPT ![new].prev = a, ![a].next = new]
  BY <1>1 DEF list_replace
<1> HIDE DEF F
<1> DEFINE K2 == [F EXCEPT ![new].prev = a, ![a].next = new]
<1>3. /\ K2 \in Links(Node)
      /\ K2[new].next = F[new].next /\ K2[new].prev = a
      /\ K2[a].next = new /\ K2[a].prev = F[a].prev
      /\ \A n \in Node \ {new, a} : K2[n] = F[n]
  <2>1. F \in Links(Node)
    BY <1>1
  <2> QED
    BY <2>1 DEF Links
<1> HIDE DEF K2
<1>4. K2[new].next = b /\ K2[new].prev = a /\ K2[a].next = new
  BY <1>1, <1>3
<1>5. K2[b].prev = new
  BY <1>1, <1>3
<1>6. \A n \in Node \ {new, a} : K2[n].next = K[n].next
  BY <1>1, <1>3
<1>7. \A n \in Node \ {new, b} : K2[n].prev = K[n].prev
  BY <1>1, <1>3
<1>8. \A n \in Node \ {new, a, b} : K2[n] = K[n]
  BY <1>1, <1>3
<1> QED
  BY <1>2, <1>3, <1>4, <1>5, <1>6, <1>7, <1>8 DEF K2

\* list_replace of an entry by one that is on no ring, and whatever is then
\* stored into the old one.
LEMMA ReplaceRings ==
  ASSUME NEW K, NEW p, Rings(K, p), NEW h \in Heads, NEW k \in 1..Len(p[h]),
         NEW old, old = p[h][k], NEW new \in Entries,
         \A g \in Heads : \A i \in 1..Len(p[g]) : p[g][i] # new,
         NEW K2 \in Links(Node),
         \A n \in Node \ {old} : K2[n] = list_replace(K, old, new)[n]
  PROVE  Rings(K2, [p EXCEPT ![h] = ReplaceAll(p[h], old, new)])
<1> DEFINE s == p[h]
           r == ReplaceAll(s, old, new)
           a == At(h, s, k - 1)
           b == At(h, s, k + 1)
           K3 == list_replace(K, old, new)
<1>1. K \in Links(Node) /\ Row(s) /\ RingOf(K, h, s) /\ Len(s) \in Nat
  BY AtApart DEF Rings
<1>2. old \in Node /\ old \in Entries /\ old = At(h, s, k)
  BY <1>1 DEF Row, Node, At
<1>3. /\ a \in Node /\ b \in Node
      /\ \A i \in Int : At(h, s, i) \in Node
      /\ \A i, j \in 0..Len(s) : At(h, s, i) = At(h, s, j) => i = j
      /\ \A i, j \in 1..(Len(s) + 1) : At(h, s, i) = At(h, s, j) => i = j
  BY <1>1, AtApart
<1>4. K[old].next = b /\ K[old].prev = a
  BY <1>1, Neighbours
<1>5. new \in Node /\ new # h /\ \A i \in Int : At(h, s, i) # new
  BY RingsAssumption DEF Node, At
<1>6. /\ Row(r) /\ Len(r) = Len(s) /\ r[k] = new
      /\ \A i \in 1..Len(s) : i # k => r[i] = s[i]
  <2>1. s \in Seq(Entries) /\ \A i \in 1..Len(s) : s[i] \in Entries /\ s[i] # new
    BY <1>1 DEF Row
  <2>2. /\ r \in Seq(Entries) /\ Len(r) = Len(s)
        /\ \A i \in 1..Len(s) : r[i] = IF s[i] = old THEN new ELSE s[i]
    BY <2>1, <1>1 DEF ReplaceAll
  <2>3. \A i \in 1..Len(s) : s[i] = old <=> i = k
    BY <1>1 DEF Row
  <2> HIDE DEF r, s
  <2>4. \A i, j \in 1..Len(r) : r[i] = r[j] => i = j
    BY <2>1, <2>2, <2>3, <1>1 DEF Row
  <2> QED
    BY <2>2, <2>3, <2>4 DEF Row, s
<1> HIDE DEF s, r, a, b
<1>7. old \notin {a, b, new} /\ new \notin {a, b}
  <2>1. k - 1 \in 0..Len(s) /\ k \in 0..Len(s) /\ k - 1 # k
    BY <1>1 DEF s
  <2>2. k + 1 \in 1..(Len(s) + 1) /\ k \in 1..(Len(s) + 1) /\ k + 1 # k
    BY <1>1 DEF s
  <2>3. old # a /\ old # b
    BY <2>1, <2>2, <1>2, <1>3 DEF a, b
  <2>4. k \in Int /\ k - 1 \in Int /\ k + 1 \in Int
    BY <1>1
  <2> QED
    BY <2>3, <2>4, <1>2, <1>5 DEF a, b
<1>8. /\ K3[new].next = b /\ K3[new].prev = a
      /\ K3[a].next = new /\ K3[b].prev = new
      /\ \A n \in Node \ {new, a} : K3[n].next = K[n].next
      /\ \A n \in Node \ {new, b} : K3[n].prev = K[n].prev
      /\ \A n \in Node \ {new, a, b} : K3[n] = K[n]
  BY <1>1, <1>2, <1>3, <1>4, <1>5, <1>7, ReplaceShape
<1> HIDE DEF K3
<1>9. \A n \in Node \ {old} : K2[n] = K3[n]
  BY DEF K3
<1>10. RingOf(K2, h, r)
  <2>1. ASSUME NEW i \in 0..Len(s), i \notin {k - 1, k}
        PROVE  K2[At(h, s, i)].next = K[At(h, s, i)].next
    <3>1. k - 1 \in 0..Len(s) /\ k \in 0..Len(s) /\ i \in Int
      BY <1>1 DEF s
    <3>2. At(h, s, i) # a /\ At(h, s, i) # old /\ At(h, s, i) \in Node /\ At(h, s, i) # new
      BY <2>1, <3>1, <1>2, <1>3, <1>5 DEF a
    <3> QED
      BY <3>2, <1>8, <1>9
  <2>2. ASSUME NEW i \in 1..(Len(s) + 1), i \notin {k, k + 1}
        PROVE  K2[At(h, s, i)].prev = K[At(h, s, i)].prev
    <3>1. k + 1 \in 1..(Len(s) + 1) /\ k \in 1..(Len(s) + 1) /\ i \in Int
      BY <1>1 DEF s
    <3>2. At(h, s, i) # b /\ At(h, s, i) # old /\ At(h, s, i) \in Node /\ At(h, s, i) # new
      BY <2>2, <3>1, <1>2, <1>3, <1>5 DEF b
    <3> QED
      BY <3>2, <1>8, <1>9
  <2>3. /\ \A i \in 0..Len(s) : i \notin {k - 1, k} => K2[At(h, s, i)].next = K[At(h, s, i)].next
        /\ \A i \in 1..(Len(s) + 1) : i \notin {k, k + 1} => K2[At(h, s, i)].prev = K[At(h, s, i)].prev
    BY <2>1, <2>2
  <2>4. /\ K2[new].next = At(h, s, k + 1) /\ K2[new].prev = At(h, s, k - 1)
        /\ K2[At(h, s, k - 1)].next = new /\ K2[At(h, s, k + 1)].prev = new
    BY <1>3, <1>5, <1>7, <1>8, <1>9 DEF a, b
  <2>5. k \in 1..Len(s)
    BY DEF s
  <2>6. /\ K2[r[k]].next = At(h, s, k + 1) /\ K2[r[k]].prev = At(h, s, k - 1)
        /\ K2[At(h, s, k - 1)].next = r[k] /\ K2[At(h, s, k + 1)].prev = r[k]
    BY <2>4, <1>6
  <2>7. Row(s) /\ RingOf(K, h, s) /\ Len(r) = Len(s) /\ \A i \in 1..Len(s) : i # k => r[i] = s[i]
    BY <1>1, <1>6
  <2> QED
    BY <2>3, <2>5, <2>6, <2>7, Exchange, Zenon
<1>11. ASSUME NEW g \in Heads \ {h}
       PROVE  Same(K2, K, g, p[g])
  <2>1. \A i \in {k - 1, k, k + 1} :
          At(h, s, i) # g /\ \A j \in 1..Len(p[g]) : At(h, s, i) # p[g][j]
    BY Foreign DEF s
  <2>2. g \in Node /\ \A i \in 1..Len(p[g]) : p[g][i] \in Node /\ p[g][i] # new
    BY DEF Rings, Row, Node
  <2>3. g # new
    BY RingsAssumption
  <2>4. /\ g \notin {old, a, b}
        /\ \A i \in 1..Len(p[g]) : p[g][i] \notin {old, a, b}
    BY <2>1, <1>2 DEF a, b
  <2> QED
    BY <2>2, <2>3, <2>4, <1>8, <1>9 DEF Same
<1>12. ASSUME NEW g \in Heads \ {h}, NEW i \in 1..Len(p[g]), NEW j \in 1..Len(r)
       PROVE  p[g][i] # r[j]
  <2>1. r[j] = new \/ (j \in 1..Len(s) /\ r[j] = s[j])
    BY <1>6
  <2> QED
    BY <2>1 DEF Rings, Apart, s
<1> QED
  BY <1>6, <1>10, <1>11, <1>12, OneRing DEF r, s, Disjoint

\* One row set into another.
LEMMA GraftRow ==
  ASSUME NEW s, NEW t, NEW r, Row(s), Row(t), NEW k \in 0..Len(s),
         Disjoint(s, t), r \in Seq(Entries), Grafted(r, s, t, k)
  PROVE  /\ Row(r)
         /\ \A x \in 1..Len(r) : \/ \E i \in 1..Len(s) : r[x] = s[i]
                                 \/ \E j \in 1..Len(t) : r[x] = t[j]
<1> DEFINE n == Len(s)
           m == Len(t)
           f(x) == IF x <= k THEN x ELSE x - m
           In(x) == x > k /\ x <= k + m
<1>1. n \in Nat /\ m \in Nat /\ k \in Nat /\ k <= n /\ Len(r) = n + m
  BY DEF Row, Grafted
<1>2. ASSUME NEW x \in 1..Len(r), In(x)
      PROVE  x - k \in 1..m /\ r[x] = t[x - k]
  <2>1. x - k \in 1..m /\ k + (x - k) = x
    BY <1>1, <1>2
  <2> QED
    BY <2>1 DEF Grafted
<1>3. ASSUME NEW x \in 1..Len(r), ~In(x)
      PROVE  f(x) \in 1..n /\ r[x] = s[f(x)]
  <2>1. CASE x <= k
    BY <2>1, <1>1 DEF Grafted
  <2>2. CASE x > k
    <3>1. x - m \in (k + 1)..n /\ (x - m) + m = x /\ x - m \in 1..n /\ f(x) = x - m
      BY <2>2, <1>1, <1>3
    <3> QED
      BY <3>1 DEF Grafted
  <2> QED
    BY <2>1, <2>2, <1>1
<1>4. \A i, j \in 1..n : s[i] = s[j] => i = j
  BY DEF Row
<1>5. \A i, j \in 1..m : t[i] = t[j] => i = j
  BY DEF Row
<1>6. ASSUME NEW x \in 1..Len(r), NEW y \in 1..Len(r), r[x] = r[y]
      PROVE  x = y
  <2>1. CASE In(x) /\ In(y)
    <3>1. x - k = y - k
      <4>1. t[x - k] = t[y - k] /\ x - k \in 1..m /\ y - k \in 1..m
        BY <2>1, <1>2, <1>6
      <4> QED
        BY <4>1, <1>5
    <3> QED
      BY <3>1, <1>1
  <2>2. CASE ~In(x) /\ ~In(y)
    <3>1. f(x) = f(y)
      <4>1. s[f(x)] = s[f(y)] /\ f(x) \in 1..n /\ f(y) \in 1..n
        <5> HIDE DEF f, In
        <5> QED
          BY <2>2, <1>3, <1>6
      <4> HIDE DEF f
      <4> QED
        BY <4>1, <1>4
    <3> QED
      BY <3>1, <2>2, <1>1
  <2>3. CASE In(x) /\ ~In(y)
    <3>1. t[x - k] = s[f(y)] /\ x - k \in 1..m /\ f(y) \in 1..n
      <4> HIDE DEF f, In
      <4> QED
        BY <2>3, <1>2, <1>3, <1>6
    <3> HIDE DEF f
    <3> QED
      BY <3>1 DEF Disjoint
  <2>4. CASE ~In(x) /\ In(y)
    <3>1. t[y - k] = s[f(x)] /\ y - k \in 1..m /\ f(x) \in 1..n
      <4> HIDE DEF f, In
      <4> QED
        BY <2>4, <1>2, <1>3, <1>6
    <3> HIDE DEF f
    <3> QED
      BY <3>1 DEF Disjoint
  <2> QED
    BY <2>1, <2>2, <2>3, <2>4
<1>7. Row(r)
  BY <1>6 DEF Row
<1>8. ASSUME NEW x \in 1..Len(r)
      PROVE  \/ \E i \in 1..Len(s) : r[x] = s[i]
             \/ \E j \in 1..Len(t) : r[x] = t[j]
  <2> HIDE DEF f, In
  <2> QED
    BY <1>2, <1>3
<1> QED
  BY <1>7, <1>8

\* The heap __list_splice and INIT_LIST_HEAD of the emptied head leave, node by
\* node: f to z are chained between a and b.
Spliced(K2, K, l, a, b, f, z) ==
  /\ K2 \in Links(Node)
  /\ K2[l].next = l /\ K2[l].prev = l
  /\ K2[f].prev = a /\ K2[a].next = f
  /\ K2[z].next = b /\ K2[b].prev = z
  /\ \A n \in Node \ {l, a, z} : K2[n].next = K[n].next
  /\ \A n \in Node \ {l, b, f} : K2[n].prev = K[n].prev
  /\ \A n \in Node \ {l, a, b, f, z} : K2[n] = K[n]

\* That is the heap they leave.
LEMMA SpliceShape ==
  ASSUME NEW K \in Links(Node), NEW l \in Node, NEW a \in Node, NEW b \in Node,
         NEW f \in Node, NEW z \in Node, K[l].next = f, K[l].prev = z,
         l \notin {a, b, f, z}, f \notin {a, b}, z \notin {a, b}
  PROVE  Spliced(INIT_LIST_HEAD(__list_splice(K, l, a, b), l), K, l, a, b, f, z)
<1> DEFINE F == [K EXCEPT ![f].prev = a, ![a].next = f]
           G == [F EXCEPT ![z].next = b, ![b].prev = z]
           K2 == [G EXCEPT ![l] = [next |-> l, prev |-> l]]
<1>1. /\ F \in Links(Node)
      /\ F[f].prev = a /\ F[f].next = K[f].next
      /\ F[a].next = f /\ F[a].prev = K[a].prev
      /\ \A n \in Node \ {f, a} : F[n] = K[n]
  BY DEF Links
<1>2. __list_splice(K, l, a, b) = G
  BY DEF __list_splice
<1>3. K2 = INIT_LIST_HEAD(__list_splice(K, l, a, b), l)
  BY <1>2 DEF INIT_LIST_HEAD
<1> HIDE DEF F
<1>4. /\ G \in Links(Node)
      /\ G[z].next = b /\ G[z].prev = F[z].prev
      /\ G[b].prev = z /\ G[b].next = F[b].next
      /\ \A n \in Node \ {z, b} : G[n] = F[n]
  <2>1. F \in Links(Node)
    BY <1>1
  <2> QED
    BY <2>1 DEF Links
<1> HIDE DEF G
<1>5. /\ K2 \in Links(Node)
      /\ K2[l].next = l /\ K2[l].prev = l
      /\ \A n \in Node \ {l} : K2[n] = G[n]
  <2>1. G \in Links(Node)
    BY <1>4
  <2> QED
    BY <2>1 DEF Links
<1> HIDE DEF K2
<1>6. K2[f].prev = a
  BY <1>1, <1>4, <1>5
<1>7. K2[a].next = f
  BY <1>1, <1>4, <1>5
<1>8. K2[z].next = b
  BY <1>1, <1>4, <1>5
<1>9. K2[b].prev = z
  BY <1>1, <1>4, <1>5
<1>10. \A n \in Node \ {l, a, z} : K2[n].next = K[n].next
  BY <1>1, <1>4, <1>5
<1>11. \A n \in Node \ {l, b, f} : K2[n].prev = K[n].prev
  BY <1>1, <1>4, <1>5
<1>12. \A n \in Node \ {l, a, b, f, z} : K2[n] = K[n]
  BY <1>1, <1>4, <1>5
<1> QED
  BY <1>3, <1>5, <1>6, <1>7, <1>8, <1>9, <1>10, <1>11, <1>12 DEF Spliced

\* The ring of an empty head.
LEMMA EmptyRing ==
  ASSUME NEW K, NEW l \in Heads, K[l].next = l, K[l].prev = l
  PROVE  Row(<<>>) /\ RingOf(K, l, <<>>)
<1>1. Len(<<>>) = 0 /\ <<>> \in Seq(Entries)
  OBVIOUS
<1>2. \A i \in Int : At(l, <<>>, i) = l
  BY <1>1 DEF At
<1> QED
  BY <1>1, <1>2 DEF Row, RingOf

\* __list_splice of the list of head l after step k of the ring of head h.
LEMMA SpliceRings ==
  ASSUME NEW K, NEW p, Rings(K, p), NEW h \in Heads, NEW l \in Heads, l # h,
         NEW k \in 0..Len(p[h]), Len(p[l]) > 0,
         NEW r \in Seq(Entries), Grafted(r, p[h], p[l], k)
  PROVE  Rings(INIT_LIST_HEAD(__list_splice(K, l, At(h, p[h], k), At(h, p[h], k + 1)), l),
               [p EXCEPT ![l] = <<>>, ![h] = r])
<1> DEFINE s == p[h]
           t == p[l]
           m == Len(t)
           a == At(h, s, k)
           b == At(h, s, k + 1)
           f == t[1]
           z == t[m]
           K2 == INIT_LIST_HEAD(__list_splice(K, l, a, b), l)
<1>1. K \in Links(Node) /\ Row(s) /\ RingOf(K, h, s) /\ Len(s) \in Nat
  BY AtApart DEF Rings
<1>2. Row(t) /\ RingOf(K, l, t) /\ m \in Nat /\ m > 0
  BY AtApart DEF Rings
<1>3. /\ a \in Node /\ b \in Node
      /\ \A i \in Int : At(h, s, i) \in Node
      /\ \A i, j \in 0..Len(s) : At(h, s, i) = At(h, s, j) => i = j
      /\ \A i, j \in 1..(Len(s) + 1) : At(h, s, i) = At(h, s, j) => i = j
  BY <1>1, AtApart
<1>4. l \in Node /\ \A i \in 1..m : t[i] \in Node /\ t[i] # l
  BY <1>2, RingsAssumption DEF Row, Node
<1>5. \A i \in Int : At(h, s, i) # l /\ \A j \in 1..m : At(h, s, i) # t[j]
  BY Foreign
<1>6. \A i \in 1..Len(s) : At(h, s, i) = s[i]
  BY DEF At
<1>7. 1 \in 1..m /\ m \in 1..m /\ k \in Int /\ k + 1 \in Int
  BY <1>2
<1>8. K[l].next = f /\ K[l].prev = z
  <2>1. At(l, t, 1) = f /\ At(l, t, m) = z
    BY <1>7 DEF At
  <2> QED
    BY <2>1, <1>2, HeadNeighbours
<1> HIDE DEF s, t, m, a, b, K2
<1>9. l \notin {a, b, f, z} /\ f \notin {a, b} /\ z \notin {a, b} /\ f \in Node /\ z \in Node
  BY <1>4, <1>5, <1>7 DEF a, b
<1>10. Spliced(K2, K, l, a, b, f, z)
  <2> HIDE DEF f, z
  <2> QED
    BY <1>1, <1>3, <1>4, <1>8, <1>9, SpliceShape DEF K2
<1>11. Disjoint(s, t)
  BY <1>1, <1>5, <1>6 DEF m, Disjoint
<1>12. k \in 0..Len(s) /\ Len(t) > 0 /\ Grafted(r, s, t, k)
  BY DEF s, t
<1>13. /\ Row(r)
       /\ \A x \in 1..Len(r) : \/ \E i \in 1..Len(s) : r[x] = s[i]
                               \/ \E j \in 1..Len(t) : r[x] = t[j]
  BY <1>1, <1>2, <1>11, <1>12, GraftRow
<1>14. RingOf(K2, h, r)
  <2>1. \A i \in 0..Len(s) : i # k => K2[At(h, s, i)].next = K[At(h, s, i)].next
    <3> SUFFICES ASSUME NEW i \in 0..Len(s), i # k
                 PROVE  K2[At(h, s, i)].next = K[At(h, s, i)].next
      OBVIOUS
    <3>1. At(h, s, i) # a /\ At(h, s, i) # l /\ At(h, s, i) # z /\ At(h, s, i) \in Node
      BY <1>3, <1>5, <1>7, <1>12 DEF a
    <3> QED
      BY <3>1, <1>10 DEF Spliced
  <2>2. \A i \in 1..(Len(s) + 1) : i # k + 1 => K2[At(h, s, i)].prev = K[At(h, s, i)].prev
    <3> SUFFICES ASSUME NEW i \in 1..(Len(s) + 1), i # k + 1
                 PROVE  K2[At(h, s, i)].prev = K[At(h, s, i)].prev
      OBVIOUS
    <3>0. k + 1 \in 1..(Len(s) + 1) /\ i \in Int
      BY <1>1, <1>12
    <3>1. At(h, s, i) # b /\ At(h, s, i) # l /\ At(h, s, i) # f /\ At(h, s, i) \in Node
      BY <3>0, <1>3, <1>5, <1>7 DEF b
    <3> QED
      BY <3>1, <1>10 DEF Spliced
  <2>3. \A i \in 1..(Len(t) - 1) : K2[t[i]].next = t[i + 1] /\ K2[t[i + 1]].prev = t[i]
    <3> SUFFICES ASSUME NEW i \in 1..(m - 1)
                 PROVE  K2[t[i]].next = t[i + 1] /\ K2[t[i + 1]].prev = t[i]
      BY DEF m
    <3>1. /\ i \in 1..m /\ i + 1 \in 1..m /\ i # m /\ i + 1 # 1
          /\ i + 1 = i + 1 /\ (i + 1) - 1 = i
      BY <1>2
    <3>2. At(l, t, i) = t[i] /\ At(l, t, i + 1) = t[i + 1]
      BY <3>1 DEF At, m
    <3>3. K[t[i]].next = t[i + 1] /\ K[t[i + 1]].prev = t[i]
      BY <3>1, <3>2, <1>2, Neighbours DEF m
    <3>4. t[i] # z /\ t[i + 1] # f
      BY <3>1, <1>2, <1>7 DEF Row, m
    <3>5. t[i] \in Node \ {l, a, z} /\ t[i + 1] \in Node \ {l, b, f}
      BY <3>1, <3>4, <1>4, <1>5, <1>7 DEF a, b
    <3> QED
      BY <3>3, <3>5, <1>10 DEF Spliced
  <2>4. /\ K2[At(h, s, k)].next = t[1] /\ K2[t[1]].prev = At(h, s, k)
        /\ K2[At(h, s, k + 1)].prev = t[Len(t)]
        /\ K2[t[Len(t)]].next = At(h, s, k + 1)
    BY <1>10 DEF a, b, m, Spliced
  <2>5. Joined(K2, K, h, s, t, k)
    BY <2>1, <2>2, <2>3, <2>4 DEF Joined
  <2> QED
    BY <2>5, <1>1, <1>2, <1>12, Graft
<1>15. Row(<<>>) /\ RingOf(K2, l, <<>>)
  BY <1>10, EmptyRing DEF Spliced
<1>16. ASSUME NEW g \in Heads \ {h, l}
       PROVE  Same(K2, K, g, p[g])
  <2>1. \A i \in Int : At(h, s, i) # g /\ \A j \in 1..Len(p[g]) : At(h, s, i) # p[g][j]
    BY Foreign DEF s
  <2>2. \A i \in 1..m : t[i] # g /\ \A j \in 1..Len(p[g]) : t[i] # p[g][j]
    <3>1. \A i \in Int : At(l, t, i) # g /\ \A j \in 1..Len(p[g]) : At(l, t, i) # p[g][j]
      BY Foreign DEF t
    <3>2. \A i \in 1..m : At(l, t, i) = t[i] /\ i \in Int
      BY DEF At, m
    <3> QED
      BY <3>1, <3>2
  <2>3. g \in Node /\ \A i \in 1..Len(p[g]) : p[g][i] \in Node /\ p[g][i] # l
    BY RingsAssumption DEF Rings, Row, Node
  <2>4. g \notin {l, a, b, f, z}
    BY <2>1, <2>2, <1>7 DEF a, b
  <2>5. \A i \in 1..Len(p[g]) : p[g][i] \notin {l, a, b, f, z}
    BY <2>1, <2>2, <2>3, <1>7 DEF a, b
  <2> QED
    BY <2>3, <2>4, <2>5, <1>10 DEF Same, Spliced
<1>17. ASSUME NEW g \in Heads \ {h, l}
       PROVE  Disjoint(p[g], r)
  <2>1. Apart(p) /\ h \in Heads /\ l \in Heads /\ g \in Heads /\ g # h /\ g # l
    BY DEF Rings
  <2>2. Disjoint(p[g], s) /\ Disjoint(p[g], t)
    BY <2>1 DEF Apart, Disjoint, s, t
  <2> QED
    BY <1>13, <2>2 DEF Disjoint
<1>18. Disjoint(r, <<>>) /\ \A g \in Heads : Disjoint(p[g], <<>>)
  BY DEF Disjoint
<1> QED
  <2>1. Rings(K2, [p EXCEPT ![l] = <<>>, ![h] = r])
    <3>1. K2 \in Links(Node)
      BY <1>10 DEF Spliced
    <3> QED
      BY <3>1, <1>13, <1>14, <1>15, <1>16, <1>17, <1>18, TwoRings
  <2> QED
    BY <2>1 DEF K2, a, b, s

\* The heap __list_cut_position leaves, node by node: f to e hang on l, and h
\* goes on with z.
CutOff(K2, K, l, h, f, e, z) ==
  /\ K2 \in Links(Node)
  /\ K2[l].next = f /\ K2[l].prev = e
  /\ K2[f].prev = l /\ K2[e].next = l
  /\ K2[h].next = z /\ K2[z].prev = h
  /\ \A n \in Node \ {l, e, h} : K2[n].next = K[n].next
  /\ \A n \in Node \ {l, f, z} : K2[n].prev = K[n].prev
  /\ \A n \in Node \ {l, h, f, e, z} : K2[n] = K[n]

\* That is the heap it leaves.
LEMMA CutShape ==
  ASSUME NEW K \in Links(Node), NEW l \in Node, NEW h \in Node, NEW f \in Node,
         NEW e \in Node, NEW z \in Node, f = K[h].next, z = K[e].next,
         l \notin {h, f, e, z}, f # z, f # h, e # h
  PROVE  CutOff(__list_cut_position(K, l, h, e), K, l, h, f, e, z)
<1> DEFINE F == [K EXCEPT ![l].next = f, ![f].prev = l]
           G == [F EXCEPT ![l].prev = e, ![e].next = l]
           K2 == [G EXCEPT ![h].next = z, ![z].prev = h]
<1>1. K2 = __list_cut_position(K, l, h, e)
  BY DEF __list_cut_position
<1>2. /\ F \in Links(Node)
      /\ F[l].next = f /\ F[l].prev = K[l].prev
      /\ F[f].prev = l /\ F[f].next = K[f].next
      /\ \A n \in Node \ {f, l} : F[n] = K[n]
  BY DEF Links
<1> HIDE DEF F
<1>3. /\ G \in Links(Node)
      /\ G[l].next = F[l].next /\ G[l].prev = e
      /\ G[e].next = l /\ G[e].prev = F[e].prev
      /\ \A n \in Node \ {e, l} : G[n] = F[n]
  <2>1. F \in Links(Node)
    BY <1>2
  <2> QED
    BY <2>1 DEF Links
<1> HIDE DEF G
<1>4. /\ K2 \in Links(Node)
      /\ K2[h].next = z /\ K2[z].prev = h
      /\ \A n \in Node \ {h} : K2[n].next = G[n].next
      /\ \A n \in Node \ {z} : K2[n].prev = G[n].prev
      /\ \A n \in Node \ {h, z} : K2[n] = G[n]
  <2>1. G \in Links(Node)
    BY <1>3
  <2> QED
    BY <2>1, SMTT(30) DEF Links
<1> HIDE DEF K2
<1>5. K2[l].next = f /\ K2[l].prev = e
  BY <1>2, <1>3, <1>4
<1>6. K2[f].prev = l
  BY <1>2, <1>3, <1>4
<1>7. K2[e].next = l
  BY <1>2, <1>3, <1>4
<1>8. \A n \in Node \ {l, e, h} : K2[n].next = K[n].next
  BY <1>2, <1>3, <1>4
<1>9. \A n \in Node \ {l, f, z} : K2[n].prev = K[n].prev
  BY <1>2, <1>3, <1>4
<1>10. \A n \in Node \ {l, h, f, e, z} : K2[n] = K[n]
  BY <1>2, <1>3, <1>4
<1> QED
  BY <1>1, <1>4, <1>5, <1>6, <1>7, <1>8, <1>9, <1>10 DEF CutOff

\* A part of a row is a row.
LEMMA PartRow ==
  ASSUME NEW s, Row(s), NEW m \in 1..(Len(s) + 1), NEW n \in 0..Len(s), m <= n + 1
  PROVE  LET r == SubSeq(s, m, n) IN
         /\ Row(r) /\ Len(r) = (n - m) + 1
         /\ \A i \in 1..Len(r) : (m + i) - 1 \in m..n /\ r[i] = s[(m + i) - 1]
<1> DEFINE r == SubSeq(s, m, n)
<1>1. Len(s) \in Nat /\ \A i \in m..n : s[i] \in Entries
  BY DEF Row
<1>2. /\ r \in Seq(Entries) /\ Len(r) = (n - m) + 1
      /\ \A i \in 1..((n - m) + 1) : r[i] = s[(m + i) - 1]
  BY <1>1, SubSeqProperties
<1> HIDE DEF r
<1>3. \A i \in 1..Len(r) : (m + i) - 1 \in m..n /\ (m + i) - 1 \in 1..Len(s) /\ r[i] = s[(m + i) - 1]
  BY <1>1, <1>2
<1>4. ASSUME NEW i \in 1..Len(r), NEW j \in 1..Len(r), r[i] = r[j]
      PROVE  i = j
  <2>1. (m + i) - 1 = (m + j) - 1
    BY <1>3, <1>4 DEF Row
  <2> QED
    BY <2>1, <1>2
<1> QED
  BY <1>2, <1>3, <1>4 DEF Row, r

\* __list_cut_position after step k of the ring of head h, into the empty list
\* of head l.
LEMMA CutRings ==
  ASSUME NEW K, NEW p, Rings(K, p), NEW h \in Heads, NEW l \in Heads, l # h,
         p[l] = <<>>, NEW k \in 1..Len(p[h])
  PROVE  Rings(__list_cut_position(K, l, h, p[h][k]),
               [p EXCEPT ![l] = SubSeq(p[h], 1, k),
                         ![h] = SubSeq(p[h], k + 1, Len(p[h]))])
<1> DEFINE s == p[h]
           e == s[k]
           f == s[1]
           z == At(h, s, k + 1)
           r == SubSeq(s, 1, k)
           r2 == SubSeq(s, k + 1, Len(s))
           K2 == __list_cut_position(K, l, h, e)
<1>1. K \in Links(Node) /\ Row(s) /\ RingOf(K, h, s) /\ Len(s) \in Nat
  BY AtApart DEF Rings
<1>2. /\ \A i \in Int : At(h, s, i) \in Node
      /\ \A i, j \in 0..Len(s) : At(h, s, i) = At(h, s, j) => i = j
      /\ \A i, j \in 1..(Len(s) + 1) : At(h, s, i) = At(h, s, j) => i = j
  BY <1>1, AtApart
<1>3. \A i \in 1..Len(s) : At(h, s, i) = s[i] /\ s[i] # h
  BY <1>1, RingsAssumption DEF At, Row
<1>4. \A i \in Int : At(h, s, i) # l
  BY Foreign
<1>5. k \in Nat /\ 1 <= k /\ k <= Len(s) /\ k \in 1..Len(s) /\ 1 \in 1..Len(s)
  BY <1>1
<1>6. K[h].next = f /\ K[e].next = z
  BY <1>1, <1>3, <1>5, Neighbours, HeadNeighbours
<1> HIDE DEF s, r, r2, K2, z
<1>7. 1 \in 1..(Len(s) + 1) /\ k \in 1..(Len(s) + 1) /\ k + 1 \in 1..(Len(s) + 1) /\ 1 # k + 1
  BY <1>5, <1>1
<1>8. /\ f = At(h, s, 1) /\ e = At(h, s, k)
      /\ l \notin {h, f, e, z} /\ f # z /\ f # h /\ e # h
      /\ l \in Node /\ h \in Node /\ f \in Node /\ e \in Node /\ z \in Node
  BY <1>2, <1>3, <1>4, <1>5, <1>7 DEF Node, z
<1>9. CutOff(K2, K, l, h, f, e, z)
  <2> HIDE DEF e, f
  <2> QED
    BY <1>1, <1>6, <1>8, CutShape DEF K2
<1>10. Row(r) /\ Len(r) = k /\ \A i \in 1..k : r[i] = s[i]
  <2>1. /\ Row(r) /\ Len(r) = (k - 1) + 1
        /\ \A i \in 1..Len(r) : r[i] = s[(1 + i) - 1]
    BY <1>1, <1>5, <1>7, PartRow DEF r
  <2> QED
    BY <2>1, <1>5
<1>11. Row(r2) /\ Len(r2) = Len(s) - k /\ \A i \in 1..(Len(s) - k) : r2[i] = s[k + i]
  <2>1. /\ Row(r2) /\ Len(r2) = (Len(s) - (k + 1)) + 1
        /\ \A i \in 1..Len(r2) : r2[i] = s[((k + 1) + i) - 1]
    <3>1. k + 1 \in 1..(Len(s) + 1) /\ Len(s) \in 0..Len(s) /\ k + 1 <= Len(s) + 1
      BY <1>1, <1>5
    <3> QED
      BY <3>1, <1>1, PartRow, Zenon DEF r2
  <2>2. (Len(s) - (k + 1)) + 1 = Len(s) - k /\ \A i \in Int : ((k + 1) + i) - 1 = k + i
    BY <1>1, <1>5
  <2> QED
    <3>1. \A i \in 1..(Len(s) - k) : i \in Int /\ i \in 1..Len(r2)
      BY <2>1, <2>2
    <3> QED
      BY <2>1, <2>2, <3>1
<1>12. RingOf(K2, l, r) /\ RingOf(K2, h, r2)
  <2>1. \A i \in 1..Len(s) : i # k => K2[At(h, s, i)].next = K[At(h, s, i)].next
    <3> SUFFICES ASSUME NEW i \in 1..Len(s), i # k
                 PROVE  K2[At(h, s, i)].next = K[At(h, s, i)].next
      OBVIOUS
    <3>1. i \in 0..Len(s) /\ k \in 0..Len(s) /\ i \in Int
      BY <1>5, <1>1
    <3>2. At(h, s, i) \notin {l, e, h} /\ At(h, s, i) \in Node
      BY <3>1, <1>2, <1>3, <1>4, <1>8
    <3> QED
      BY <3>2, <1>9 DEF CutOff
  <2>2. \A i \in 1..(Len(s) + 1) : i \notin {1, k + 1} => K2[At(h, s, i)].prev = K[At(h, s, i)].prev
    <3> SUFFICES ASSUME NEW i \in 1..(Len(s) + 1), i # 1, i # k + 1
                 PROVE  K2[At(h, s, i)].prev = K[At(h, s, i)].prev
      OBVIOUS
    <3>1. At(h, s, i) \notin {l, f, z} /\ At(h, s, i) \in Node
      BY <1>2, <1>4, <1>7, <1>8 DEF z
    <3> QED
      BY <3>1, <1>9 DEF CutOff
  <2>3. /\ K2[l].next = s[1] /\ K2[s[1]].prev = l
        /\ K2[l].prev = s[k] /\ K2[s[k]].next = l
        /\ K2[h].next = At(h, s, k + 1) /\ K2[At(h, s, k + 1)].prev = h
    BY <1>9 DEF CutOff, z
  <2>4. Parted(K2, K, h, l, s, k)
    BY <2>1, <2>2, <2>3 DEF Parted
  <2>5. Halves(r, r2, s, k)
    BY <1>10, <1>11 DEF Halves
  <2> QED
    BY <2>4, <2>5, <1>1, <1>5, Split
<1>13. ASSUME NEW g \in Heads \ {h, l}
       PROVE  Same(K2, K, g, p[g])
  <2>1. \A i \in Int : At(h, s, i) # g /\ \A j \in 1..Len(p[g]) : At(h, s, i) # p[g][j]
    BY Foreign DEF s
  <2>2. g \in Node /\ \A i \in 1..Len(p[g]) : p[g][i] \in Node /\ p[g][i] # l /\ p[g][i] # h
    BY RingsAssumption DEF Rings, Row, Node
  <2>3. g \notin {l, h, f, e, z}
    BY <2>1, <1>5, <1>8 DEF z
  <2>4. \A i \in 1..Len(p[g]) : p[g][i] \notin {l, h, f, e, z}
    BY <2>1, <2>2, <1>5, <1>8 DEF z
  <2> QED
    BY <2>2, <2>3, <2>4, <1>9 DEF Same, CutOff
<1>14. /\ \A i \in 1..Len(r) : i \in 1..Len(s) /\ i <= k /\ r[i] = s[i]
       /\ \A i \in 1..Len(r2) : k + i \in 1..Len(s) /\ k + i > k /\ r2[i] = s[k + i]
  BY <1>1, <1>5, <1>10, <1>11
<1>15. ASSUME NEW g \in Heads \ {h, l}
       PROVE  Disjoint(p[g], r) /\ Disjoint(p[g], r2)
  <2>1. Disjoint(p[g], s)
    BY DEF Rings, Apart, Disjoint, s
  <2> QED
    BY <2>1, <1>14 DEF Disjoint
<1>16. Disjoint(r2, r)
  <2> SUFFICES ASSUME NEW i \in 1..Len(r2), NEW j \in 1..Len(r), r2[i] = r[j]
               PROVE  FALSE
    BY DEF Disjoint
  <2>1. s[k + i] = s[j] /\ k + i \in 1..Len(s) /\ j \in 1..Len(s)
    BY <1>14
  <2>2. k + i = j
    BY <2>1, <1>1 DEF Row
  <2> QED
    BY <2>2, <1>5, <1>14
<1>17. K2 \in Links(Node)
  BY <1>9 DEF CutOff
<1>18. Rings(K2, [p EXCEPT ![l] = r, ![h] = r2])
  BY <1>10, <1>11, <1>12, <1>13, <1>15, <1>16, <1>17, TwoRings
<1> QED
  BY <1>18 DEF K2, r, r2, s

-----------------------------------------------------------------------------
\* The calls of list.h, from the stores above.

\* e is on none of the lists.
Unlisted(p, e) == \A g \in Heads : \A i \in 1..Len(p[g]) : p[g][i] # e

\* list_add makes the entry the first.
LEMMA AddFirst ==
  ASSUME NEW K, NEW p, Rings(K, p), NEW h \in Heads, NEW e \in Entries, Unlisted(p, e)
  PROVE  Rings(list_add(K, e, h), [p EXCEPT ![h] = <<e>> \o p[h]])
<1> DEFINE s == p[h]
           r == <<e>> \o s
<1>1. Row(s) /\ RingOf(K, h, s) /\ s \in Seq(Entries) /\ Len(s) \in Nat
  BY DEF Rings, Row
<1>2. /\ r \in Seq(Entries) /\ Len(r) = Len(s) + 1 /\ r[1] = e
      /\ \A i \in 1..Len(s) : r[i + 1] = s[i]
  BY <1>1
<1>3. At(h, s, 0) = h /\ K[h].next = At(h, s, 1)
  BY <1>1, HeadNeighbours DEF At
<1>4. list_add(K, e, h) = __list_add(K, e, At(h, s, 0), At(h, s, 0 + 1))
  BY <1>3 DEF list_add
<1> HIDE DEF r
<1>5. /\ 0 \in 0..Len(s) /\ r[0 + 1] = e
      /\ \A i \in 1..0 : r[i] = s[i]
      /\ \A i \in (0 + 1)..Len(s) : r[i + 1] = s[i]
  BY <1>1, <1>2
<1>6. Rings(__list_add(K, e, At(h, p[h], 0), At(h, p[h], 0 + 1)), [p EXCEPT ![h] = r])
  BY <1>2, <1>5, AddRings DEF Unlisted
<1> QED
  BY <1>4, <1>6 DEF r

\* list_add_tail makes it the last.
LEMMA AddLast ==
  ASSUME NEW K, NEW p, Rings(K, p), NEW h \in Heads, NEW e \in Entries, Unlisted(p, e)
  PROVE  Rings(list_add_tail(K, e, h), [p EXCEPT ![h] = Append(p[h], e)])
<1> DEFINE s == p[h]
           r == Append(s, e)
           n == Len(s)
<1>1. Row(s) /\ RingOf(K, h, s) /\ s \in Seq(Entries) /\ n \in Nat
  BY DEF Rings, Row
<1>2. /\ r \in Seq(Entries) /\ Len(r) = n + 1 /\ r[n + 1] = e
      /\ \A i \in 1..n : r[i] = s[i]
  BY <1>1
<1>3. At(h, s, n + 1) = h /\ K[h].prev = At(h, s, n)
  BY <1>1, HeadNeighbours DEF At
<1>4. list_add_tail(K, e, h) = __list_add(K, e, At(h, s, n), At(h, s, n + 1))
  BY <1>3 DEF list_add_tail
<1> HIDE DEF r
<1>5. /\ n \in 0..n /\ \A i \in (n + 1)..n : r[i + 1] = s[i]
  BY <1>1, <1>2
<1>6. Rings(__list_add(K, e, At(h, p[h], n), At(h, p[h], n + 1)), [p EXCEPT ![h] = r])
  BY <1>2, <1>5, AddRings DEF Unlisted
<1> QED
  BY <1>4, <1>6 DEF r

\* After list_del the entry is on none of the lists.
LEMMA DelUnlists ==
  ASSUME NEW K, NEW p, Rings(K, p), NEW h \in Heads, NEW k \in 1..Len(p[h])
  PROVE  /\ p[h][k] \in Entries
         /\ Rings(list_del(K, p[h][k]), [p EXCEPT ![h] = Without(p[h], p[h][k])])
         /\ Unlisted([p EXCEPT ![h] = Without(p[h], p[h][k])], p[h][k])
<1> DEFINE s == p[h]
           e == s[k]
           r == Without(s, e)
           p2 == [p EXCEPT ![h] = r]
<1>1. /\ K \in Links(Node) /\ p \in [Heads -> Seq(Entries)] /\ Row(s) /\ Apart(p)
      /\ Len(s) \in Nat
  BY AtApart DEF Rings
<1>2. e \in Entries /\ e \in Node
  BY <1>1 DEF Row, Node
<1>3. list_del(K, e) \in Links(Node)
  BY <1>1, <1>2, DelType
<1>4. Rings(list_del(K, e), p2)
  BY <1>3, DelRings
<1>5. /\ Row(r) /\ Len(r) = Len(s) - 1
      /\ \A i \in 1..(k - 1) : r[i] = s[i]
      /\ \A i \in k..(Len(s) - 1) : r[i] = s[i + 1]
  BY <1>1, WithoutIs
<1>6. ASSUME NEW i \in 1..Len(r)
      PROVE  r[i] # e
  <2> HIDE DEF s, r
  <2>0. k \in Nat /\ 1 <= k /\ k <= Len(s)
    BY <1>1 DEF s
  <2>1. CASE i < k
    <3>1. i \in 1..(k - 1) /\ i \in 1..Len(s) /\ i # k /\ k \in 1..Len(s)
      BY <2>1, <2>0, <1>1, <1>5
    <3> QED
      BY <3>1, <1>1, <1>5 DEF Row
  <2>2. CASE i >= k
    <3>1. i \in k..(Len(s) - 1) /\ i + 1 \in 1..Len(s) /\ i + 1 # k /\ k \in 1..Len(s)
      BY <2>2, <2>0, <1>1, <1>5
    <3> QED
      BY <3>1, <1>1, <1>5 DEF Row
  <2> QED
    BY <2>1, <2>2, <2>0, <1>5
<1>7. p2[h] = r /\ \A g \in Heads \ {h} : p2[g] = p[g]
  BY <1>1
<1>8. ASSUME NEW g \in Heads \ {h}, NEW i \in 1..Len(p[g])
      PROVE  p[g][i] # e
  BY <1>1 DEF Apart
<1>9. Unlisted(p2, e)
  <2> HIDE DEF p2, r, e
  <2> QED
    BY <1>6, <1>7, <1>8 DEF Unlisted
<1> QED
  BY <1>2, <1>4, <1>9

\* list_move and list_move_tail, to the list of the entry or to another.
LEMMA MoveRings ==
  ASSUME NEW K, NEW p, Rings(K, p), NEW h \in Heads, NEW k \in 1..Len(p[h]),
         NEW g \in Heads, NEW e, e = p[h][k]
  PROVE  /\ Rings(list_move(K, e, g),
                  [[p EXCEPT ![h] = Without(@, e)] EXCEPT ![g] = <<e>> \o @])
         /\ Rings(list_move_tail(K, e, g),
                  [[p EXCEPT ![h] = Without(@, e)] EXCEPT ![g] = Append(@, e)])
<1> DEFINE p2 == [p EXCEPT ![h] = Without(p[h], e)]
<1>1. e \in Entries /\ Rings(list_del(K, e), p2) /\ Unlisted(p2, e)
  BY DelUnlists
<1>2. p2 = [p EXCEPT ![h] = Without(@, e)]
  OBVIOUS
<1> HIDE DEF p2
<1>3. Rings(list_add(list_del(K, e), e, g), [p2 EXCEPT ![g] = <<e>> \o p2[g]])
  BY <1>1, AddFirst
<1>4. Rings(list_add_tail(list_del(K, e), e, g), [p2 EXCEPT ![g] = Append(p2[g], e)])
  BY <1>1, AddLast
<1> QED
  BY <1>2, <1>3, <1>4 DEF list_move, list_move_tail

\* list_empty answers for the sequence.
LEMMA EmptyIff ==
  ASSUME NEW K, NEW p, Rings(K, p), NEW h \in Heads
  PROVE  list_empty(K, h) <=> p[h] = <<>>
<1> DEFINE s == p[h]
<1>1. Row(s) /\ s \in Seq(Entries) /\ Len(s) \in Nat /\ K[h].next = At(h, s, 1)
  BY HeadNeighbours DEF Rings, Row
<1>2. CASE s = <<>>
  <2>1. At(h, s, 1) = h
    BY <1>2 DEF At
  <2> QED
    BY <1>1, <1>2, <2>1 DEF list_empty
<1>3. CASE s # <<>>
  <2>1. 1 \in 1..Len(s)
    BY <1>1, <1>3
  <2>2. At(h, s, 1) # h
    BY <2>1, <1>1, RingsAssumption DEF At, Row
  <2> QED
    BY <1>1, <1>3, <2>2 DEF list_empty
<1> QED
  BY <1>2, <1>3

\* An entry on a list has a step of one ring.
LEMMA OnIs ==
  ASSUME Rings(L, q), NEW e \in OnList
  PROVE  /\ HeadOf(e) \in Heads
         /\ \E k \in 1..Len(q[HeadOf(e)]) : q[HeadOf(e)][k] = e
<1>1. \A h \in Heads : DOMAIN q[h] = 1..Len(q[h])
  BY DEF Rings, Row
<1>2. \E h \in Heads : e \in ToSet(q[h])
  BY DEF OnList
<1>3. HeadOf(e) \in Heads /\ e \in ToSet(q[HeadOf(e)])
  BY <1>2 DEF HeadOf
<1> QED
  BY <1>1, <1>3 DEF ToSet

\* A free entry has none.
LEMMA FreeIs ==
  ASSUME Rings(L, q), NEW e \in Free
  PROVE  e \in Entries /\ Unlisted(q, e)
<1>1. \A h \in Heads : DOMAIN q[h] = 1..Len(q[h])
  BY DEF Rings, Row
<1> QED
  BY <1>1 DEF Free, OnList, ToSet, Unlisted

\* INIT_LIST_HEAD writes one node.
LEMMA InitShape ==
  ASSUME NEW K \in Links(Node), NEW e \in Node
  PROVE  /\ INIT_LIST_HEAD(K, e) \in Links(Node)
         /\ \A n \in Node \ {e} : INIT_LIST_HEAD(K, e)[n] = K[n]
  BY DEF INIT_LIST_HEAD, Links

\* At the start every head is empty.
LEMMA RingsInit == Init => Rings(L, q)
<1> SUFFICES ASSUME Init PROVE Rings(L, q)
  OBVIOUS
<1>1. L \in Links(Node) /\ \A h \in Heads : L[h].next = h /\ L[h].prev = h
  BY DEF Init, Links, Node
<1>2. q \in [Heads -> Seq(Entries)] /\ \A h \in Heads : q[h] = <<>>
  BY DEF Init
<1>3. \A h \in Heads : Row(q[h]) /\ RingOf(L, h, q[h])
  BY <1>1, <1>2, EmptyRing
<1>4. Apart(q)
  BY <1>2 DEF Apart
<1> QED
  BY <1>1, <1>2, <1>3, <1>4 DEF Rings

\* list_del and list_del_init keep the invariant.
LEMMA DelStep ==
  ASSUME Rings(L, q), NEW e \in Entries, Del(e)
  PROVE  Rings(L', q')
<1> DEFINE h == HeadOf(e)
<1>1. e \in OnList /\ h \in Heads
  BY OnIs DEF Del
<1>2. PICK k \in 1..Len(q[h]) : q[h][k] = e
  BY <1>1, OnIs
<1>3. q' = [q EXCEPT ![h] = Without(q[h], e)]
  BY DEF Del
<1>4. L \in Links(Node) /\ e \in Node
  BY DEF Rings, Node
<1>5. L' \in Links(Node) /\ \A n \in Node \ {e} : L'[n] = list_del(L, e)[n]
  BY <1>4, DelType, InitShape, SMTT(30) DEF Del, list_del_init
<1> HIDE DEF h
<1>6. Rings(L', [q EXCEPT ![h] = Without(q[h], e)])
  BY <1>1, <1>2, <1>5, DelRings
<1> QED
  BY <1>3, <1>6

\* So do list_replace and list_replace_init.
LEMMA ReplaceStep ==
  ASSUME Rings(L, q), NEW old \in Entries, NEW new \in Entries, Replace(old, new)
  PROVE  Rings(L', q')
<1> DEFINE h == HeadOf(old)
<1>1. old \in OnList /\ h \in Heads /\ Unlisted(q, new)
  BY OnIs, FreeIs DEF Replace
<1>2. PICK k \in 1..Len(q[h]) : q[h][k] = old
  BY <1>1, OnIs
<1>3. q' = [q EXCEPT ![h] = ReplaceAll(q[h], old, new)]
  BY DEF Replace
<1>4. L \in Links(Node) /\ old \in Node /\ new \in Node
  BY DEF Rings, Node
<1>5. list_replace(L, old, new) \in Links(Node)
  <2> DEFINE F == [L EXCEPT ![new].next = L[old].next, ![L[old].next].prev = new]
             last == F[old].prev
  <2>1. F \in Links(Node) /\ last \in Node
    BY <1>4 DEF Links
  <2>2. list_replace(L, old, new) = [F EXCEPT ![new].prev = last, ![last].next = new]
    BY DEF list_replace
  <2> HIDE DEF F, last
  <2>3. [F EXCEPT ![new].prev = last, ![last].next = new] \in Links(Node)
    BY <2>1, <1>4 DEF Links
  <2> QED
    BY <2>2, <2>3
<1>6. L' \in Links(Node) /\ \A n \in Node \ {old} : L'[n] = list_replace(L, old, new)[n]
  BY <1>4, <1>5, InitShape DEF Replace, list_replace_init
<1> HIDE DEF h
<1>7. Rings(L', [q EXCEPT ![h] = ReplaceAll(q[h], old, new)])
  BY <1>1, <1>2, <1>6, ReplaceRings DEF Unlisted
<1> QED
  BY <1>3, <1>7

\* So does list_rotate_left: it moves the first entry to the end.
LEMMA RotateStep ==
  ASSUME Rings(L, q), NEW h \in Heads, Rotate(h)
  PROVE  Rings(L', q')
<1> DEFINE s == q[h]
           e == s[1]
<1>1. q \in [Heads -> Seq(Entries)] /\ Row(s) /\ s \in Seq(Entries) /\ Len(s) \in Nat
  BY DEF Rings, Row
<1>2. CASE s = <<>>
  <2>1. L' = L
    BY <1>2, EmptyIff DEF Rotate, list_rotate_left
  <2>2. q' = q
    BY <1>1, <1>2 DEF Rotate
  <2> QED
    BY <2>1, <2>2
<1>3. CASE s # <<>>
  <2>1. 1 \in 1..Len(s) /\ L[h].next = e
    BY <1>1, <1>3, HeadNeighbours DEF Rings, At
  <2>2. L' = list_move_tail(L, e, h)
    BY <1>3, <2>1, EmptyIff DEF Rotate, list_rotate_left
  <2>3. Without(s, e) = Tail(s)
    <3> DEFINE r == Without(s, e)
    <3>1. /\ Row(r) /\ Len(r) = Len(s) - 1
          /\ \A i \in 1..(Len(s) - 1) : r[i] = s[i + 1]
      BY <1>1, <2>1, WithoutIs
    <3>2. /\ Tail(s) \in Seq(Entries) /\ Len(Tail(s)) = Len(s) - 1
          /\ \A i \in 1..(Len(s) - 1) : Tail(s)[i] = s[i + 1]
      BY <1>1, <1>3
    <3> HIDE DEF r
    <3>3. r = Tail(s)
      BY <3>1, <3>2, SeqEqual, SMTT(30) DEF Row
    <3> QED
      BY <3>3 DEF r
  <2>4. q' = [q EXCEPT ![h] = Append(Tail(s), e)]
    BY <1>1, <1>3 DEF Rotate
  <2>5. [[q EXCEPT ![h] = Without(@, e)] EXCEPT ![h] = Append(@, e)]
          = [q EXCEPT ![h] = Append(Tail(s), e)]
    <3> HIDE DEF e
    <3> QED
      BY <1>1, <2>3
  <2>6. Rings(list_move_tail(L, e, h),
              [[q EXCEPT ![h] = Without(@, e)] EXCEPT ![h] = Append(@, e)])
    BY <2>1, MoveRings
  <2> QED
    BY <2>2, <2>4, <2>5, <2>6
<1> QED
  BY <1>2, <1>3

\* So does list_cut_position, with the early returns for an empty list and for
\* a cut at the head.
LEMMA CutStep ==
  ASSUME Rings(L, q), NEW list \in Heads, NEW h \in Heads, NEW e \in Node,
         Cut(list, h, e)
  PROVE  Rings(L', q')
<1> DEFINE s == q[h]
<1>1. /\ q \in [Heads -> Seq(Entries)] /\ L \in Links(Node)
      /\ Row(s) /\ RingOf(L, h, s) /\ s \in Seq(Entries) /\ Len(s) \in Nat
  BY DEF Rings, Row
<1>2. /\ list # h /\ q[list] = <<>> /\ e \in ToSet(s) \cup {h}
      /\ L' = list_cut_position(L, list, h, e)
  BY DEF Cut
<1>3. CASE e = h
  <2>1. q' = [q EXCEPT ![list] = SubSeq(s, 1, 0), ![h] = SubSeq(s, 0 + 1, Len(s))]
    BY <1>3 DEF Cut
  <2>2. SubSeq(s, 1, 0) = <<>> /\ SubSeq(s, 0 + 1, Len(s)) = s
    BY <1>1, SubSeqEmpty, SubSeqFull
  <2>3. q' = q
    BY <2>1, <2>2, <1>1, <1>2
  <2>4. L[list].next = list /\ L[list].prev = list
    <3>1. Row(q[list]) /\ RingOf(L, list, q[list])
      BY DEF Rings
    <3>2. \A i \in Int : At(list, <<>>, i) = list
      BY DEF At
    <3> QED
      BY <3>1, <3>2, <1>2, HeadNeighbours
  <2>5. INIT_LIST_HEAD(L, list) = L
    BY <2>4, <1>1 DEF INIT_LIST_HEAD, Links, Node
  <2>6. L' = L
    BY <1>2, <1>3, <2>5 DEF list_cut_position
  <2> QED
    BY <2>3, <2>6
<1>4. CASE e # h
  <2>1. PICK k \in 1..Len(s) : s[k] = e
    BY <1>1, <1>2, <1>4 DEF ToSet
  <2>2. Place(s, e) = k
    BY <2>1, <1>1 DEF Row, Place
  <2>3. q' = [q EXCEPT ![list] = SubSeq(s, 1, k), ![h] = SubSeq(s, k + 1, Len(s))]
    BY <2>2, <1>4 DEF Cut
  <2>4. ~list_empty(L, h)
    BY <2>1, <1>1, EmptyIff
  <2>5. list_is_singular(L, h) => e = L[h].next
    <3> SUFFICES ASSUME L[h].next = L[h].prev PROVE e = L[h].next
      BY DEF list_is_singular
    <3>1. At(h, s, 1) = At(h, s, Len(s)) /\ At(h, s, 1) = L[h].next
      BY <1>1, HeadNeighbours
    <3>2. 1 \in 0..Len(s) /\ Len(s) \in 0..Len(s)
      BY <2>1, <1>1
    <3>3. 1 = Len(s)
      BY <3>1, <3>2, <1>1, AtApart
    <3> QED
      BY <2>1, <3>1, <3>3 DEF At
  <2>6. L' = __list_cut_position(L, list, h, e)
    BY <1>2, <1>4, <2>4, <2>5 DEF list_cut_position
  <2>7. Rings(__list_cut_position(L, list, h, s[k]),
              [q EXCEPT ![list] = SubSeq(s, 1, k), ![h] = SubSeq(s, k + 1, Len(s))])
    BY <1>2, CutRings
  <2> QED
    BY <2>1, <2>3, <2>6, <2>7
<1> QED
  BY <1>3, <1>4

\* So do list_splice_init and list_splice_tail_init, of empty lists too.
LEMMA SpliceStep ==
  ASSUME Rings(L, q), NEW list \in Heads, NEW h \in Heads,
         Splice(list, h) \/ SpliceTail(list, h)
  PROVE  Rings(L', q')
<1> DEFINE s == q[h]
           t == q[list]
<1>1. /\ q \in [Heads -> Seq(Entries)] /\ list # h
      /\ Row(s) /\ RingOf(L, h, s) /\ s \in Seq(Entries) /\ Len(s) \in Nat
      /\ t \in Seq(Entries) /\ Len(t) \in Nat
  BY DEF Rings, Row, Splice, SpliceTail
<1>2. CASE t = <<>>
  <2>1. L' = L
    BY <1>2, EmptyIff DEF Splice, SpliceTail, list_splice_init, list_splice_tail_init
  <2>2. <<>> \o s = s /\ s \o <<>> = s
    BY <1>1, ConcatEmptySeq
  <2>3. q' = q
    <3>1. q' = [q EXCEPT ![list] = <<>>, ![h] = s]
      BY <1>1, <1>2, <2>2 DEF Splice, SpliceTail
    <3>2. [q EXCEPT ![list] = <<>>, ![h] = s] = q
      BY <1>1, <1>2
    <3> QED
      BY <3>1, <3>2
  <2> QED
    BY <2>1, <2>3
<1>3. CASE t # <<>> /\ Splice(list, h)
  <2> DEFINE r == t \o s
  <2>1. L' = INIT_LIST_HEAD(__list_splice(L, list, h, L[h].next), list)
    BY <1>3, EmptyIff DEF Splice, list_splice_init, list_splice
  <2>2. At(h, s, 0) = h /\ L[h].next = At(h, s, 0 + 1)
    BY <1>1, HeadNeighbours DEF At
  <2>3. q' = [q EXCEPT ![list] = <<>>, ![h] = r]
    BY <1>1, <1>3 DEF Splice
  <2>4. /\ r \in Seq(Entries) /\ Len(r) = Len(t) + Len(s)
        /\ \A i \in 1..(Len(t) + Len(s)) : r[i] = IF i <= Len(t) THEN t[i] ELSE s[i - Len(t)]
    BY <1>1, ConcatProperties
  <2> HIDE DEF r
  <2>5. Grafted(r, s, t, 0)
    <3>1. \A i \in 1..Len(t) : r[0 + i] = t[i]
      BY <2>4, <1>1
    <3>2. \A i \in (0 + 1)..Len(s) : r[i + Len(t)] = s[i]
      <4> SUFFICES ASSUME NEW i \in (0 + 1)..Len(s) PROVE r[i + Len(t)] = s[i]
        OBVIOUS
      <4>1. /\ i + Len(t) \in 1..(Len(t) + Len(s)) /\ ~(i + Len(t) <= Len(t))
            /\ (i + Len(t)) - Len(t) = i
        BY <1>1
      <4> QED
        BY <2>4, <4>1
    <3> QED
      BY <2>4, <3>1, <3>2, <1>1 DEF Grafted
  <2>6. 0 \in 0..Len(s) /\ Len(t) > 0
    BY <1>1, <1>3
  <2>7. Rings(INIT_LIST_HEAD(__list_splice(L, list, At(h, q[h], 0), At(h, q[h], 0 + 1)), list),
              [q EXCEPT ![list] = <<>>, ![h] = r])
    BY <2>4, <2>5, <2>6, <1>1, SpliceRings
  <2> QED
    BY <2>1, <2>2, <2>3, <2>7
<1>4. CASE t # <<>> /\ SpliceTail(list, h)
  <2> DEFINE r == s \o t
             n == Len(s)
  <2>1. L' = INIT_LIST_HEAD(__list_splice(L, list, L[h].prev, h), list)
    BY <1>4, EmptyIff DEF SpliceTail, list_splice_tail_init, list_splice_tail
  <2>2. At(h, s, n + 1) = h /\ L[h].prev = At(h, s, n)
    BY <1>1, HeadNeighbours DEF At
  <2>3. q' = [q EXCEPT ![list] = <<>>, ![h] = r]
    BY <1>1, <1>4 DEF SpliceTail
  <2>4. /\ r \in Seq(Entries) /\ Len(r) = Len(s) + Len(t)
        /\ \A i \in 1..(Len(s) + Len(t)) : r[i] = IF i <= Len(s) THEN s[i] ELSE t[i - Len(s)]
    BY <1>1, ConcatProperties
  <2> HIDE DEF r
  <2>5. Grafted(r, s, t, n)
    <3>1. \A i \in 1..n : r[i] = s[i]
      BY <2>4, <1>1
    <3>2. \A i \in 1..Len(t) : r[n + i] = t[i]
      BY <2>4, <1>1, SMTT(30)
    <3> QED
      BY <2>4, <3>1, <3>2, <1>1 DEF Grafted
  <2>6. n \in 0..Len(s) /\ Len(t) > 0
    BY <1>1, <1>4
  <2>7. Rings(INIT_LIST_HEAD(__list_splice(L, list, At(h, q[h], n), At(h, q[h], n + 1)), list),
              [q EXCEPT ![list] = <<>>, ![h] = r])
    BY <2>4, <2>5, <2>6, <1>1, SpliceRings
  <2> QED
    BY <2>1, <2>2, <2>3, <2>7
<1> QED
  BY <1>2, <1>3, <1>4

\* Every call keeps the invariant.
LEMMA RingsNext == Rings(L, q) /\ [Next]_vars => Rings(L, q)'
<1> SUFFICES ASSUME Rings(L, q), [Next]_vars PROVE Rings(L', q')
  OBVIOUS
<1>1. ASSUME NEW e \in Entries, Del(e) PROVE Rings(L', q')
  BY <1>1, DelStep
<1>2. ASSUME NEW e \in Entries, NEW h \in Heads, Add(e, h) PROVE Rings(L', q')
  <2>1. Rings(list_add(L, e, h), [q EXCEPT ![h] = <<e>> \o q[h]])
    BY <1>2, FreeIs, AddFirst DEF Add
  <2> QED
    BY <1>2, <2>1 DEF Add
<1>3. ASSUME NEW e \in Entries, NEW h \in Heads, AddTail(e, h) PROVE Rings(L', q')
  <2>1. Rings(list_add_tail(L, e, h), [q EXCEPT ![h] = Append(q[h], e)])
    BY <1>3, FreeIs, AddLast DEF AddTail
  <2> QED
    BY <1>3, <2>1 DEF AddTail
<1>4. ASSUME NEW e \in Entries, NEW h \in Heads, Move(e, h) PROVE Rings(L', q')
  <2> DEFINE g == HeadOf(e)
  <2>1. e \in OnList /\ g \in Heads
    BY <1>4, OnIs DEF Move
  <2>2. PICK k \in 1..Len(q[g]) : q[g][k] = e
    BY <2>1, OnIs
  <2> HIDE DEF g
  <2>3. Rings(list_move(L, e, h), [[q EXCEPT ![g] = Without(@, e)] EXCEPT ![h] = <<e>> \o @])
    BY <2>1, <2>2, MoveRings
  <2> QED
    BY <1>4, <2>3 DEF Move, g
<1>5. ASSUME NEW e \in Entries, NEW h \in Heads, MoveTail(e, h) PROVE Rings(L', q')
  <2> DEFINE g == HeadOf(e)
  <2>1. e \in OnList /\ g \in Heads
    BY <1>5, OnIs DEF MoveTail
  <2>2. PICK k \in 1..Len(q[g]) : q[g][k] = e
    BY <2>1, OnIs
  <2> HIDE DEF g
  <2>3. Rings(list_move_tail(L, e, h), [[q EXCEPT ![g] = Without(@, e)] EXCEPT ![h] = Append(@, e)])
    BY <2>1, <2>2, MoveRings
  <2> QED
    BY <1>5, <2>3 DEF MoveTail, g
<1>6. ASSUME NEW old \in Entries, NEW new \in Entries, Replace(old, new) PROVE Rings(L', q')
  BY <1>6, ReplaceStep
<1>7. ASSUME NEW h \in Heads, Rotate(h) PROVE Rings(L', q')
  BY <1>7, RotateStep
<1>8. ASSUME NEW list \in Heads, NEW h \in Heads, NEW e \in Node, Cut(list, h, e) PROVE Rings(L', q')
  BY <1>8, CutStep
<1>9. ASSUME NEW list \in Heads, NEW h \in Heads, Splice(list, h) \/ SpliceTail(list, h)
      PROVE  Rings(L', q')
  BY <1>9, SpliceStep
<1>10. CASE UNCHANGED vars
  BY <1>10 DEF vars
<1> QED
  BY <1>1, <1>2, <1>3, <1>4, <1>5, <1>6, <1>7, <1>8, <1>9, <1>10 DEF Next

\* The order of a row, from its last entry: a set of its entries holds a last one.
LEMMA LastOf ==
  ASSUME NEW s, Row(s), NEW S, S \in SUBSET ToSet(s), S # {}
  PROVE  \E i \in 1..Len(s) : /\ s[i] \in S
                              /\ i + 1 \in 1..Len(s) => s[i + 1] \notin S
<1> DEFINE n == Len(s)
           T == {d \in 0..n : n - d \in 1..n /\ s[n - d] \in S}
<1>1. n \in Nat /\ DOMAIN s = 1..n
  BY DEF Row
<1>2. PICK j \in 1..n : s[j] \in S
  BY <1>1 DEF ToSet
<1>3. n - j \in T
  <2>1. n - j \in 0..n /\ n - (n - j) = j
    BY <1>1
  <2> QED
    BY <2>1, <1>2
<1>4. PICK d \in T : \A k \in T : d <= k
  <2>1. T \in SUBSET Nat
    BY <1>1
  <2>2. T # {}
    <3> HIDE DEF T
    <3> QED
      BY <1>3
  <2> HIDE DEF T
  <2> QED
    BY <2>1, <2>2, Least
<1>5. n - d \in 1..n /\ s[n - d] \in S /\ d \in 0..n
  BY <1>4
<1>6. ASSUME (n - d) + 1 \in 1..n, s[(n - d) + 1] \in S
      PROVE  FALSE
  <2>1. d - 1 \in 0..n /\ n - (d - 1) = (n - d) + 1
    BY <1>1, <1>5, <1>6
  <2>2. d - 1 \in T
    BY <2>1, <1>6
  <2>3. d <= d - 1
    <3> HIDE DEF T
    <3> QED
      BY <2>2, <1>4
  <2> QED
    BY <2>3, <1>5
<1> QED
  BY <1>5, <1>6

\* A ring of pointers is a list in the sense of the kernel proofs: a walk closes
\* and no entries go round on their own.
LEMMA RingIsList ==
  ASSUME NEW K, NEW h \in Heads, NEW s, Row(s), RingOf(K, h, s)
  PROVE  IsList(K, h, ToSet(s))
<1> DEFINE n == Len(s)
           M == ToSet(s)
<1>1. n \in Nat /\ DOMAIN s = 1..n /\ \A i \in 1..n : s[i] \in Entries
  BY DEF Row
<1>2. h \notin M
  BY <1>1, RingsAssumption DEF ToSet
<1>3. \A i \in Int : At(h, s, i) \in M \cup {h}
  BY <1>1 DEF At, ToSet
<1>4. \A x \in M \cup {h} : \E i \in 0..n : x = At(h, s, i)
  <2>1. h = At(h, s, 0) /\ 0 \in 0..n
    BY <1>1 DEF At
  <2>2. \A i \in 1..n : s[i] = At(h, s, i) /\ i \in 0..n
    BY <1>1 DEF At
  <2> QED
    BY <2>1, <2>2, <1>1 DEF ToSet
<1>5. \A i \in 0..n : K[At(h, s, i)].next = At(h, s, i + 1) /\ K[At(h, s, i + 1)].prev = At(h, s, i)
  BY DEF RingOf
<1>6. Linked(K, h, M)
  <2> SUFFICES ASSUME NEW x \in M \cup {h}
               PROVE  /\ K[x].next \in M \cup {h}
                      /\ K[x].prev \in M \cup {h}
                      /\ K[K[x].next].prev = x
                      /\ K[K[x].prev].next = x
    BY DEF Linked
  <2>1. PICK i \in 0..n : x = At(h, s, i)
    BY <1>4
  <2>2. K[x].next \in M \cup {h} /\ K[K[x].next].prev = x
    BY <2>1, <1>3, <1>5
  <2>3. PICK j \in 0..n : x = At(h, s, j + 1)
    <3>1. CASE i = 0
      <4>1. At(h, s, n + 1) = At(h, s, 0) /\ n \in 0..n
        BY <1>1 DEF At
      <4> QED
        BY <3>1, <4>1, <2>1
    <3>2. CASE i # 0
      <4>1. i - 1 \in 0..n /\ (i - 1) + 1 = i
        BY <3>2, <1>1
      <4> QED
        BY <4>1, <2>1
    <3> QED
      BY <3>1, <3>2
  <2>4. K[x].prev \in M \cup {h} /\ K[K[x].prev].next = x
    BY <2>3, <1>3, <1>5
  <2> QED
    BY <2>2, <2>4
<1>7. Reachable(K, M)
  <2> SUFFICES ASSUME NEW S \in SUBSET M, S # {}
               PROVE  \E x \in S : K[x].next \notin S
    BY DEF Reachable
  <2>1. PICK i \in 1..n : s[i] \in S /\ (i + 1 \in 1..n => s[i + 1] \notin S)
    BY LastOf
  <2>2. K[s[i]].next = At(h, s, i + 1)
    BY Neighbours
  <2>3. At(h, s, i + 1) \notin S
    BY <2>1, <1>2 DEF At
  <2> QED
    BY <2>1, <2>2, <2>3
<1> QED
  BY <1>2, <1>6, <1>7 DEF IsList

\* A ring of pointers, read as the cyclic sequence of its nodes.
Cyclic(K, h, s) ==
  LET ring == <<h>> \o s
      n    == Len(ring)
  IN  \A i \in 1..n : /\ K[ring[i]].next = ring[(i % n) + 1]
                      /\ K[ring[(i % n) + 1]].prev = ring[i]

\* Both readings say the same of a ring.
LEMMA RingCyclic ==
  ASSUME NEW K, NEW h \in Heads, NEW s, Row(s), RingOf(K, h, s)
  PROVE  Cyclic(K, h, s)
<1> DEFINE ring == <<h>> \o s
           n == Len(ring)
<1>1. Len(s) \in Nat /\ s \in Seq(Node) /\ <<h>> \in Seq(Node)
  BY DEF Row, Node
<1>2. /\ n = Len(s) + 1
      /\ \A i \in 1..n : ring[i] = IF i <= 1 THEN h ELSE s[i - 1]
  BY <1>1
<1>3. \A i \in 1..n : ring[i] = At(h, s, i - 1)
  BY <1>1, <1>2 DEF At
<1> HIDE DEF ring
<1>4. At(h, s, Len(s) + 1) = At(h, s, 0)
  BY <1>1 DEF At
<1>5. ASSUME NEW i \in 1..n
      PROVE  /\ K[ring[i]].next = ring[(i % n) + 1]
             /\ K[ring[(i % n) + 1]].prev = ring[i]
  <2>1. i - 1 \in 0..Len(s) /\ (i - 1) + 1 = i
    BY <1>1, <1>2
  <2>2. K[At(h, s, i - 1)].next = At(h, s, i) /\ K[At(h, s, i)].prev = At(h, s, i - 1)
    BY <2>1 DEF RingOf
  <2> DEFINE j == (i % n) + 1
  <2>3. j \in 1..n /\ At(h, s, j - 1) = At(h, s, i)
    <3>1. CASE i = n
      <4>1. i % n = 0
        BY <3>1, <1>1, <1>2
      <4> QED
        BY <3>1, <4>1, <1>1, <1>2, <1>4
    <3>2. CASE i # n
      <4>1. n \in Nat /\ i \in Nat /\ 0 <= i /\ i < n
        BY <3>2, <1>1, <1>2
      <4>2. i % n = i
        <5> HIDE DEF n
        <5> QED
          BY <4>1
      <4> QED
        BY <3>2, <4>1, <4>2, <1>1, <1>2
    <3> QED
      BY <3>1, <3>2
  <2> HIDE DEF j
  <2>4. ring[i] = At(h, s, i - 1) /\ ring[j] = At(h, s, i)
    BY <2>3, <1>3
  <2>5. K[ring[i]].next = ring[j] /\ K[ring[j]].prev = ring[i]
    BY <2>2, <2>4
  <2> QED
    BY <2>5 DEF j
<1> QED
  BY <1>5 DEF ring, Cyclic

\* The inductive invariant implies what the run checks.
LEMMA RingsMeans == Rings(L, q) => Represents /\ EveryRingIsAList
<1> SUFFICES ASSUME Rings(L, q) PROVE Represents /\ EveryRingIsAList
  OBVIOUS
<1>1. \A h \in Heads : Row(q[h]) /\ RingOf(L, h, q[h])
  BY DEF Rings
<1>2. \A h \in Heads : DOMAIN q[h] = 1..Len(q[h])
  BY <1>1 DEF Row
<1>3. TypeOK
  <2>1. L \in Links(Node)
    BY DEF Rings
  <2>2. \A h \in Heads : q[h] \in Seq(Entries) /\ IsInjective(q[h])
    BY <1>1, <1>2 DEF Row, IsInjective
  <2>3. \A g, h \in Heads : g # h => ToSet(q[g]) \cap ToSet(q[h]) = {}
    BY <1>2 DEF Rings, Apart, ToSet
  <2> QED
    BY <2>1, <2>2, <2>3 DEF TypeOK
<1>4. Represents
  <2>1. \A h \in Heads : Cyclic(L, h, q[h])
    BY <1>1, RingCyclic
  <2> QED
    BY <2>1, <1>3, Zenon DEF Represents, Cyclic
<1>5. EveryRingIsAList
  BY <1>1, RingIsList, EmptyIff DEF EveryRingIsAList
<1> QED
  BY <1>4, <1>5

\* For every set of heads and of entries, after any sequence of list.h calls that
\* respects its comments, a walk along next or along prev from a head meets the
\* promised entries in the promised order and comes back (list.h:131-594).
THEOREM RingsRepresent == Spec => []Represents
<1>1. Rings(L, q) => Represents
  BY RingsMeans
<1> QED
  BY RingsInit, RingsNext, <1>1, PTL DEF Spec

\* Under the same calls every list satisfies the pointer-only description from
\* which the kernel's proofs start, and list_empty tells whether the sequence is
\* empty (list.h:403-406).
THEOREM RingsAreLists == Spec => []EveryRingIsAList
<1>1. Rings(L, q) => EveryRingIsAList
  BY RingsMeans
<1> QED
  BY RingsInit, RingsNext, <1>1, PTL DEF Spec

-----------------------------------------------------------------------------
\* Words, and the sums of words.

Words       == SUBSET (0..31)
Bit(a, i)   == IF i \in a THEN 1 ELSE 0
Carried(a, b, i) == \E j \in a \cap b : j < i /\ \A k \in j + 1 .. i - 1 : k \in a \cup b
Carry(a, b, i) == IF Carried(a, b, i) THEN 1 ELSE 0

\* Three bits, or six, as a digit.
Three(a, k) == Bit(a, 3 * k) + 2 * Bit(a, 3 * k + 1) + 4 * Bit(a, 3 * k + 2)
Six(a, j)   == Three(a, 2 * j) + 8 * Three(a, 2 * j + 1)

\* A carry comes from two ones or goes on through one.
LEMMA CarryNext ==
  ASSUME NEW a \in Words, NEW b \in Words, NEW i \in 0..31
  PROVE  Carried(a, b, i + 1) <=> i \in a \cap b \/ (i \in a \cup b /\ Carried(a, b, i))
<1>1. ASSUME i \in a \cap b PROVE Carried(a, b, i + 1)
  <2>1. i < i + 1 /\ \A k \in i + 1 .. (i + 1) - 1 : k \in a \cup b
    OBVIOUS
  <2> QED
    BY <1>1, <2>1 DEF Carried
<1>2. ASSUME i \in a \cup b, Carried(a, b, i) PROVE Carried(a, b, i + 1)
  <2>1. PICK j \in a \cap b : j < i /\ \A k \in j + 1 .. i - 1 : k \in a \cup b
    BY <1>2 DEF Carried
  <2>2. j \in Nat
    BY DEF Words
  <2>3. j < i + 1 /\ \A k \in j + 1 .. (i + 1) - 1 : k \in a \cup b
    <3> SUFFICES ASSUME NEW k \in j + 1 .. (i + 1) - 1 PROVE j < i + 1 /\ k \in a \cup b
      BY <2>1, <2>2
    <3>1. k = i \/ k \in j + 1 .. i - 1
      BY <2>2
    <3> QED
      BY <1>2, <2>1, <2>2, <3>1
  <2> QED
    BY <2>3 DEF Carried
<1>3. ASSUME Carried(a, b, i + 1), i \notin a \cap b PROVE i \in a \cup b /\ Carried(a, b, i)
  <2>1. PICK j \in a \cap b : j < i + 1 /\ \A k \in j + 1 .. (i + 1) - 1 : k \in a \cup b
    BY <1>3 DEF Carried
  <2>2. j \in Nat /\ j # i /\ j < i
    BY <1>3, <2>1 DEF Words
  <2>3. i \in j + 1 .. (i + 1) - 1 /\ \A k \in j + 1 .. i - 1 : k \in j + 1 .. (i + 1) - 1
    BY <2>2
  <2> QED
    BY <2>1, <2>2, <2>3 DEF Carried
<1> QED
  BY <1>1, <1>2, <1>3

\* A sum, bit by bit.
LEMMA FullAdder ==
  ASSUME NEW a \in Words, NEW b \in Words, NEW i \in 0..31
  PROVE  /\ Bit(Plus(a, b), i) + 2 * Carry(a, b, i + 1)
              = Bit(a, i) + Bit(b, i) + Carry(a, b, i)
<1> DEFINE carried == {c \in 0..31 : Carried(a, b, c)}
<1>1. Plus(a, b) = Xor(Xor(a, b), carried)
  BY DEF Plus, Bits, Carried
<1>2. i \in carried <=> Carried(a, b, i)
  OBVIOUS
<1> HIDE DEF carried
<1>3. \A A, B : i \in Xor(A, B) <=> (i \in A /\ i \notin B) \/ (i \in B /\ i \notin A)
  BY DEF Xor
<1> DEFINE half == Xor(a, b)
           sum  == Plus(a, b)
           in   == Carried(a, b, i)
<1>4. i \in half <=> (i \in a /\ i \notin b) \/ (i \in b /\ i \notin a)
  BY <1>3
<1>5. i \in sum <=> (i \in half /\ ~in) \/ (in /\ i \notin half)
  BY <1>1, <1>2, <1>3
<1>6. Carried(a, b, i + 1) <=> i \in a \cap b \/ (i \in a \cup b /\ in)
  BY CarryNext
<1> HIDE DEF half, sum, in
<1>7. /\ Bit(sum, i) = (IF i \in sum THEN 1 ELSE 0) /\ Bit(a, i) = (IF i \in a THEN 1 ELSE 0)
      /\ Bit(b, i) = (IF i \in b THEN 1 ELSE 0) /\ Carry(a, b, i) = (IF in THEN 1 ELSE 0)
      /\ Carry(a, b, i + 1) = (IF Carried(a, b, i + 1) THEN 1 ELSE 0)
  BY DEF Bit, Carry, in
<1>8. CASE i \in a /\ i \in b
  BY <1>4, <1>5, <1>6, <1>7, <1>8 DEF sum
<1>9. CASE i \in a /\ i \notin b
  BY <1>4, <1>5, <1>6, <1>7, <1>9 DEF sum
<1>10. CASE i \notin a /\ i \in b
  BY <1>4, <1>5, <1>6, <1>7, <1>10 DEF sum
<1>11. CASE i \notin a /\ i \notin b
  BY <1>4, <1>5, <1>6, <1>7, <1>11 DEF sum
<1> QED
  BY <1>8, <1>9, <1>10, <1>11

\* A sum is a word, and nothing is carried into it.
LEMMA PlusIs ==
  ASSUME NEW a \in Words, NEW b \in Words
  PROVE  /\ Plus(a, b) \in Words
         /\ Carry(a, b, 0) = 0 /\ \A i : Carry(a, b, i) \in 0..1
<1> DEFINE carried == {c \in 0..31 : Carried(a, b, c)}
<1>1. Plus(a, b) = Xor(Xor(a, b), carried)
  BY DEF Plus, Bits, Carried
<1>2. Plus(a, b) \in Words
  BY <1>1 DEF Xor, Words
<1>3. ~Carried(a, b, 0)
  <2> SUFFICES ASSUME NEW j \in a \cap b, j < 0 PROVE FALSE
    BY DEF Carried
  <2> QED
    BY DEF Words
<1> QED
  BY <1>2, <1>3 DEF Carry

\* A bit is 0 or 1, and 0 outside a word.
LEMMA BitIs ==
  ASSUME NEW a \in Words
  PROVE  /\ \A i : Bit(a, i) \in 0..1
         /\ \A i \in Nat : i > 31 => Bit(a, i) = 0
BY DEF Bit, Words

\* Sums, digit by digit.
LEMMA ThreeSum ==
  ASSUME NEW a \in Words, NEW b \in Words, NEW k \in 0..10
  PROVE  Three(Plus(a, b), k) + (IF k = 10 THEN 4 * Carry(a, b, 32) ELSE 8 * Carry(a, b, 3 * (k + 1)))
           = Three(a, k) + Three(b, k) + Carry(a, b, 3 * k)
<1> DEFINE s == Plus(a, b)
           i == 3 * k
<1>1. s \in Words
  BY PlusIs
<1>2. /\ Bit(a, i) \in 0..1 /\ Bit(a, i + 1) \in 0..1 /\ Bit(a, i + 2) \in 0..1
      /\ Bit(b, i) \in 0..1 /\ Bit(b, i + 1) \in 0..1 /\ Bit(b, i + 2) \in 0..1
      /\ Bit(s, i) \in 0..1 /\ Bit(s, i + 1) \in 0..1 /\ Bit(s, i + 2) \in 0..1
      /\ Carry(a, b, i) \in 0..1 /\ Carry(a, b, i + 1) \in 0..1 /\ Carry(a, b, i + 2) \in 0..1
      /\ Carry(a, b, i + 3) \in 0..1
  <2> HIDE DEF s, i
  <2> QED
    BY <1>1, BitIs, PlusIs
<1>3. i \in 0..31 /\ i + 1 \in 0..31 /\ (i + 1) + 1 = i + 2 /\ (i + 2) + 1 = i + 3 /\ 3 * (k + 1) = i + 3
  OBVIOUS
<1>4. k = 10 => i + 2 = 32
  OBVIOUS
<1>5. k # 10 => i + 2 \in 0..31
  OBVIOUS
<1>6. Bit(s, i) + 2 * Carry(a, b, i + 1) = Bit(a, i) + Bit(b, i) + Carry(a, b, i)
  BY <1>3, FullAdder
<1>7. Bit(s, i + 1) + 2 * Carry(a, b, i + 2) = Bit(a, i + 1) + Bit(b, i + 1) + Carry(a, b, i + 1)
  BY <1>3, FullAdder
<1>8. k # 10 => Bit(s, i + 2) + 2 * Carry(a, b, i + 3) = Bit(a, i + 2) + Bit(b, i + 2) + Carry(a, b, i + 2)
  BY <1>3, <1>5, FullAdder
<1>9. k = 10 => Bit(s, i + 2) = 0 /\ Bit(a, i + 2) = 0 /\ Bit(b, i + 2) = 0
  <2>1. k = 10 => i + 2 \in Nat /\ i + 2 > 31
    BY <1>4
  <2> HIDE DEF s, i
  <2> QED
    BY <1>1, <2>1, BitIs
<1>10. /\ Three(s, k) = Bit(s, i) + 2 * Bit(s, i + 1) + 4 * Bit(s, i + 2)
       /\ Three(a, k) = Bit(a, i) + 2 * Bit(a, i + 1) + 4 * Bit(a, i + 2)
       /\ Three(b, k) = Bit(b, i) + 2 * Bit(b, i + 1) + 4 * Bit(b, i + 2)
  BY DEF Three
<1>11. CASE k = 10
  <2>1. Carry(a, b, 32) = Carry(a, b, i + 2)
    BY <1>4, <1>11
  <2> HIDE DEF s, i
  <2> QED
    BY <1>2, <1>6, <1>7, <1>9, <1>10, <1>11, <2>1 DEF i, s
<1>12. CASE k # 10
  <2>1. Carry(a, b, 3 * (k + 1)) = Carry(a, b, i + 3)
    BY <1>3
  <2> HIDE DEF s, i
  <2> QED
    BY <1>2, <1>6, <1>7, <1>8, <1>10, <1>12, <2>1 DEF i, s
<1> QED
  BY <1>11, <1>12

\* A digit is small, and the last one of a word has two bits only.
LEMMA ThreeIs ==
  ASSUME NEW a \in Words, NEW k \in 0..10
  PROVE  Three(a, k) \in 0..7 /\ (k = 10 => Three(a, k) \in 0..3)
<1>1. Bit(a, 3 * k) \in 0..1 /\ Bit(a, 3 * k + 1) \in 0..1 /\ Bit(a, 3 * k + 2) \in 0..1
  BY BitIs
<1>2. k = 10 => Bit(a, 3 * k + 2) = 0
  <2>1. k = 10 => 3 * k + 2 \in Nat /\ 3 * k + 2 > 31
    OBVIOUS
  <2> QED
    BY <2>1, BitIs
<1> QED
  BY <1>1, <1>2 DEF Three

\* A set of digits that holds the first and with each the next holds all.
LEMMA AllDigits ==
  ASSUME NEW S, 0 \in S, \A k \in 0..9 : k \in S => k + 1 \in S
  PROVE  \A k \in 0..10 : k \in S
<1>1. 1 \in S /\ 2 \in S /\ 3 \in S /\ 4 \in S /\ 5 \in S
  OBVIOUS
<1>2. 6 \in S /\ 7 \in S /\ 8 \in S /\ 9 \in S /\ 10 \in S
  BY <1>1
<1>3. \A k \in 0..10 : \/ k = 0 \/ k = 1 \/ k = 2 \/ k = 3 \/ k = 4 \/ k = 5
                       \/ k = 6 \/ k = 7 \/ k = 8 \/ k = 9 \/ k = 10
  OBVIOUS
<1> QED
  BY <1>1, <1>2, <1>3

\* Where no digit is more than that of a, the difference has no borrows.
LEMMA ThreeMinus ==
  ASSUME NEW a \in Words, NEW b \in Words, \A k \in 0..10 : Three(b, k) <= Three(a, k)
  PROVE  /\ Minus(a, b) \in Words
         /\ \A k \in 0..10 : Three(Minus(a, b), k) = Three(a, k) - Three(b, k)
<1> DEFINE c == (0..31) \ b
           n == Plus(c, {0})
           m == Plus(a, n)
           u(k) == Carry(c, {0}, 3 * k)
           v(k) == Carry(a, n, 3 * k)
           first(k) == IF k = 0 THEN 1 ELSE 0
           S == {k \in 0..10 : u(k) + v(k) + first(k) = 1}
<1>1. c \in Words /\ {0} \in Words /\ n \in Words /\ m \in Words
  <2>1. c \in Words /\ {0} \in Words
    BY DEF Words
  <2> HIDE DEF c
  <2> QED
    BY <2>1, PlusIs
<1>2. Minus(a, b) = m
  BY DEF Minus, Neg, Bits
<1>3. \A k \in 0..10 : /\ Three(c, k) = (IF k = 10 THEN 3 ELSE 7) - Three(b, k)
                       /\ Three({0}, k) = first(k)
  <2> SUFFICES ASSUME NEW k \in 0..10
               PROVE  /\ Three(c, k) = (IF k = 10 THEN 3 ELSE 7) - Three(b, k)
                      /\ Three({0}, k) = first(k)
    OBVIOUS
  <2>1. \A i \in 0..31 : Bit(c, i) = 1 - Bit(b, i)
    BY DEF Bit
  <2>2. 3 * k \in 0..31 /\ 3 * k + 1 \in 0..31 /\ (k # 10 => 3 * k + 2 \in 0..31)
    OBVIOUS
  <2>3. k = 10 => Bit(c, 3 * k + 2) = 0 /\ Bit(b, 3 * k + 2) = 0
    <3>1. k = 10 => 3 * k + 2 \in Nat /\ 3 * k + 2 > 31
      OBVIOUS
    <3> HIDE DEF c
    <3> QED
      BY <1>1, <3>1, BitIs
  <2>4. Bit(b, 3 * k) \in 0..1 /\ Bit(b, 3 * k + 1) \in 0..1 /\ Bit(b, 3 * k + 2) \in 0..1
    BY BitIs
  <2>5. Three({0}, k) = first(k)
    BY DEF Three, Bit
  <2> HIDE DEF c
  <2>6. /\ Bit(c, 3 * k) = 1 - Bit(b, 3 * k) /\ Bit(c, 3 * k + 1) = 1 - Bit(b, 3 * k + 1)
        /\ k # 10 => Bit(c, 3 * k + 2) = 1 - Bit(b, 3 * k + 2)
    BY <2>1, <2>2
  <2>7. Three(c, k) = (IF k = 10 THEN 3 ELSE 7) - Three(b, k)
    BY <2>3, <2>4, <2>6 DEF Three
  <2> QED
    BY <2>5, <2>7
<1>4. ASSUME NEW k \in 0..10, k \in S
      PROVE  Three(m, k) = Three(a, k) - Three(b, k) /\ (k # 10 => k + 1 \in S)
  <2>1. u(k) + v(k) + first(k) = 1
    BY <1>4
  <2>2. /\ Three(n, k) + (IF k = 10 THEN 4 * Carry(c, {0}, 32) ELSE 8 * u(k + 1)) = Three(c, k) + Three({0}, k) + u(k)
        /\ Three(m, k) + (IF k = 10 THEN 4 * Carry(a, n, 32) ELSE 8 * v(k + 1)) = Three(a, k) + Three(n, k) + v(k)
    <3> HIDE DEF c, n
    <3> QED
      BY <1>1, ThreeSum DEF n, m
  <2>3. /\ u(k) \in 0..1 /\ v(k) \in 0..1 /\ u(k + 1) \in 0..1 /\ v(k + 1) \in 0..1
        /\ Carry(c, {0}, 32) \in 0..1 /\ Carry(a, n, 32) \in 0..1
    <3> HIDE DEF c, n
    <3> QED
      BY <1>1, PlusIs
  <2>4. /\ Three(a, k) \in 0..7 /\ Three(b, k) \in 0..7 /\ Three(m, k) \in 0..7 /\ Three(n, k) \in 0..7
        /\ k = 10 => Three(a, k) \in 0..3 /\ Three(b, k) \in 0..3 /\ Three(m, k) \in 0..3
    <3> HIDE DEF c, n, m
    <3> QED
      BY <1>1, ThreeIs
  <2>5. Three(b, k) <= Three(a, k)
    OBVIOUS
  <2>6. first(k) \in 0..1 /\ (k # 10 => first(k + 1) = 0 /\ k + 1 \in 0..10)
    OBVIOUS
  <2>7. /\ Three(c, k) = (IF k = 10 THEN 3 ELSE 7) - Three(b, k)
        /\ Three({0}, k) = first(k)
    BY <1>3
  <2> HIDE DEF c, n, m, u, v, first
  <2>8. CASE k = 10
    BY <2>1, <2>2, <2>3, <2>4, <2>5, <2>6, <2>7, <2>8
  <2>9. CASE k # 10
    <3>1. Three(m, k) = Three(a, k) - Three(b, k) /\ u(k + 1) + v(k + 1) = 1
      BY <2>1, <2>2, <2>3, <2>4, <2>5, <2>6, <2>7, <2>9
    <3> QED
      BY <2>6, <2>9, <3>1, <2>3
  <2> QED
    BY <2>8, <2>9
<1>5. 0 \in S
  <2>1. u(0) = 0 /\ v(0) = 0
    <3> HIDE DEF c, n
    <3>1. 3 * 0 = 0
      OBVIOUS
    <3> QED
      BY <1>1, <3>1, PlusIs
  <2> HIDE DEF u, v
  <2> QED
    BY <2>1
<1> HIDE DEF S, m, n
<1>6. \A k \in 0..9 : k \in S => k + 1 \in S
  BY <1>4
<1>7. \A k \in 0..10 : k \in S
  BY <1>5, <1>6, AllDigits
<1> QED
  BY <1>1, <1>2, <1>4, <1>7

\* A shift moves bits, and a mask keeps some.
LEMMA ShiftedBit ==
  ASSUME NEW a \in Words, NEW n \in Nat, NEW i \in Nat
  PROVE  Shr(a, n) \in Words /\ Bit(Shr(a, n), i) = Bit(a, i + n)
<1>1. \A b \in a : b \in 0..31
  BY DEF Words
<1>2. i \in Shr(a, n) <=> i + n \in a
  BY <1>1 DEF Shr
<1>3. Shr(a, n) \subseteq 0..31
  <2> SUFFICES ASSUME NEW b \in a, b >= n PROVE b - n \in 0..31
    BY DEF Shr
  <2> QED
    BY <1>1
<1> QED
  BY <1>2, <1>3 DEF Bit, Words

\* The digits in the count of y: the middle bit taken off ...
LEMMA CountOne ==
  ASSUME NEW y \in Words,
         NEW a, a = Minus(y, Shr(y \cap Shl(Thirds, 1), 1))
  PROVE  /\ a \in Words
         /\ \A k \in 0..10 : Three(a, k) = Bit(y, 3 * k) + Bit(y, 3 * k + 1) + 4 * Bit(y, 3 * k + 2)
<1> DEFINE z == y \cap Shl(Thirds, 1)
           b == Shr(z, 1)
<1>1. z \in Words
  BY DEF Words
<1>2. \A i \in 0..31 : i \in Shl(Thirds, 1) <=> i % 3 = 1
  <2> SUFFICES ASSUME NEW i \in 0..31
               PROVE  i \in Shl(Thirds, 1) <=> i % 3 = 1
    OBVIOUS
  <2>1. i \in Shl(Thirds, 1) <=> \E j \in 0..10 : i = 3 * j + 1
    BY DEF Shl, Thirds, Bits
  <2>2. \A j \in 0..10 : (3 * j + 1) % 3 = 1
    OBVIOUS
  <2>3. i % 3 = 1 => i = 3 * (i \div 3) + 1 /\ i \div 3 \in 0..10
    OBVIOUS
  <2> QED
    BY <2>1, <2>2, <2>3
<1>3. ASSUME NEW k \in 0..10
      PROVE  Three(b, k) = Bit(y, 3 * k + 1)
  <2>1. /\ Bit(b, 3 * k) = Bit(z, 3 * k + 1)
        /\ Bit(b, 3 * k + 1) = Bit(z, 3 * k + 2)
        /\ Bit(b, 3 * k + 2) = Bit(z, 3 * k + 3)
    <3>1. /\ 3 * k \in Nat /\ 3 * k + 1 \in Nat /\ 3 * k + 2 \in Nat
          /\ (3 * k + 1) + 1 = 3 * k + 2 /\ (3 * k + 2) + 1 = 3 * k + 3
      OBVIOUS
    <3> HIDE DEF z
    <3> QED
      BY <1>1, <3>1, ShiftedBit
  <2>2. 3 * k + 1 \in 0..31 /\ (3 * k + 1) % 3 = 1 /\ (3 * k + 2) % 3 # 1 /\ (3 * k + 3) % 3 # 1
    OBVIOUS
  <2>3. 3 * k + 1 \in z <=> 3 * k + 1 \in y
    BY <1>2, <2>2
  <2>4. 3 * k + 2 \notin z /\ 3 * k + 3 \notin z
    <3>1. \A i \in z : i \in 0..31 /\ i % 3 = 1
      BY <1>2 DEF Words
    <3> QED
      BY <2>2, <3>1
  <2> HIDE DEF z, b
  <2>5. Bit(z, 3 * k + 1) = Bit(y, 3 * k + 1) /\ Bit(z, 3 * k + 2) = 0 /\ Bit(z, 3 * k + 3) = 0
    BY <2>3, <2>4 DEF Bit
  <2>6. Bit(y, 3 * k + 1) \in 0..1
    BY BitIs
  <2> QED
    BY <2>1, <2>5, <2>6 DEF Three
<1>4. b \in Words
  <2> HIDE DEF z
  <2>1. 0 \in Nat /\ 1 \in Nat
    OBVIOUS
  <2> QED
    BY <1>1, <2>1, ShiftedBit
<1> HIDE DEF b
<1>5. \A k \in 0..10 : /\ Bit(y, 3 * k) \in 0..1 /\ Bit(y, 3 * k + 1) \in 0..1 /\ Bit(y, 3 * k + 2) \in 0..1
                       /\ Three(y, k) = Bit(y, 3 * k) + 2 * Bit(y, 3 * k + 1) + 4 * Bit(y, 3 * k + 2)
  BY BitIs DEF Three
<1>6. \A k \in 0..10 : Three(b, k) <= Three(y, k)
  BY <1>3, <1>5
<1>7. a = Minus(y, b)
  BY DEF b
<1>8. a \in Words /\ \A k \in 0..10 : Three(a, k) = Three(y, k) - Three(b, k)
  BY <1>4, <1>6, <1>7, ThreeMinus
<1> QED
  BY <1>3, <1>5, <1>8

\* A digit of the count of y: its two lower bits and the top bit of the digit before.
Before(y, k) == IF k = 0 THEN 0 ELSE Bit(y, 3 * k - 1)
Count(y, k)  == Bit(y, 3 * k) + Bit(y, 3 * k + 1) + Before(y, k)

\* ... and the top bit carried into the next digit, so that no digit is more than 3 ...
LEMMA CountTwo ==
  ASSUME NEW y \in Words, NEW a \in Words,
         \A k \in 0..10 : Three(a, k) = Bit(y, 3 * k) + Bit(y, 3 * k + 1) + 4 * Bit(y, 3 * k + 2),
         NEW b, b = Plus(a, a \cap Shr(Thirds, 1))
  PROVE  b \in Words /\ \A k \in 0..10 : Three(b, k) = Count(y, k) /\ Count(y, k) \in 0..3
<1> DEFINE t == a \cap Shr(Thirds, 1)
           c(k) == Carry(a, t, 3 * k)
<1>1. \A i \in 0..31 : i \in Shr(Thirds, 1) <=> i % 3 = 2 /\ i # 32
  <2> SUFFICES ASSUME NEW i \in 0..31
               PROVE  i \in Shr(Thirds, 1) <=> i % 3 = 2
    OBVIOUS
  <2>1. i \in Shr(Thirds, 1) <=> \E j \in 0..10 : 3 * j >= 1 /\ i = 3 * j - 1
    BY DEF Shr, Thirds
  <2>2. \A j \in 0..10 : 3 * j >= 1 => (3 * j - 1) % 3 = 2
    OBVIOUS
  <2>3. i % 3 = 2 => i = 3 * (i \div 3 + 1) - 1 /\ i \div 3 + 1 \in 0..10 /\ 3 * (i \div 3 + 1) >= 1
    OBVIOUS
  <2> QED
    BY <2>1, <2>2, <2>3
<1>2. t \in Words
  BY DEF Words
<1>3. ASSUME NEW k \in 0..10
      PROVE  Three(t, k) = 4 * Bit(a, 3 * k + 2)
  <2>1. 3 * k \in 0..31 /\ 3 * k + 1 \in 0..31 /\ (3 * k) % 3 = 0 /\ (3 * k + 1) % 3 = 1 /\ (3 * k + 2) % 3 = 2
        /\ (k # 10 => 3 * k + 2 \in 0..31) /\ (k = 10 => 3 * k + 2 \notin 0..31)
    OBVIOUS
  <2>2. 3 * k \notin t /\ 3 * k + 1 \notin t
    BY <1>1, <2>1
  <2>3. 3 * k + 2 \in t <=> 3 * k + 2 \in a
    <3>1. CASE k = 10
      BY <2>1, <3>1 DEF Words
    <3>2. CASE k # 10
      BY <1>1, <2>1, <3>2
    <3> QED
      BY <3>1, <3>2
  <2> HIDE DEF t
  <2>4. Bit(t, 3 * k) = 0 /\ Bit(t, 3 * k + 1) = 0 /\ Bit(t, 3 * k + 2) = Bit(a, 3 * k + 2)
    BY <2>2, <2>3 DEF Bit
  <2>5. Bit(a, 3 * k + 2) \in 0..1
    BY BitIs
  <2> QED
    BY <2>4, <2>5 DEF Three
<1>4. b = Plus(a, t)
  OBVIOUS
<1> HIDE DEF t
<1>5. b \in Words
  BY <1>2, <1>4, PlusIs
<1>6. ASSUME NEW k \in 0..10
      PROVE  /\ Three(b, k) = Bit(y, 3 * k) + Bit(y, 3 * k + 1) + c(k) /\ c(k) \in 0..1
             /\ k # 10 => c(k + 1) = Bit(y, 3 * k + 2)
             /\ Bit(y, 3 * k) \in 0..1 /\ Bit(y, 3 * k + 1) \in 0..1
  <2>1. Three(b, k) + (IF k = 10 THEN 4 * Carry(a, t, 32) ELSE 8 * c(k + 1)) = Three(a, k) + Three(t, k) + c(k)
    BY <1>2, <1>4, ThreeSum
  <2>2. c(k) \in 0..1 /\ c(k + 1) \in 0..1 /\ Carry(a, t, 32) \in 0..1
    BY <1>2, PlusIs
  <2>3. Bit(y, 3 * k) \in 0..1 /\ Bit(y, 3 * k + 1) \in 0..1 /\ Bit(y, 3 * k + 2) \in 0..1
    BY BitIs
  <2>4. Bit(a, 3 * k) \in 0..1 /\ Bit(a, 3 * k + 1) \in 0..1 /\ Bit(a, 3 * k + 2) \in 0..1
    BY BitIs
  <2>5. Three(a, k) = Bit(a, 3 * k) + 2 * Bit(a, 3 * k + 1) + 4 * Bit(a, 3 * k + 2)
    BY DEF Three
  <2>6. Three(a, k) = Bit(y, 3 * k) + Bit(y, 3 * k + 1) + 4 * Bit(y, 3 * k + 2)
    OBVIOUS
  <2>7. Bit(a, 3 * k + 2) = Bit(y, 3 * k + 2)
    BY <2>3, <2>4, <2>5, <2>6
  <2>8. Three(t, k) = 4 * Bit(y, 3 * k + 2)
    BY <1>3, <2>7
  <2>9. Three(b, k) \in 0..7 /\ (k = 10 => Three(b, k) \in 0..3)
    BY <1>5, ThreeIs
  <2>10. k = 10 => Bit(y, 3 * k + 2) = 0
    <3>1. k = 10 => 3 * k + 2 \in Nat /\ 3 * k + 2 > 31
      OBVIOUS
    <3> QED
      BY <3>1, BitIs
  <2> HIDE DEF c
  <2>11. CASE k = 10
    BY <2>1, <2>2, <2>3, <2>6, <2>8, <2>9, <2>10, <2>11
  <2>12. CASE k # 10
    BY <2>1, <2>2, <2>3, <2>6, <2>8, <2>9, <2>12
  <2> QED
    BY <2>11, <2>12
<1>7. \A k \in 0..10 : c(k) = Before(y, k)
  <2> SUFFICES ASSUME NEW k \in 0..10 PROVE c(k) = Before(y, k)
    OBVIOUS
  <2>1. CASE k = 0
    <3>1. 3 * k = 0
      BY <2>1
    <3> QED
      BY <1>2, <2>1, <3>1, PlusIs DEF Before
  <2>2. CASE k # 0
    <3>1. k - 1 \in 0..10 /\ k - 1 # 10 /\ (k - 1) + 1 = k /\ 3 * (k - 1) + 2 = 3 * k - 1
      BY <2>2
    <3> HIDE DEF c
    <3>2. c((k - 1) + 1) = Bit(y, 3 * (k - 1) + 2)
      BY <1>6, <3>1
    <3> QED
      BY <2>2, <3>1, <3>2 DEF Before
  <2> QED
    BY <2>1, <2>2
<1> HIDE DEF c
<1> QED
  BY <1>5, <1>6, <1>7 DEF Count

\* ... then two digits make one of six bits ...
LEMMA CountThree ==
  ASSUME NEW b \in Words, \A k \in 0..10 : Three(b, k) \in 0..3,
         NEW c, c = Plus(b, Shr(b, 3)) \cap Pairs
  PROVE  /\ c \in Words
         /\ \A j \in 0..5 : Six(c, j) = Three(b, 2 * j) + (IF j = 5 THEN 0 ELSE Three(b, 2 * j + 1))
<1> DEFINE s == Shr(b, 3)
           p == Plus(b, s)
           v(k) == Carry(b, s, 3 * k)
           S == {k \in 0..10 : v(k) = 0}
<1>1. s \in Words
  <2>1. 0 \in Nat /\ 3 \in Nat
    OBVIOUS
  <2> QED
    BY <2>1, ShiftedBit
<1>2. p \in Words
  <2> HIDE DEF s
  <2> QED
    BY <1>1, PlusIs
<1>3. ASSUME NEW k \in 0..10
      PROVE  Three(s, k) = IF k = 10 THEN 0 ELSE Three(b, k + 1)
  <2>1. /\ Bit(s, 3 * k) = Bit(b, 3 * k + 3)
        /\ Bit(s, 3 * k + 1) = Bit(b, 3 * k + 4)
        /\ Bit(s, 3 * k + 2) = Bit(b, 3 * k + 5)
    <3>1. /\ 3 \in Nat /\ 3 * k \in Nat /\ 3 * k + 1 \in Nat /\ 3 * k + 2 \in Nat
          /\ (3 * k + 1) + 3 = 3 * k + 4 /\ (3 * k + 2) + 3 = 3 * k + 5
      OBVIOUS
    <3>2. /\ Bit(s, 3 * k) = Bit(b, 3 * k + 3)
          /\ Bit(s, 3 * k + 1) = Bit(b, (3 * k + 1) + 3)
          /\ Bit(s, 3 * k + 2) = Bit(b, (3 * k + 2) + 3)
      BY <3>1, ShiftedBit
    <3> QED
      BY <3>1, <3>2
  <2>2. k = 10 => Bit(b, 3 * k + 3) = 0 /\ Bit(b, 3 * k + 4) = 0 /\ Bit(b, 3 * k + 5) = 0
    <3>1. k = 10 => /\ 3 * k + 3 \in Nat /\ 3 * k + 3 > 31 /\ 3 * k + 4 \in Nat /\ 3 * k + 4 > 31
                    /\ 3 * k + 5 \in Nat /\ 3 * k + 5 > 31
      OBVIOUS
    <3> QED
      BY <3>1, BitIs
  <2>3. 3 * (k + 1) = 3 * k + 3 /\ 3 * (k + 1) + 1 = 3 * k + 4 /\ 3 * (k + 1) + 2 = 3 * k + 5
    OBVIOUS
  <2>4. Three(b, k + 1) = Bit(b, 3 * k + 3) + 2 * Bit(b, 3 * k + 4) + 4 * Bit(b, 3 * k + 5)
    BY <2>3 DEF Three
  <2> HIDE DEF s
  <2> QED
    BY <2>1, <2>2, <2>4 DEF Three
<1>4. c = p \cap Pairs
  OBVIOUS
<1> HIDE DEF s
<1>5. \A k \in 0..10 : /\ Three(p, k) + (IF k = 10 THEN 4 * Carry(b, s, 32) ELSE 8 * v(k + 1))
                            = Three(b, k) + Three(s, k) + v(k)
                       /\ v(k) \in 0..1 /\ v(k + 1) \in 0..1 /\ Carry(b, s, 32) \in 0..1
  BY <1>1, ThreeSum, PlusIs
<1>6. 0 \in S
  <2>1. 3 * 0 = 0
    OBVIOUS
  <2> QED
    BY <1>1, <2>1, PlusIs
<1>7. \A k \in 0..10 : Three(p, k) \in 0..7 /\ (k = 10 => Three(p, k) \in 0..3)
  <2> HIDE DEF p
  <2> QED
    BY <1>2, ThreeIs
<1>8. \A k \in 0..9 : k + 1 \in 0..10
  OBVIOUS
<1>9. \A k \in 0..10 : k # 10 => k \in 0..9
  OBVIOUS
<1> HIDE DEF p
<1>10. ASSUME NEW k \in 0..10, k \in S
       PROVE  Three(p, k) = Three(b, k) + Three(s, k) /\ (k # 10 => k + 1 \in S)
  <2>1. v(k) = 0
    BY <1>10
  <2>2. /\ Three(p, k) + (IF k = 10 THEN 4 * Carry(b, s, 32) ELSE 8 * v(k + 1)) = Three(b, k) + Three(s, k) + v(k)
        /\ v(k) \in 0..1 /\ v(k + 1) \in 0..1 /\ Carry(b, s, 32) \in 0..1
    BY <1>5
  <2>3. Three(b, k) \in 0..3 /\ (k # 10 => Three(b, k + 1) \in 0..3)
    BY <1>8, <1>9
  <2>4. Three(p, k) \in 0..7 /\ (k = 10 => Three(p, k) \in 0..3)
    BY <1>7
  <2>5. Three(s, k) = IF k = 10 THEN 0 ELSE Three(b, k + 1)
    BY <1>3
  <2> HIDE DEF v
  <2>6. CASE k = 10
    BY <2>1, <2>2, <2>3, <2>4, <2>5, <2>6
  <2>7. CASE k # 10
    <3>1. Three(p, k) = Three(b, k) + Three(s, k) /\ v(k + 1) = 0
      BY <2>1, <2>2, <2>3, <2>4, <2>5, <2>7
    <3> QED
      BY <1>8, <1>9, <2>7, <3>1
  <2> QED
    BY <2>6, <2>7
<1>11. \A k \in 0..9 : k \in S => k + 1 \in S
  <2> HIDE DEF S
  <2> QED
    BY <1>10
<1>12. \A k \in 0..10 : k \in S
  <2> HIDE DEF S
  <2> QED
    BY <1>6, <1>11, AllDigits
<1> HIDE DEF S
<1>13. \A i \in 0..31 : i \in Pairs <=> i % 6 \in {0, 1, 2}
  BY DEF Pairs, Bits
<1>14. c \in Words
  BY <1>2, <1>4 DEF Words
<1>15. ASSUME NEW j \in 0..5
       PROVE  Three(c, 2 * j) = Three(p, 2 * j) /\ Three(c, 2 * j + 1) = 0
  <2>1. /\ 3 * (2 * j) = 6 * j /\ 3 * (2 * j + 1) = 6 * j + 3
        /\ (6 * j) % 6 = 0 /\ (6 * j + 1) % 6 = 1 /\ (6 * j + 2) % 6 = 2
        /\ (6 * j + 3) % 6 = 3 /\ ((6 * j + 3) + 1) % 6 = 4 /\ ((6 * j + 3) + 2) % 6 = 5
    OBVIOUS
  <2>2. \A i \in 0..31 : i \in c <=> i \in p /\ i % 6 \in {0, 1, 2}
    BY <1>4, <1>13
  <2>3. \A i : i \in c \/ i \in p => i \in 0..31
    BY <1>2, <1>14 DEF Words
  <2>4. /\ 6 * j \in c <=> 6 * j \in p
        /\ 6 * j + 1 \in c <=> 6 * j + 1 \in p
        /\ 6 * j + 2 \in c <=> 6 * j + 2 \in p
    BY <2>1, <2>2, <2>3
  <2>5. 6 * j + 3 \notin c /\ (6 * j + 3) + 1 \notin c /\ (6 * j + 3) + 2 \notin c
    BY <2>1, <2>2, <2>3
  <2>6. Three(c, 2 * j) = Three(p, 2 * j)
    BY <2>1, <2>4 DEF Three, Bit
  <2>7. Three(c, 2 * j + 1) = 0
    BY <2>1, <2>5 DEF Three, Bit
  <2> QED
    BY <2>6, <2>7
<1>16. ASSUME NEW j \in 0..5
       PROVE  Six(c, j) = Three(b, 2 * j) + (IF j = 5 THEN 0 ELSE Three(b, 2 * j + 1))
  <2>1. 2 * j \in 0..10 /\ (2 * j = 10 <=> j = 5) /\ (j # 5 => 2 * j + 1 \in 0..10)
    OBVIOUS
  <2>2. Three(p, 2 * j) = Three(b, 2 * j) + Three(s, 2 * j)
    BY <1>10, <1>12, <2>1
  <2>3. Three(s, 2 * j) = IF j = 5 THEN 0 ELSE Three(b, 2 * j + 1)
    BY <1>3, <2>1
  <2>4. Three(b, 2 * j) \in 0..3 /\ (j # 5 => Three(b, 2 * j + 1) \in 0..3)
    BY <2>1
  <2>5. Three(c, 2 * j) = Three(p, 2 * j) /\ Three(c, 2 * j + 1) = 0
    BY <1>15
  <2> QED
    BY <2>2, <2>3, <2>4, <2>5 DEF Six
<1> QED
  BY <1>14, <1>16

\* A digit of six bits; the sixth has two, and there are no more.
LEMMA SixIs ==
  ASSUME NEW a \in Words
  PROVE  /\ \A j \in 0..4 : Six(a, j) \in 0..63
         /\ Six(a, 5) \in 0..3
         /\ \A j \in Nat : j > 5 => Six(a, j) = 0
<1>1. \A j \in 0..4 : Six(a, j) \in 0..63
  <2> SUFFICES ASSUME NEW j \in 0..4 PROVE Six(a, j) \in 0..63
    OBVIOUS
  <2>1. 2 * j \in 0..10 /\ 2 * j + 1 \in 0..10
    OBVIOUS
  <2>2. Three(a, 2 * j) \in 0..7 /\ Three(a, 2 * j + 1) \in 0..7
    BY <2>1, ThreeIs
  <2> QED
    BY <2>2 DEF Six
<1>2. ASSUME NEW k \in Nat, k > 10 PROVE Three(a, k) = 0
  <2>1. /\ 3 * k \in Nat /\ 3 * k > 31 /\ 3 * k + 1 \in Nat /\ 3 * k + 1 > 31
        /\ 3 * k + 2 \in Nat /\ 3 * k + 2 > 31
    BY <1>2
  <2>2. Bit(a, 3 * k) = 0 /\ Bit(a, 3 * k + 1) = 0 /\ Bit(a, 3 * k + 2) = 0
    BY <2>1, BitIs
  <2> QED
    BY <2>2 DEF Three
<1>3. Six(a, 5) \in 0..3
  <2>1. Three(a, 10) \in 0..3
    BY ThreeIs
  <2>2. Three(a, 11) = 0
    BY <1>2
  <2>3. 2 * 5 = 10 /\ 2 * 5 + 1 = 11
    OBVIOUS
  <2> QED
    BY <2>1, <2>2, <2>3 DEF Six
<1>4. \A j \in Nat : j > 5 => Six(a, j) = 0
  <2> SUFFICES ASSUME NEW j \in Nat, j > 5 PROVE Six(a, j) = 0
    OBVIOUS
  <2>1. 2 * j \in Nat /\ 2 * j > 10 /\ 2 * j + 1 \in Nat /\ 2 * j + 1 > 10
    OBVIOUS
  <2>2. Three(a, 2 * j) = 0 /\ Three(a, 2 * j + 1) = 0
    BY <1>2, <2>1
  <2> QED
    BY <2>2 DEF Six
<1> QED
  BY <1>1, <1>3, <1>4

\* Digits of six bits added to those m places below, and that they do not overflow.
Fold(a, n) == Plus(a, Shr(a, n))
Places(n, m)  == m \in Nat /\ n = 6 * m
Roomy(a, m)   == \A j \in 0..4 : Six(a, j) + Six(a, j + m) < 64

\* ... and digits are added to those m places below, which they do not overflow ...
LEMMA Folded ==
  ASSUME NEW a \in Words, NEW n, NEW m, Places(n, m), Roomy(a, m)
  PROVE  /\ Fold(a, n) \in Words
         /\ \A j \in 0..4 : Six(Fold(a, n), j) = Six(a, j) + Six(a, j + m)
<1> DEFINE s == Shr(a, n)
           e == Fold(a, n)
           v(j) == Carry(a, s, 6 * j)
<1>0. m \in Nat /\ n = 6 * m /\ n \in Nat
  BY DEF Places
<1>1. s \in Words /\ \A i \in Nat : Bit(s, i) = Bit(a, i + 6 * m)
  <2>1. 0 \in Nat
    OBVIOUS
  <2> QED
    BY <1>0, <2>1, ShiftedBit
<1>2. e = Plus(a, s)
  BY DEF Fold
<1> HIDE DEF s, e
<1>3. e \in Words
  BY <1>1, <1>2, PlusIs
<1>4. \A k \in Nat : Three(s, k) = Three(a, k + 2 * m)
  <2> SUFFICES ASSUME NEW k \in Nat PROVE Three(s, k) = Three(a, k + 2 * m)
    OBVIOUS
  <2>1. /\ 3 * k \in Nat /\ 3 * k + 1 \in Nat /\ 3 * k + 2 \in Nat
        /\ 3 * k + 6 * m = 3 * (k + 2 * m)
        /\ (3 * k + 1) + 6 * m = 3 * (k + 2 * m) + 1
        /\ (3 * k + 2) + 6 * m = 3 * (k + 2 * m) + 2
    BY <1>0
  <2>2. /\ Bit(s, 3 * k) = Bit(a, 3 * (k + 2 * m))
        /\ Bit(s, 3 * k + 1) = Bit(a, 3 * (k + 2 * m) + 1)
        /\ Bit(s, 3 * k + 2) = Bit(a, 3 * (k + 2 * m) + 2)
    BY <1>1, <2>1
  <2> QED
    BY <2>2 DEF Three
<1>5. ASSUME NEW j \in 0..4
      PROVE  /\ Six(s, j) = Six(a, j + m)
             /\ Six(e, j) + 64 * v(j + 1) = Six(a, j) + Six(s, j) + v(j)
             /\ v(j) \in 0..1 /\ v(j + 1) \in 0..1
             /\ Six(a, j) \in 0..63 /\ Six(s, j) \in 0..63 /\ Six(e, j) \in 0..63
  <2>1. /\ 2 * j \in 0..10 /\ 2 * j # 10 /\ 2 * j + 1 \in 0..10 /\ 2 * j + 1 # 10
        /\ 2 * j \in Nat /\ 2 * j + 1 \in Nat
        /\ 2 * j + 2 * m = 2 * (j + m) /\ (2 * j + 1) + 2 * m = 2 * (j + m) + 1
        /\ 3 * ((2 * j + 1) + 1) = 6 * (j + 1) /\ 3 * (2 * j) = 6 * j /\ 3 * (2 * j + 1) = 6 * j + 3
    BY <1>0
  <2>2. Six(s, j) = Six(a, j + m)
    BY <1>4, <2>1 DEF Six
  <2>3. Three(e, 2 * j) + 8 * Carry(a, s, 6 * j + 3) = Three(a, 2 * j) + Three(s, 2 * j) + v(j)
    <3>1. Three(e, 2 * j) + 8 * Carry(a, s, 3 * (2 * j + 1))
            = Three(a, 2 * j) + Three(s, 2 * j) + Carry(a, s, 3 * (2 * j))
      BY <1>1, <1>2, <2>1, ThreeSum
    <3> QED
      BY <2>1, <3>1
  <2>4. Three(e, 2 * j + 1) + 8 * v(j + 1) = Three(a, 2 * j + 1) + Three(s, 2 * j + 1) + Carry(a, s, 6 * j + 3)
    <3>1. Three(e, 2 * j + 1) + 8 * Carry(a, s, 3 * ((2 * j + 1) + 1))
            = Three(a, 2 * j + 1) + Three(s, 2 * j + 1) + Carry(a, s, 3 * (2 * j + 1))
      BY <1>1, <1>2, <2>1, ThreeSum
    <3> QED
      BY <2>1, <3>1
  <2>5. v(j) \in 0..1 /\ v(j + 1) \in 0..1 /\ Carry(a, s, 6 * j + 3) \in 0..1
    BY <1>1, PlusIs
  <2>6. /\ Three(a, 2 * j) \in 0..7 /\ Three(a, 2 * j + 1) \in 0..7
        /\ Three(s, 2 * j) \in 0..7 /\ Three(s, 2 * j + 1) \in 0..7
        /\ Three(e, 2 * j) \in 0..7 /\ Three(e, 2 * j + 1) \in 0..7
    BY <1>1, <1>3, <2>1, ThreeIs
  <2>7. Six(a, j) \in 0..63 /\ Six(s, j) \in 0..63 /\ Six(e, j) \in 0..63
    BY <1>1, <1>3, SixIs
  <2>8. /\ Six(a, j) = Three(a, 2 * j) + 8 * Three(a, 2 * j + 1)
        /\ Six(s, j) = Three(s, 2 * j) + 8 * Three(s, 2 * j + 1)
        /\ Six(e, j) = Three(e, 2 * j) + 8 * Three(e, 2 * j + 1)
    BY DEF Six
  <2> HIDE DEF v
  <2>9. Six(e, j) + 64 * v(j + 1) = Six(a, j) + Six(s, j) + v(j)
    BY <2>3, <2>4, <2>5, <2>6, <2>8
  <2> QED
    BY <2>2, <2>5, <2>7, <2>9
<1>6. v(0) = 0
  <2>1. 6 * 0 = 0
    OBVIOUS
  <2> QED
    BY <1>1, <2>1, PlusIs
<1> HIDE DEF v
<1>7. \A j \in 0..4 : v(j) = 0 => v(j + 1) = 0 /\ Six(e, j) = Six(a, j) + Six(a, j + m)
  <2> SUFFICES ASSUME NEW j \in 0..4, v(j) = 0
               PROVE  v(j + 1) = 0 /\ Six(e, j) = Six(a, j) + Six(a, j + m)
    OBVIOUS
  <2>1. Six(a, j) + Six(a, j + m) < 64
    BY DEF Roomy
  <2>2. /\ Six(s, j) = Six(a, j + m)
        /\ Six(e, j) + 64 * v(j + 1) = Six(a, j) + Six(s, j) + v(j)
        /\ v(j + 1) \in 0..1 /\ Six(a, j) \in 0..63 /\ Six(s, j) \in 0..63 /\ Six(e, j) \in 0..63
    BY <1>5
  <2> QED
    BY <2>1, <2>2
<1>8. v(1) = 0 /\ v(2) = 0 /\ v(3) = 0 /\ v(4) = 0
  <2>1. v(1) = 0
    BY <1>6, <1>7
  <2>2. v(2) = 0
    BY <1>7, <2>1
  <2>3. v(3) = 0
    BY <1>7, <2>2
  <2>4. v(4) = 0
    BY <1>7, <2>3
  <2> QED
    BY <2>1, <2>2, <2>3, <2>4
<1>9. \A j \in 0..4 : j = 0 \/ j = 1 \/ j = 2 \/ j = 3 \/ j = 4
  OBVIOUS
<1> QED
  BY <1>3, <1>6, <1>7, <1>8, <1>9 DEF e

\* ... until the lowest six bits hold the sum of all digits.
LEMMA CountFour ==
  ASSUME NEW c \in Words, \A j \in 0..4 : Six(c, j) \in 0..6,
         NEW d, d = Plus(c, Shr(c, 6)),
         NEW e, e = Plus(d, Shr(d, 12)),
         NEW f, f = Plus(e, Shr(e, 24))
  PROVE  /\ f \in Words
         /\ Six(f, 0) = Six(c, 0) + Six(c, 1) + Six(c, 2) + Six(c, 3) + Six(c, 4) + Six(c, 5)
<1>1. /\ Six(c, 0) \in 0..6 /\ Six(c, 1) \in 0..6 /\ Six(c, 2) \in 0..6 /\ Six(c, 3) \in 0..6
      /\ Six(c, 4) \in 0..6 /\ Six(c, 5) \in 0..3
  BY SixIs
<1>2. \A j \in 0..4 : j = 0 \/ j = 1 \/ j = 2 \/ j = 3 \/ j = 4
  OBVIOUS
<1>3. /\ 0 + 1 = 1 /\ 1 + 1 = 2 /\ 2 + 1 = 3 /\ 3 + 1 = 4 /\ 4 + 1 = 5
      /\ 0 + 2 = 2 /\ 1 + 2 = 3 /\ 2 + 2 = 4 /\ 3 + 2 = 5 /\ 4 + 2 = 6
      /\ 0 + 4 = 4 /\ 1 + 4 = 5 /\ 2 + 4 = 6 /\ 3 + 4 = 7 /\ 4 + 4 = 8
  OBVIOUS
<1>4. d \in Words /\ \A j \in 0..4 : Six(d, j) = Six(c, j) + Six(c, j + 1)
  <2>1. Roomy(c, 1)
    BY <1>1, <1>2, <1>3 DEF Roomy
  <2>2. Places(6, 1)
    BY DEF Places
  <2>3. d = Fold(c, 6)
    BY DEF Fold
  <2> QED
    BY <2>3, <2>1, <2>2, Folded
<1>5. /\ Six(d, 0) = Six(c, 0) + Six(c, 1) /\ Six(d, 1) = Six(c, 1) + Six(c, 2)
      /\ Six(d, 2) = Six(c, 2) + Six(c, 3) /\ Six(d, 3) = Six(c, 3) + Six(c, 4)
      /\ Six(d, 4) = Six(c, 4) + Six(c, 5) /\ Six(d, 5) \in 0..3 /\ Six(d, 6) = 0
  BY <1>3, <1>4, SixIs
<1>6. e \in Words /\ \A j \in 0..4 : Six(e, j) = Six(d, j) + Six(d, j + 2)
  <2>1. Roomy(d, 2)
    BY <1>1, <1>2, <1>3, <1>5 DEF Roomy
  <2>2. Places(12, 2)
    BY DEF Places
  <2>3. e = Fold(d, 12)
    BY DEF Fold
  <2> QED
    BY <2>3, <1>4, <2>1, <2>2, Folded
<1>7. /\ Six(e, 0) = Six(d, 0) + Six(d, 2) /\ Six(e, 1) = Six(d, 1) + Six(d, 3)
      /\ Six(e, 2) = Six(d, 2) + Six(d, 4) /\ Six(e, 3) = Six(d, 3) + Six(d, 5)
      /\ Six(e, 4) = Six(d, 4) /\ Six(e, 5) \in 0..3
      /\ Six(e, 6) = 0 /\ Six(e, 7) = 0 /\ Six(e, 8) = 0
  <2>1. /\ Six(e, 0) = Six(d, 0) + Six(d, 2) /\ Six(e, 1) = Six(d, 1) + Six(d, 3)
        /\ Six(e, 2) = Six(d, 2) + Six(d, 4) /\ Six(e, 3) = Six(d, 3) + Six(d, 5)
        /\ Six(e, 4) = Six(d, 4) + Six(d, 6)
    BY <1>3, <1>6
  <2>2. /\ Six(e, 5) \in 0..3 /\ Six(e, 6) = 0 /\ Six(e, 7) = 0 /\ Six(e, 8) = 0
    BY <1>6, SixIs
  <2> QED
    BY <1>1, <1>5, <2>1, <2>2
<1>8. f \in Words /\ \A j \in 0..4 : Six(f, j) = Six(e, j) + Six(e, j + 4)
  <2>1. Roomy(e, 4)
    BY <1>1, <1>2, <1>3, <1>5, <1>7 DEF Roomy
  <2>2. Places(24, 4)
    BY DEF Places
  <2>3. f = Fold(e, 24)
    BY DEF Fold
  <2> QED
    BY <2>3, <1>6, <2>1, <2>2, Folded
<1>9. Six(f, 0) = Six(e, 0) + Six(e, 4)
  BY <1>3, <1>8
<1> QED
  BY <1>1, <1>5, <1>7, <1>8, <1>9

\* A number of six bits.
IsSix(n, b0, b1, b2, b3, b4, b5) == n = b0 + 2 * b1 + 4 * b2 + 8 * b3 + 16 * b4 + 32 * b5

\* The bits of a number of six bits.
LEMMA SixBits ==
  ASSUME NEW b0 \in 0..1, NEW b1 \in 0..1, NEW b2 \in 0..1, NEW b3 \in 0..1, NEW b4 \in 0..1, NEW b5 \in 0..1,
         NEW n, IsSix(n, b0, b1, b2, b3, b4, b5)
  PROVE  /\ n % 2 = b0 /\ (n \div 2) % 2 = b1 /\ (n \div 4) % 2 = b2
         /\ (n \div 8) % 2 = b3 /\ (n \div 16) % 2 = b4 /\ (n \div 32) % 2 = b5
<1> DEFINE e == b0 + 2 * b1 + 4 * b2 + 8 * b3 + 16 * b4 + 32 * b5
<1>0. n = e
  BY DEF IsSix
<1>1. n % 2 = b0
  <2> DEFINE h == b1 + 2 * b2 + 4 * b3 + 8 * b4 + 16 * b5
             l == 0
  <2>1. h \in Nat /\ l \in 0..0
    OBVIOUS
  <2>2. e = 1 * (2 * h + b0) + l
    OBVIOUS
  <2> HIDE DEF h, l, e
  <2> QED
    BY <1>0, <2>1, <2>2
<1>2. (n \div 2) % 2 = b1
  <2> DEFINE h == b2 + 2 * b3 + 4 * b4 + 8 * b5
             l == b0
  <2>1. h \in Nat /\ l \in 0..1
    OBVIOUS
  <2>2. e = 2 * (2 * h + b1) + l
    OBVIOUS
  <2> HIDE DEF h, l, e
  <2>3. n \div 2 = 2 * h + b1
    BY <1>0, <2>1, <2>2
  <2> QED
    BY <2>1, <2>3
<1>3. (n \div 4) % 2 = b2
  <2> DEFINE h == b3 + 2 * b4 + 4 * b5
             l == b0 + 2 * b1
  <2>1. h \in Nat /\ l \in 0..3
    OBVIOUS
  <2>2. e = 4 * (2 * h + b2) + l
    OBVIOUS
  <2> HIDE DEF h, l, e
  <2>3. n \div 4 = 2 * h + b2
    BY <1>0, <2>1, <2>2
  <2> QED
    BY <2>1, <2>3
<1>4. (n \div 8) % 2 = b3
  <2> DEFINE h == b4 + 2 * b5
             l == b0 + 2 * b1 + 4 * b2
  <2>1. h \in Nat /\ l \in 0..7
    OBVIOUS
  <2>2. e = 8 * (2 * h + b3) + l
    OBVIOUS
  <2> HIDE DEF h, l, e
  <2>3. n \div 8 = 2 * h + b3
    BY <1>0, <2>1, <2>2
  <2> QED
    BY <2>1, <2>3
<1>5. (n \div 16) % 2 = b4
  <2> DEFINE h == b5
             l == b0 + 2 * b1 + 4 * b2 + 8 * b3
  <2>1. h \in Nat /\ l \in 0..15
    OBVIOUS
  <2>2. e = 16 * (2 * h + b4) + l
    OBVIOUS
  <2> HIDE DEF h, l, e
  <2>3. n \div 16 = 2 * h + b4
    BY <1>0, <2>1, <2>2
  <2> QED
    BY <2>1, <2>3
<1>6. (n \div 32) % 2 = b5
  <2> DEFINE h == 0
             l == b0 + 2 * b1 + 4 * b2 + 8 * b3 + 16 * b4
  <2>1. h \in Nat /\ l \in 0..31
    OBVIOUS
  <2>2. e = 32 * (2 * h + b5) + l
    OBVIOUS
  <2> HIDE DEF h, l, e
  <2>3. n \div 32 = 2 * h + b5
    BY <1>0, <2>1, <2>2
  <2> QED
    BY <2>1, <2>3
<1> QED
  BY <1>1, <1>2, <1>3, <1>4, <1>5, <1>6

\* The number of a word of six bits is its digit.
LEMMA ValueOfSix ==
  ASSUME NEW a \in Words
  PROVE  Value(a \cap 0..5) = Six(a, 0)
<1> DEFINE n == Six(a, 0)
           bit(m, b) == (m \div 2^b) % 2 = 1
           six(m) == {b \in 0..5 : bit(m, b)}
<1>1. n \in 0..63
  BY SixIs
<1>2. \A k \in 0..63 : /\ bit(k, 0) <=> k % 2 = 1
                       /\ bit(k, 1) <=> (k \div 2) % 2 = 1
                       /\ bit(k, 2) <=> (k \div 4) % 2 = 1
                       /\ bit(k, 3) <=> (k \div 8) % 2 = 1
                       /\ bit(k, 4) <=> (k \div 16) % 2 = 1
                       /\ bit(k, 5) <=> (k \div 32) % 2 = 1
  OBVIOUS
<1>3. /\ Bit(a, 0) \in 0..1 /\ Bit(a, 1) \in 0..1 /\ Bit(a, 2) \in 0..1
      /\ Bit(a, 3) \in 0..1 /\ Bit(a, 4) \in 0..1 /\ Bit(a, 5) \in 0..1
  BY BitIs
<1>4. n = Bit(a, 0) + 2 * Bit(a, 1) + 4 * Bit(a, 2) + 8 * Bit(a, 3) + 16 * Bit(a, 4) + 32 * Bit(a, 5)
  <2>1. 3 * (2 * 0) = 0 /\ 0 + 1 = 1 /\ 0 + 2 = 2 /\ 3 * (2 * 0 + 1) = 3 /\ 3 + 1 = 4 /\ 3 + 2 = 5
    OBVIOUS
  <2>2. n = (Bit(a, 0) + 2 * Bit(a, 1) + 4 * Bit(a, 2)) + 8 * (Bit(a, 3) + 2 * Bit(a, 4) + 4 * Bit(a, 5))
    BY <2>1 DEF Six, Three
  <2> QED
    BY <1>3, <2>2
<1> HIDE DEF n, bit
<1>5. /\ n % 2 = Bit(a, 0) /\ (n \div 2) % 2 = Bit(a, 1) /\ (n \div 4) % 2 = Bit(a, 2)
      /\ (n \div 8) % 2 = Bit(a, 3) /\ (n \div 16) % 2 = Bit(a, 4) /\ (n \div 32) % 2 = Bit(a, 5)
  <2>1. IsSix(n, Bit(a, 0), Bit(a, 1), Bit(a, 2), Bit(a, 3), Bit(a, 4), Bit(a, 5))
    BY <1>4 DEF IsSix
  <2> QED
    BY <1>3, <2>1, SixBits
<1>6. \A b \in 0..5 : bit(n, b) <=> b \in a
  <2>1. /\ bit(n, 0) <=> 0 \in a
        /\ bit(n, 1) <=> 1 \in a
        /\ bit(n, 2) <=> 2 \in a
        /\ bit(n, 3) <=> 3 \in a
        /\ bit(n, 4) <=> 4 \in a
        /\ bit(n, 5) <=> 5 \in a
    BY <1>1, <1>2, <1>5 DEF Bit
  <2>2. \A b \in 0..5 : b = 0 \/ b = 1 \/ b = 2 \/ b = 3 \/ b = 4 \/ b = 5
    OBVIOUS
  <2> QED
    BY <2>1, <2>2
<1>7. a \cap 0..5 = six(n)
  BY <1>6
<1>8. ASSUME NEW m \in 0..63, six(n) = six(m) PROVE m = n
  <2>1. \A b \in 0..5 : bit(n, b) <=> bit(m, b)
    BY <1>8
  <2>2. /\ bit(n, 0) <=> bit(m, 0)
        /\ bit(n, 1) <=> bit(m, 1)
        /\ bit(n, 2) <=> bit(m, 2)
        /\ bit(n, 3) <=> bit(m, 3)
        /\ bit(n, 4) <=> bit(m, 4)
        /\ bit(n, 5) <=> bit(m, 5)
    BY <2>1
  <2> HIDE DEF six
  <2> QED
    BY <1>1, <1>2, <2>2
<1>9. Value(six(n)) = CHOOSE m \in 0..63 : six(n) = six(m)
  BY DEF Value, bit
<1> HIDE DEF six
<1>10. Value(six(n)) = n
  BY <1>1, <1>8, <1>9
<1> QED
  BY <1>7, <1>10 DEF n

\* The ones of a word below a place.
Below(y, n) == {i \in y : i < n}

\* The ones of a word, counted one after another ...
LEMMA CardNext ==
  ASSUME NEW y \in Words, NEW n \in 0..31
  PROVE  /\ Cardinality(Below(y, n + 1)) = Cardinality(Below(y, n)) + Bit(y, n)
         /\ Cardinality(Below(y, n)) \in Nat
<1>1. \A i \in y : i \in 0..31
  BY DEF Words
<1>2. IsFiniteSet(Below(y, n))
  <2>1. IsFiniteSet(0..31)
    <3>1. 0 \in Int /\ 31 \in Int
      OBVIOUS
    <3> QED
      BY <3>1, FS_Interval
  <2>2. Below(y, n) \subseteq 0..31
    BY <1>1 DEF Below
  <2> QED
    BY <2>1, <2>2, FS_Subset
<1>3. Cardinality(Below(y, n)) \in Nat
  BY <1>2, FS_CardinalityType
<1>4. CASE n \in y
  <2>1. Below(y, n + 1) = Below(y, n) \cup {n} /\ n \notin Below(y, n)
    <3>1. \A i \in y : i < n + 1 <=> i < n \/ i = n
      BY <1>1
    <3>2. ~(n < n)
      OBVIOUS
    <3> QED
      BY <1>4, <3>1, <3>2 DEF Below
  <2>2. Cardinality(Below(y, n + 1)) = Cardinality(Below(y, n)) + 1
    BY <1>2, <2>1, FS_AddElement
  <2> QED
    BY <1>3, <1>4, <2>2 DEF Bit
<1>5. CASE n \notin y
  <2>1. Below(y, n + 1) = Below(y, n)
    BY <1>1, <1>5 DEF Below
  <2> QED
    BY <1>3, <1>5, <2>1 DEF Bit
<1> QED
  BY <1>3, <1>4, <1>5

\* ... and three at a time.
LEMMA CardThree ==
  ASSUME NEW y \in Words, NEW k \in 0..9
  PROVE  /\ Cardinality(Below(y, 3 * (k + 1))) = Cardinality(Below(y, 3 * k))
                                                   + (Bit(y, 3 * k) + Bit(y, 3 * k + 1) + Bit(y, 3 * k + 2))
         /\ Cardinality(Below(y, 3 * k)) \in Nat
<1>1. /\ 3 * k \in 0..31 /\ 3 * k + 1 \in 0..31 /\ 3 * k + 2 \in 0..31
      /\ (3 * k + 1) + 1 = 3 * k + 2 /\ (3 * k + 2) + 1 = 3 * (k + 1)
  OBVIOUS
<1>2. /\ Cardinality(Below(y, 3 * k + 1)) = Cardinality(Below(y, 3 * k)) + Bit(y, 3 * k)
      /\ Cardinality(Below(y, (3 * k + 1) + 1)) = Cardinality(Below(y, 3 * k + 1)) + Bit(y, 3 * k + 1)
      /\ Cardinality(Below(y, (3 * k + 2) + 1)) = Cardinality(Below(y, 3 * k + 2)) + Bit(y, 3 * k + 2)
      /\ Cardinality(Below(y, 3 * k)) \in Nat
  BY <1>1, CardNext
<1>3. Bit(y, 3 * k) \in 0..1 /\ Bit(y, 3 * k + 1) \in 0..1 /\ Bit(y, 3 * k + 2) \in 0..1
  BY BitIs
<1> QED
  BY <1>1, <1>2, <1>3

\* The digits of the count add up to the number of ones.
LEMMA CardIs ==
  ASSUME NEW y \in Words
  PROVE  Cardinality(y) = Count(y, 0) + Count(y, 1) + Count(y, 2) + Count(y, 3) + Count(y, 4)
                            + Count(y, 5) + Count(y, 6) + Count(y, 7) + Count(y, 8) + Count(y, 9) + Count(y, 10)
<1> DEFINE C(k) == Cardinality(Below(y, 3 * k))
           B(k) == Bit(y, 3 * k) + Bit(y, 3 * k + 1)
           T(k) == Bit(y, 3 * k + 2)
<1>1. \A k \in 0..10 : B(k) \in 0..2 /\ T(k) \in 0..1
  BY BitIs
<1>2. \A k \in 0..9 : C(k + 1) = C(k) + (B(k) + T(k)) /\ C(k) \in Nat
  BY CardThree
<1>3. C(0) = 0
  <2>1. Below(y, 3 * 0) = {}
    <3>1. \A i \in y : ~(i < 3 * 0)
      BY DEF Words
    <3> QED
      BY <3>1 DEF Below
  <2> QED
    BY <2>1, FS_EmptySet
<1>4. Cardinality(y) = C(10) + B(10) /\ C(10) \in Nat
  <2>1. 30 \in 0..31 /\ 31 \in 0..31 /\ 30 + 1 = 31 /\ 31 + 1 = 32 /\ 3 * 10 = 30
    OBVIOUS
  <2>2. Below(y, 32) = y
    <3>1. \A i \in y : i < 32
      BY DEF Words
    <3> QED
      BY <3>1 DEF Below
  <2>3. /\ Cardinality(Below(y, 30 + 1)) = Cardinality(Below(y, 30)) + Bit(y, 30)
        /\ Cardinality(Below(y, 31 + 1)) = Cardinality(Below(y, 31)) + Bit(y, 31)
        /\ Cardinality(Below(y, 30)) \in Nat
    BY <2>1, CardNext
  <2>4. Bit(y, 30) \in 0..1 /\ Bit(y, 31) \in 0..1
    BY BitIs
  <2>5. B(10) = Bit(y, 30) + Bit(y, 31) /\ C(10) = Cardinality(Below(y, 30))
    BY <2>1
  <2> QED
    BY <2>1, <2>2, <2>3, <2>4, <2>5
<1>5. Count(y, 0) = B(0)
  <2>1. Before(y, 0) = 0
    BY DEF Before
  <2> QED
    BY <1>1, <2>1 DEF Count
<1>6. \A k \in 0..9 : Count(y, k + 1) = B(k + 1) + T(k)
  <2> SUFFICES ASSUME NEW k \in 0..9 PROVE Count(y, k + 1) = B(k + 1) + T(k)
    OBVIOUS
  <2>1. k + 1 # 0 /\ 3 * (k + 1) - 1 = 3 * k + 2
    OBVIOUS
  <2>2. Before(y, k + 1) = T(k)
    BY <2>1 DEF Before
  <2> QED
    BY <2>2 DEF Count
<1> HIDE DEF B, C, T
<1> DEFINE R1 == Count(y, 0) + Count(y, 1)
           R2 == R1 + Count(y, 2)
           R3 == R2 + Count(y, 3)
           R4 == R3 + Count(y, 4)
           R5 == R4 + Count(y, 5)
           R6 == R5 + Count(y, 6)
           R7 == R6 + Count(y, 7)
           R8 == R7 + Count(y, 8)
           R9 == R8 + Count(y, 9)
           R10 == R9 + Count(y, 10)
<1>7. Count(y, 0) = C(0) + B(0)
  BY <1>1, <1>3, <1>5
<1>8. ASSUME NEW k \in 0..9, NEW s, s = C(k) + B(k)
      PROVE  s + Count(y, k + 1) = C(k + 1) + B(k + 1)
  <2>1. /\ C(k + 1) = C(k) + (B(k) + T(k)) /\ C(k) \in Nat
        /\ Count(y, k + 1) = B(k + 1) + T(k)
    BY <1>2, <1>6
  <2>2. k \in 0..10 /\ k + 1 \in 0..10
    OBVIOUS
  <2>3. B(k) \in Nat /\ T(k) \in Nat /\ B(k + 1) \in Nat
    BY <1>1, <2>2
  <2> QED
    BY <1>8, <2>1, <2>3
<1>9. R1 = C(1) + B(1)
  <2>1. 0 \in 0..9 /\ 0 + 1 = 1
    OBVIOUS
  <2> QED
    BY <1>7, <1>8, <2>1
<1> HIDE DEF R1
<1>10. R2 = C(2) + B(2)
  <2>1. 1 \in 0..9 /\ 1 + 1 = 2
    OBVIOUS
  <2> QED
    BY <1>9, <1>8, <2>1
<1> HIDE DEF R2
<1>11. R3 = C(3) + B(3)
  <2>1. 2 \in 0..9 /\ 2 + 1 = 3
    OBVIOUS
  <2> QED
    BY <1>10, <1>8, <2>1
<1> HIDE DEF R3
<1>12. R4 = C(4) + B(4)
  <2>1. 3 \in 0..9 /\ 3 + 1 = 4
    OBVIOUS
  <2> QED
    BY <1>11, <1>8, <2>1
<1> HIDE DEF R4
<1>13. R5 = C(5) + B(5)
  <2>1. 4 \in 0..9 /\ 4 + 1 = 5
    OBVIOUS
  <2> QED
    BY <1>12, <1>8, <2>1
<1> HIDE DEF R5
<1>14. R6 = C(6) + B(6)
  <2>1. 5 \in 0..9 /\ 5 + 1 = 6
    OBVIOUS
  <2> QED
    BY <1>13, <1>8, <2>1
<1> HIDE DEF R6
<1>15. R7 = C(7) + B(7)
  <2>1. 6 \in 0..9 /\ 6 + 1 = 7
    OBVIOUS
  <2> QED
    BY <1>14, <1>8, <2>1
<1> HIDE DEF R7
<1>16. R8 = C(8) + B(8)
  <2>1. 7 \in 0..9 /\ 7 + 1 = 8
    OBVIOUS
  <2> QED
    BY <1>15, <1>8, <2>1
<1> HIDE DEF R8
<1>17. R9 = C(9) + B(9)
  <2>1. 8 \in 0..9 /\ 8 + 1 = 9
    OBVIOUS
  <2> QED
    BY <1>16, <1>8, <2>1
<1> HIDE DEF R9
<1>18. R10 = C(10) + B(10)
  <2>1. 9 \in 0..9 /\ 9 + 1 = 10
    OBVIOUS
  <2> QED
    BY <1>17, <1>8, <2>1
<1> HIDE DEF R10
<1> QED
  BY <1>4, <1>18 DEF R1, R2, R3, R4, R5, R6, R7, R8, R9, R10

\* The count is right for every word.
LEMMA CountIs ==
  ASSUME NEW y \in Words
  PROVE  bit_count(y) = Cardinality(y)
<1> DEFINE a == Minus(y, Shr(y \cap Shl(Thirds, 1), 1))
           b == Plus(a, a \cap Shr(Thirds, 1))
           c == Plus(b, Shr(b, 3)) \cap Pairs
           d == Plus(c, Shr(c, 6))
           e == Plus(d, Shr(d, 12))
           f == Plus(e, Shr(e, 24))
<1>1. bit_count(y) = Value(f \cap 0..5)
  BY DEF bit_count
<1>2. /\ a \in Words
      /\ \A k \in 0..10 : Three(a, k) = Bit(y, 3 * k) + Bit(y, 3 * k + 1) + 4 * Bit(y, 3 * k + 2)
  BY CountOne
<1> HIDE DEF a
<1>3. b \in Words /\ \A k \in 0..10 : Three(b, k) = Count(y, k) /\ Count(y, k) \in 0..3
  BY <1>2, CountTwo
<1> HIDE DEF b
<1>4. \A k \in 0..10 : Three(b, k) \in 0..3
  BY <1>3
<1>5. /\ c \in Words
      /\ \A j \in 0..5 : Six(c, j) = Three(b, 2 * j) + (IF j = 5 THEN 0 ELSE Three(b, 2 * j + 1))
  BY <1>3, <1>4, CountThree
<1> HIDE DEF c
<1>6. /\ Six(c, 0) = Count(y, 0) + Count(y, 1) /\ Six(c, 1) = Count(y, 2) + Count(y, 3)
      /\ Six(c, 2) = Count(y, 4) + Count(y, 5) /\ Six(c, 3) = Count(y, 6) + Count(y, 7)
      /\ Six(c, 4) = Count(y, 8) + Count(y, 9) /\ Six(c, 5) = Count(y, 10)
  <2>1. /\ Three(b, 0) = Count(y, 0) /\ Three(b, 1) = Count(y, 1) /\ Three(b, 2) = Count(y, 2)
        /\ Three(b, 3) = Count(y, 3) /\ Three(b, 4) = Count(y, 4) /\ Three(b, 5) = Count(y, 5)
        /\ Three(b, 6) = Count(y, 6) /\ Three(b, 7) = Count(y, 7) /\ Three(b, 8) = Count(y, 8)
        /\ Three(b, 9) = Count(y, 9) /\ Three(b, 10) = Count(y, 10) /\ Count(y, 10) \in 0..3
    BY <1>3
  <2>2. /\ 2 * 0 = 0 /\ 2 * 1 = 2 /\ 2 * 2 = 4 /\ 2 * 3 = 6 /\ 2 * 4 = 8 /\ 2 * 5 = 10
        /\ 0 + 1 = 1 /\ 2 + 1 = 3 /\ 4 + 1 = 5 /\ 6 + 1 = 7 /\ 8 + 1 = 9
    OBVIOUS
  <2>3. /\ Six(c, 0) = Three(b, 0) + Three(b, 1) /\ Six(c, 1) = Three(b, 2) + Three(b, 3)
        /\ Six(c, 2) = Three(b, 4) + Three(b, 5) /\ Six(c, 3) = Three(b, 6) + Three(b, 7)
        /\ Six(c, 4) = Three(b, 8) + Three(b, 9) /\ Six(c, 5) = Three(b, 10) + 0
    BY <1>5, <2>2
  <2> QED
    BY <2>1, <2>3
<1>7. /\ Count(y, 0) \in 0..3 /\ Count(y, 1) \in 0..3 /\ Count(y, 2) \in 0..3 /\ Count(y, 3) \in 0..3
      /\ Count(y, 4) \in 0..3 /\ Count(y, 5) \in 0..3 /\ Count(y, 6) \in 0..3 /\ Count(y, 7) \in 0..3
      /\ Count(y, 8) \in 0..3 /\ Count(y, 9) \in 0..3 /\ Count(y, 10) \in 0..3
  BY <1>3
<1>8. \A j \in 0..4 : Six(c, j) \in 0..6
  <2>1. \A j \in 0..4 : j = 0 \/ j = 1 \/ j = 2 \/ j = 3 \/ j = 4
    OBVIOUS
  <2> QED
    BY <1>6, <1>7, <2>1
<1>9. /\ f \in Words
      /\ Six(f, 0) = Six(c, 0) + Six(c, 1) + Six(c, 2) + Six(c, 3) + Six(c, 4) + Six(c, 5)
  BY <1>5, <1>8, CountFour
<1> HIDE DEF d, e, f
<1>10. Value(f \cap 0..5) = Six(f, 0)
  BY <1>9, ValueOfSix
<1> QED
  BY <1>1, <1>6, <1>7, <1>9, <1>10, CardIs

-----------------------------------------------------------------------------
\* The scan.

IsLowest(w, l) == l \in w /\ \A c \in w : l <= c

\* The lowest one of a word.
LEMMA LowestIs ==
  ASSUME NEW w \in Words, w # {}
  PROVE  IsLowest(w, Lowest(w)) /\ Lowest(w) \in 0..31
<1>1. w \subseteq Nat
  BY DEF Words
<1>2. \E l \in w : \A c \in w : l <= c
  BY <1>1, Least
<1> QED
  BY <1>2 DEF Lowest, IsLowest, Words

\* The opposite of a word keeps the lowest one and complements what is above it.
LEMMA NegIs ==
  ASSUME NEW w \in Words, NEW i \in 0..31
  PROVE  /\ w = {} => i \notin Neg(w)
         /\ \A l : IsLowest(w, l) => (i \in Neg(w) <=> i = l \/ (i > l /\ i \notin w))
<1> DEFINE c == (0..31) \ w
           carried == {k \in 0..31 : Carried(c, {0}, k)}
<1>1. Neg(w) = Xor(Xor(c, {0}), carried)
  BY DEF Neg, Plus, Bits, Carried
<1>2. Carried(c, {0}, i) <=> i > 0 /\ \A k \in 0 .. i - 1 : k \notin w
  <2>1. ASSUME Carried(c, {0}, i) PROVE i > 0 /\ \A k \in 0 .. i - 1 : k \notin w
    <3>1. 0 \in c /\ 0 < i /\ \A k \in 0 + 1 .. i - 1 : k \in c \cup {0}
      BY <2>1 DEF Carried
    <3>2. \A k \in 0 .. i - 1 : k = 0 \/ (k # 0 /\ k \in 0 + 1 .. i - 1)
      OBVIOUS
    <3> QED
      BY <3>1, <3>2
  <2>2. ASSUME i > 0, \A k \in 0 .. i - 1 : k \notin w PROVE Carried(c, {0}, i)
    <3>1. \A k \in 0 .. i - 1 : k \in c
      BY <2>2
    <3>2. 0 \in 0 .. i - 1 /\ \A k \in 0 + 1 .. i - 1 : k \in 0 .. i - 1
      BY <2>2
    <3> QED
      BY <2>2, <3>1, <3>2 DEF Carried
  <2> QED
    BY <2>1, <2>2
<1>3. i \in carried <=> Carried(c, {0}, i)
  OBVIOUS
<1>4. i \in c <=> i \notin w
  OBVIOUS
<1> HIDE DEF carried, c
<1>5. \A A, B : i \in Xor(A, B) <=> (i \in A /\ i \notin B) \/ (i \in B /\ i \notin A)
  BY DEF Xor
<1>6. i \in Xor(c, {0}) <=> (i \notin w /\ i # 0) \/ (i = 0 /\ i \in w)
  BY <1>4, <1>5
<1>7. i \in Neg(w) <=> \/ i \in Xor(c, {0}) /\ ~Carried(c, {0}, i)
                       \/ Carried(c, {0}, i) /\ i \notin Xor(c, {0})
  BY <1>1, <1>3, <1>5
<1>8. w = {} => i \notin Neg(w)
  BY <1>2, <1>6, <1>7
<1>9. ASSUME NEW l, IsLowest(w, l)
      PROVE  i \in Neg(w) <=> i = l \/ (i > l /\ i \notin w)
  <2>1. l \in w /\ l \in 0..31 /\ \A k \in 0..31 : k \in w => l <= k
    BY <1>9 DEF IsLowest, Words
  <2>2. (i > 0 /\ \A k \in 0 .. i - 1 : k \notin w) <=> i > 0 /\ i <= l
    <3>1. i > l => l \in 0 .. i - 1
      BY <2>1
    <3>2. i <= l => \A k \in 0 .. i - 1 : k \in 0..31 /\ ~(l <= k)
      BY <2>1
    <3> QED
      BY <2>1, <3>1, <3>2
  <2>3. Carried(c, {0}, i) <=> i > 0 /\ i <= l
    BY <1>2, <2>2
  <2>4. CASE i < l
    BY <1>6, <1>7, <2>1, <2>3, <2>4
  <2>5. CASE i = l
    BY <1>6, <1>7, <2>1, <2>3, <2>5
  <2>6. CASE i > l
    BY <1>6, <1>7, <2>1, <2>3, <2>6
  <2> QED
    BY <2>1, <2>4, <2>5, <2>6
<1> QED
  BY <1>8, <1>9

\* One less: the lowest one goes, and all below it come.
LEMMA LessOne ==
  ASSUME NEW w \in Words, NEW i \in 0..31
  PROVE  /\ w = {} => i \in Minus(w, {0})
         /\ \A l : IsLowest(w, l) => (i \in Minus(w, {0}) <=> i < l \/ (i > l /\ i \in w))
<1>1. Neg({0}) = 0..31
  <2>1. {0} \in Words /\ IsLowest({0}, 0)
    BY DEF Words, IsLowest
  <2>2. \A k \in 0..31 : k \in Neg({0}) <=> k = 0 \/ (k > 0 /\ k \notin {0})
    BY <2>1, NegIs
  <2>3. Neg({0}) \in Words
    <3>1. (0..31) \ {0} \in Words
      BY DEF Words
    <3>2. Plus((0..31) \ {0}, {0}) \in Words
      BY <2>1, <3>1, PlusIs
    <3> QED
      BY <3>2 DEF Neg, Bits
  <2>4. \A k \in 0..31 : k = 0 \/ (k > 0 /\ k \notin {0})
    OBVIOUS
  <2> QED
    BY <2>2, <2>3, <2>4 DEF Words
<1> DEFINE carried == {k \in 0..31 : Carried(w, 0..31, k)}
<1>2. Minus(w, {0}) = Xor(Xor(w, 0..31), carried)
  BY <1>1 DEF Minus, Plus, Bits, Carried
<1>3. i \in carried <=> \E j \in w : j < i
  <2>1. \A j \in w : j \in 0..31
    BY DEF Words
  <2>2. \A j \in w : \A k \in j + 1 .. i - 1 : k \in 0..31
    BY <2>1
  <2> QED
    BY <2>1, <2>2 DEF Carried
<1> HIDE DEF carried
<1>4. \A A, B : i \in Xor(A, B) <=> (i \in A /\ i \notin B) \/ (i \in B /\ i \notin A)
  BY DEF Xor
<1>5. i \in Xor(w, 0..31) <=> i \notin w
  BY <1>4
<1>6. i \in Minus(w, {0}) <=> (i \notin w /\ i \notin carried) \/ (i \in carried /\ i \in w)
  BY <1>2, <1>4, <1>5
<1>7. ASSUME NEW l, IsLowest(w, l)
      PROVE  i \in Minus(w, {0}) <=> i < l \/ (i > l /\ i \in w)
  <2>1. l \in w /\ l \in 0..31 /\ \A k \in w : l <= k /\ k \in 0..31
    BY <1>7 DEF IsLowest, Words
  <2>2. i \in carried <=> l < i
    BY <1>3, <2>1
  <2>3. i < l => i \notin w
    BY <2>1
  <2> QED
    BY <1>6, <2>1, <2>2, <2>3
<1> QED
  BY <1>3, <1>6, <1>7

\* What is left of a word and its opposite is the lowest one.
LEMMA MasksRight ==
  ASSUME NEW w \in Words
  PROVE  /\ w = {} => bit_algorithm_1(w) = Bits /\ bit_algorithm_2(w) = Bits
         /\ \A l : IsLowest(w, l) => bit_algorithm_1(w) = 0..l /\ bit_algorithm_2(w) = 0 .. l - 1
<1>1. ASSUME NEW v \in Words PROVE Minus(v, {0}) \in Words
  <2>1. (0..31) \ {0} \in Words /\ {0} \in Words
    BY DEF Words
  <2>2. Neg({0}) \in Words
    BY <2>1, PlusIs DEF Neg, Bits
  <2> QED
    BY <2>2, PlusIs DEF Minus
<1>2. ASSUME w = {}
      PROVE  bit_algorithm_1(w) = Bits /\ bit_algorithm_2(w) = Bits
  <2>1. Minus(w, {0}) = 0..31
    BY <1>1, <1>2, LessOne DEF Words
  <2>2. w \cap Neg(w) = w
    BY <1>2
  <2> QED
    BY <1>2, <2>1, <2>2 DEF bit_algorithm_1, bit_algorithm_2, Bits, Xor
<1>3. ASSUME NEW l, IsLowest(w, l)
      PROVE  bit_algorithm_1(w) = 0..l /\ bit_algorithm_2(w) = 0 .. l - 1
  <2>1. l \in w /\ l \in 0..31 /\ \A k \in w : l <= k /\ k \in 0..31
    BY <1>3 DEF IsLowest, Words
  <2>2. bit_algorithm_1(w) = 0..l
    <3>1. \A i \in 0..31 : i \in Minus(w, {0}) <=> i < l \/ (i > l /\ i \in w)
      BY <1>3, LessOne
    <3>2. Minus(w, {0}) \subseteq 0..31
      BY <1>1 DEF Words
    <3> DEFINE m == Minus(w, {0})
    <3>3. \A i : i \in Xor(w, m) <=> (i \in w /\ i \notin m) \/ (i \in m /\ i \notin w)
      BY DEF Xor
    <3> HIDE DEF m
    <3>4. ASSUME NEW i PROVE i \in Xor(w, m) <=> i \in 0..l
      <4>1. CASE i \notin 0..31
        <5>1. i \notin w /\ i \notin m /\ i \notin 0..l
          <6>1. i \notin w
            BY <2>1, <4>1
          <6>2. i \notin Minus(w, {0})
            BY <3>2, <4>1
          <6>3. \A k \in 0..l : k \in 0..31
            BY <2>1
          <6> QED
            BY <4>1, <6>1, <6>2, <6>3 DEF m
        <5> QED
          BY <3>3, <5>1
      <4>2. CASE i \in 0..31
        <5>1. i \in m <=> i < l \/ (i > l /\ i \in w)
          BY <3>1, <4>2 DEF m
        <5>2. i \in w => l <= i
          BY <2>1
        <5>3. i \in 0..l <=> i <= l
          BY <2>1, <4>2
        <5>4. i = l => i \in w
          BY <2>1
        <5>5. (i < l /\ ~(i > l) /\ i <= l /\ ~(l <= i)) \/ (i = l /\ i <= l /\ ~(i < l) /\ ~(i > l)) \/ (i > l /\ ~(i < l) /\ ~(i <= l))
          BY <2>1, <4>2
        <5>6. i \in Xor(w, m) <=> (i \in w /\ i \notin m) \/ (i \in m /\ i \notin w)
          BY <3>3
        <5> QED
          BY Zenon, <5>1, <5>2, <5>3, <5>4, <5>5, <5>6
      <4> QED
        BY <4>1, <4>2
    <3> QED
      BY <3>4 DEF bit_algorithm_1, m
  <2>3. w \cap Neg(w) = {l}
    <3>1. \A i \in 0..31 : i \in Neg(w) <=> i = l \/ (i > l /\ i \notin w)
      BY <1>3, NegIs
    <3> QED
      BY <2>1, <3>1
  <2>4. bit_algorithm_2(w) = 0 .. l - 1
    <3>1. {l} \in Words /\ IsLowest({l}, l)
      BY <2>1 DEF Words, IsLowest
    <3>2. \A i \in 0..31 : i \in Minus({l}, {0}) <=> i < l \/ (i > l /\ i \in {l})
      BY <3>1, LessOne
    <3>3. Minus({l}, {0}) \subseteq 0..31
      BY <1>1, <3>1 DEF Words
    <3>4. \A i : i \in 0 .. l - 1 <=> i \in 0..31 /\ i < l
      BY <2>1
    <3>5. \A i \in 0..31 : i < l \/ (i > l /\ i \in {l}) <=> i < l
      BY <2>1
    <3>6. Minus({l}, {0}) = 0 .. l - 1
      BY <3>2, <3>3, <3>4, <3>5
    <3> QED
      BY <2>3, <3>6 DEF bit_algorithm_2
  <2> QED
    BY <2>2, <2>4
<1> QED
  BY <1>2, <1>3

\* The scan counts the bits below the lowest one.
LEMMA ScanIs ==
  ASSUME NEW w \in Words
  PROVE  bit_scan_forward(w) = IF w = {} THEN 32 ELSE Lowest(w)
<1>1. ASSUME NEW n \in 0..32
      PROVE  0 .. n - 1 \in Words /\ Cardinality(0 .. n - 1) = n
  <2>1. 0 \in Int /\ n - 1 \in Int
    OBVIOUS
  <2>2. Cardinality(0 .. n - 1) = IF 0 > n - 1 THEN 0 ELSE (n - 1) - 0 + 1
    BY <2>1, FS_Interval
  <2>3. 0 .. n - 1 \subseteq 0..31
    OBVIOUS
  <2> QED
    BY <2>2, <2>3 DEF Words
<1>2. CASE w = {}
  <2>1. bit_algorithm_2(w) = 0 .. 32 - 1
    <3>1. bit_algorithm_2(w) = Bits
      BY <1>2, MasksRight
    <3>2. 0..31 = 0 .. 32 - 1
      OBVIOUS
    <3> QED
      BY <3>1, <3>2 DEF Bits
  <2>2. 32 \in 0..32
    OBVIOUS
  <2>3. Cardinality(0 .. 32 - 1) = 32 /\ 0 .. 32 - 1 \in Words
    BY <1>1, <2>2
  <2>4. bit_count(0 .. 32 - 1) = 32
    BY <2>3, CountIs
  <2> QED
    BY <1>2, <2>1, <2>4 DEF bit_scan_forward
<1>3. CASE w # {}
  <2> DEFINE l == Lowest(w)
  <2>1. IsLowest(w, l) /\ l \in 0..32
    BY <1>3, LowestIs
  <2> HIDE DEF l
  <2>2. bit_algorithm_2(w) = 0 .. l - 1
    BY <2>1, MasksRight
  <2>3. Cardinality(0 .. l - 1) = l /\ 0 .. l - 1 \in Words
    BY <1>1, <2>1
  <2>4. bit_count(0 .. l - 1) = l
    BY <2>3, CountIs
  <2> QED
    BY <1>3, <2>2, <2>4 DEF bit_scan_forward, l
<1> QED
  BY <1>2, <1>3

-----------------------------------------------------------------------------
\* The reversals.

\* Where a bit comes from when the halves of every group of 2n bits change places.
Across(i, n) == IF (i \div n) % 2 = 0 THEN i + n ELSE i - n

\* One exchange.
LEMMA SwappedIs ==
  ASSUME NEW w \in Words, NEW n \in {1, 2, 4, 8, 16}
  PROVE  /\ Swapped(w, n) \in Words
         /\ \A i \in 0..31 : i \in Swapped(w, n) <=> Across(i, n) \in w
<1> DEFINE half(b) == (b \div n) % 2
<1>1. \A b \in 0..31 : /\ half(b) = 0 \/ half(b) = 1
                       /\ half(b) = 1 => b - n \in 0..31 /\ half(b - n) = 0 /\ b >= n
                       /\ half(b) = 0 => b + n \in 0..31 /\ half(b + n) = 1 /\ b + n >= n
  <2>1. CASE n = 1
    BY <2>1
  <2>2. CASE n = 2
    BY <2>2
  <2>3. CASE n = 4
    BY <2>3
  <2>4. CASE n = 8
    BY <2>4
  <2>5. CASE n = 16
    BY <2>5
  <2> QED
    BY <2>1, <2>2, <2>3, <2>4, <2>5
<1>2. Swapped(w, n) = {b - n : b \in {c \in w : c \in 0..31 /\ half(c) = 1 /\ c >= n}}
                        \cup ({b + n : b \in {c \in w : c \in 0..31 /\ half(c) = 0}} \cap 0..31)
  <2>1. w \cap {b \in 0..31 : half(b) = 0} = {c \in w : c \in 0..31 /\ half(c) = 0}
    OBVIOUS
  <2>2. {c \in w \cap {b \in 0..31 : half(b) = 1} : c >= n}
          = {c \in w : c \in 0..31 /\ half(c) = 1 /\ c >= n}
    OBVIOUS
  <2> QED
    BY <2>1, <2>2 DEF Swapped, Shl, Shr, Bits
<1>3. n \in Nat /\ \A c \in w : c \in 0..31
  BY DEF Words
<1>4. \A i : Across(i, n) = IF half(i) = 0 THEN i + n ELSE i - n
  BY DEF Across
<1> HIDE DEF half
<1>5. Swapped(w, n) \in Words
  <2>1. \A c \in 0..31 : half(c) = 1 => c - n \in 0..31
    BY <1>1
  <2> QED
    BY <1>2, <2>1 DEF Words
<1>6. ASSUME NEW i \in 0..31 PROVE i \in Swapped(w, n) <=> Across(i, n) \in w
  <2>1. CASE half(i) = 0
    <3>1. Across(i, n) = i + n /\ i + n \in 0..31 /\ half(i + n) = 1 /\ i + n >= n /\ (i + n) - n = i
      BY <1>1, <1>3, <1>4, <2>1
    <3>2. \A c \in 0..31 : c - n = i <=> c = i + n
      BY <1>3
    <3>3. \A c \in 0..31 : half(c) = 0 => c + n # i
      BY <1>1, <2>1
    <3> QED
      BY <1>2, <1>3, <3>1, <3>2, <3>3
  <2>2. CASE half(i) = 1
    <3>1. Across(i, n) = i - n /\ i - n \in 0..31 /\ half(i - n) = 0 /\ (i - n) + n = i
      BY <1>1, <1>3, <1>4, <2>2
    <3>2. \A c \in 0..31 : c + n = i <=> c = i - n
      BY <1>3
    <3>3. \A c \in 0..31 : half(c) = 1 => c - n # i
      BY <1>1, <2>2
    <3> QED
      BY <1>2, <1>3, <3>1, <3>2, <3>3
  <2> QED
    BY <1>1, <2>1, <2>2
<1> QED
  BY <1>5, <1>6

\* Where the bits of a word come from.
LEMMA AcrossIs ==
  ASSUME NEW i \in 0..31, NEW n \in {1, 2, 4, 8, 16}
  PROVE  Across(i, n) \in 0..31
<1>1. CASE n = 1
  BY <1>1 DEF Across
<1>2. CASE n = 2
  BY <1>2 DEF Across
<1>3. CASE n = 4
  BY <1>3 DEF Across
<1>4. CASE n = 8
  BY <1>4 DEF Across
<1>5. CASE n = 16
  BY <1>5 DEF Across
<1> QED
  BY <1>1, <1>2, <1>3, <1>4, <1>5

\* The three exchanges within a byte turn it end for end, and two more turn the word.
LEMMA EndForEnd ==
  ASSUME NEW i \in 0..31
  PROVE  /\ Across(Across(Across(Across(Across(i, 1), 2), 4), 8), 16) = 31 - i
         /\ i \in 0..7 => Across(Across(Across(i, 1), 2), 4) = 7 - i
<1> DEFINE p == i \div 8
           r == i % 8
<1>1. p \in 0..3 /\ r \in 0..7 /\ i = 8 * p + r /\ (i \in 0..7 => p = 0)
  OBVIOUS
<1> HIDE DEF p, r
<1>2. Across(Across(Across(i, 1), 2), 4) = 8 * p + (7 - r)
  <2>1. \A s \in 0..7 : (i = 8 * p + s) => Across(Across(Across(i, 1), 2), 4) = 8 * p + (7 - s)
    BY <1>1 DEF Across
  <2> QED
    BY <1>1, <2>1
<1>3. \A s \in 0..7 : Across(Across(8 * p + s, 8), 16) = 8 * (3 - p) + s
  BY <1>1 DEF Across
<1> QED
  BY <1>1, <1>2, <1>3

\* The reversals turn a word, and its low byte, end for end.
LEMMA ReversedIs ==
  ASSUME NEW w \in Words
  PROVE  /\ bit32_order_reverse(w) = {31 - b : b \in w}
         /\ bit8_order_reverse(w \cap 0..7) = {7 - b : b \in w \cap 0..7}
<1>1. bit32_order_reverse(w) = {31 - b : b \in w}
  <2> DEFINE a == Swapped(w, 16)
             b == Swapped(a, 8)
             c == Swapped(b, 4)
             d == Swapped(c, 2)
             e == Swapped(d, 1)
  <2>1. a \in Words /\ \A i \in 0..31 : i \in a <=> Across(i, 16) \in w
    BY SwappedIs
  <2> HIDE DEF a
  <2>2. b \in Words /\ \A i \in 0..31 : i \in b <=> Across(i, 8) \in a
    BY <2>1, SwappedIs
  <2> HIDE DEF b
  <2>3. c \in Words /\ \A i \in 0..31 : i \in c <=> Across(i, 4) \in b
    BY <2>2, SwappedIs
  <2> HIDE DEF c
  <2>4. d \in Words /\ \A i \in 0..31 : i \in d <=> Across(i, 2) \in c
    BY <2>3, SwappedIs
  <2> HIDE DEF d
  <2>5. e \in Words /\ \A i \in 0..31 : i \in e <=> Across(i, 1) \in d
    BY <2>4, SwappedIs
  <2> HIDE DEF e
  <2>6. ASSUME NEW i \in 0..31 PROVE i \in e <=> 31 - i \in w
    <3> DEFINE i1 == Across(i, 1)
               i2 == Across(i1, 2)
               i4 == Across(i2, 4)
               i8 == Across(i4, 8)
    <3>1. i1 \in 0..31
      BY AcrossIs
    <3>2. i2 \in 0..31
      BY <3>1, AcrossIs
    <3>3. i4 \in 0..31
      BY <3>2, AcrossIs
    <3>4. i8 \in 0..31
      BY <3>3, AcrossIs
    <3>5. Across(i8, 16) = 31 - i
      BY EndForEnd
    <3>6. i \in e <=> i1 \in d
      BY <2>5
    <3> HIDE DEF i1
    <3>7. i1 \in d <=> i2 \in c
      BY <2>4, <3>1
    <3> HIDE DEF i2
    <3>8. i2 \in c <=> i4 \in b
      BY <2>3, <3>2
    <3> HIDE DEF i4
    <3>9. i4 \in b <=> i8 \in a
      BY <2>2, <3>3
    <3> HIDE DEF i8
    <3>10. i8 \in a <=> 31 - i \in w
      BY <2>1, <3>4, <3>5
    <3> QED
      BY <3>6, <3>7, <3>8, <3>9, <3>10
  <2>7. \A i \in w : i \in 0..31 /\ 31 - i \in 0..31 /\ 31 - (31 - i) = i
    BY DEF Words
  <2>8. \A i \in e : i \in 0..31 /\ 31 - (31 - i) = i
    BY <2>5 DEF Words
  <2>9. \A i : i \in e <=> i \in {31 - k : k \in w}
    BY <2>6, <2>7, <2>8
  <2>10. bit32_order_reverse(w) = e
    BY DEF bit32_order_reverse, a, b, c, d, e
  <2> QED
    BY <2>9, <2>10
<1>2. bit8_order_reverse(w \cap 0..7) = {7 - b : b \in w \cap 0..7}
  <2> DEFINE v == w \cap 0..7
             c == Swapped(v, 4)
             d == Swapped(c, 2)
             e == Swapped(d, 1)
  <2>1. v \in Words
    BY DEF Words
  <2>2. \A i \in v : i \in 0..7
    OBVIOUS
  <2> HIDE DEF v
  <2>3. c \in Words /\ \A i \in 0..31 : i \in c <=> Across(i, 4) \in v
    BY <2>1, SwappedIs
  <2> HIDE DEF c
  <2>4. d \in Words /\ \A i \in 0..31 : i \in d <=> Across(i, 2) \in c
    BY <2>3, SwappedIs
  <2> HIDE DEF d
  <2>5. e \in Words /\ \A i \in 0..31 : i \in e <=> Across(i, 1) \in d
    BY <2>4, SwappedIs
  <2> HIDE DEF e
  <2>6. ASSUME NEW i \in 0..7 PROVE i \in e <=> 7 - i \in v
    <3> DEFINE i1 == Across(i, 1)
               i2 == Across(i1, 2)
    <3>1. i \in 0..31
      OBVIOUS
    <3>2. i1 \in 0..31
      BY <3>1, AcrossIs
    <3>3. i2 \in 0..31
      BY <3>2, AcrossIs
    <3>4. Across(i2, 4) = 7 - i
      BY <3>1, EndForEnd
    <3>5. i \in e <=> i1 \in d
      BY <2>5, <3>1
    <3> HIDE DEF i1
    <3>6. i1 \in d <=> i2 \in c
      BY <2>4, <3>2
    <3> HIDE DEF i2
    <3>7. i2 \in c <=> 7 - i \in v
      BY <2>3, <3>3, <3>4
    <3> QED
      BY <3>5, <3>6, <3>7
  <2>7. \A i \in 0..7 : 7 - i \in 0..7 /\ 7 - (7 - i) = i
    OBVIOUS
  <2>8. \A i : i \in e \cap 0..7 <=> i \in {7 - k : k \in v}
    BY <2>2, <2>6, <2>7
  <2>9. bit8_order_reverse(v) = e \cap 0..7
    BY DEF bit8_order_reverse, c, d, e
  <2> QED
    BY <2>8, <2>9 DEF v
<1> QED
  BY <1>1, <1>2

-----------------------------------------------------------------------------
\* What the runs see of words near 0 and ~0 holds of every word.

IsWord == word \in Words

\* A flip of a bit leaves a word.
LEMMA BitsType == BitSpec => []IsWord
<1>1. BitInit => IsWord
  BY DEF BitInit, Bits, IsWord, Words
<1>2. IsWord /\ [BitNext]_word => IsWord'
  BY DEF BitNext, Flip, Xor, Bits, IsWord, Words
<1> QED
  BY <1>1, <1>2, PTL DEF BitSpec

\* The scan, the count, the masks and the reversals of every word are what bit.c promises.
LEMMA BitsOfWord == IsWord => BitsRight
<1> SUFFICES ASSUME word \in Words PROVE BitsRight
  BY DEF IsWord
<1>1. word = {} => bit_algorithm_1(word) = Bits /\ bit_algorithm_2(word) = Bits
  BY MasksRight
<1>2. ASSUME word # {}
      PROVE  /\ bit_algorithm_1(word) = 0 .. Lowest(word)
             /\ bit_algorithm_2(word) = bit_algorithm_1(word) \ {Lowest(word)}
  <2> DEFINE l == Lowest(word)
  <2>1. IsLowest(word, l) /\ l \in 0..31
    BY <1>2, LowestIs DEF IsLowest, Words
  <2> HIDE DEF l
  <2>2. bit_algorithm_1(word) = 0..l /\ bit_algorithm_2(word) = 0 .. l - 1
    BY <2>1, MasksRight
  <2>3. 0 .. l - 1 = (0..l) \ {l}
    BY <2>1
  <2> QED
    BY <2>2, <2>3 DEF l
<1>3. bit_scan_forward(word) = IF word = {} THEN 32 ELSE Lowest(word)
  BY ScanIs
<1>4. bit_count(word) = Cardinality(word)
  BY CountIs
<1>5. bit_algorithm_2(word) = bit_algorithm_1(word) \ (IF word = {} THEN {} ELSE {Lowest(word)})
  BY <1>1, <1>2
<1>6. bit_algorithm_1(word) = IF word = {} THEN Bits ELSE 0 .. Lowest(word)
  BY <1>1, <1>2
<1> QED
  BY <1>3, <1>4, <1>5, <1>6, ReversedIs DEF BitsRight

\* Whatever bits are flipped, the scheduler's scan of its bitmap returns the lowest one, and
\* 32, the level of idle, when there is none; count, masks and reversals are right too.
THEOREM BitsOfEveryWord == BitSpec => []BitsRight
BY BitsType, BitsOfWord, PTL

-----------------------------------------------------------------------------
\* The shifts and masks of the index of a tree.

\* From 2^j the machine takes its opposite: all bits from j on.
LEMMA Opposite ==
  ASSUME NEW j \in 1..15
  PROVE  Neg({j}) = j..31
<1> DEFINE a == (0..31) \ {j}
           carried == {i \in 0..31 : \E k \in a \cap {0} : /\ k < i
                                                          /\ \A m \in k + 1 .. i - 1 : m \in a \cup {0}}
<1>1. Neg({j}) = Xor(Xor(a, {0}), carried)
  BY DEF Neg, Plus, Bits
<1>2. carried = 1..j
  <2>1. \A i \in 0..31 : i \in carried <=> 0 < i /\ \A m \in 1 .. i - 1 : m # j
    OBVIOUS
  <2>2. ASSUME NEW i \in 0..31
        PROVE  (0 < i /\ \A m \in 1 .. i - 1 : m # j) <=> i \in 1..j
    <3>1. i \in 1..j => (0 < i /\ \A m \in 1 .. i - 1 : m # j)
      OBVIOUS
    <3>2. i > j => j \in 1 .. i - 1
      OBVIOUS
    <3> QED
      BY <3>1, <3>2
  <2> HIDE DEF carried
  <2>3. carried \subseteq 0..31
    BY DEF carried
  <2>4. \A i \in 1..j : i \in 0..31
    OBVIOUS
  <2>5. \A i : i \in carried <=> i \in 1..j
    BY <2>1, <2>2, <2>3, <2>4
  <2> QED
    BY <2>5
<1> HIDE DEF carried
<1>3. Xor(a, {0}) = (1..31) \ {j}
  BY DEF Xor
<1>4. Xor((1..31) \ {j}, 1..j) = j..31
  BY DEF Xor
<1> QED
  BY <1>1, <1>2, <1>3, <1>4

AllBelow(X, j) == \A c \in X : c < j

\* A difference is negative, and has its upper bits, when what is taken off is more.
LEMMA Borrowed ==
  ASSUME NEW X \in SUBSET (0..15), NEW j \in 1..15, NEW b \in 16..31
  PROVE  /\ b \in Minus(X, {j}) <=> AllBelow(X, j)
         /\ Minus(X, {j}) \subseteq 0..31
<1> DEFINE N == j..31
           carried == {i \in 0..31 : \E k \in X \cap N : /\ k < i
                                                          /\ \A m \in k + 1 .. i - 1 : m \in X \cup N}
<1>1. Minus(X, {j}) = Xor(Xor(X, N), carried)
  BY Opposite DEF Minus, Plus, Bits
<1>2. b \in carried <=> \E c \in X : c >= j
  <2>1. ASSUME NEW c \in X, c >= j PROVE b \in carried
    <3>1. c \in X \cap N /\ c < b /\ \A m \in c + 1 .. b - 1 : m \in N
      BY <2>1
    <3> QED
      BY <3>1
  <2>2. ASSUME b \in carried PROVE \E c \in X : c >= j
    BY <2>2
  <2> QED
    BY <2>1, <2>2
<1>3. carried \subseteq 0..31
  OBVIOUS
<1> HIDE DEF carried
<1>4. b \in Xor(X, N) /\ Xor(X, N) \subseteq 0..31
  BY DEF Xor
<1>5. AllBelow(X, j) <=> ~(\E c \in X : c >= j)
  BY DEF AllBelow
<1> HIDE DEF N
<1> QED
  BY <1>1, <1>2, <1>3, <1>4, <1>5 DEF Xor

\* A small word and its number.
LEMMA ValueIs ==
  ASSUME NEW n \in 0..63
  PROVE  Value({b \in 0..5 : (n \div 2^b) % 2 = 1}) = n
<1> DEFINE bit(m, b) == (m \div 2^b) % 2 = 1
           binary(m) == {b \in 0..5 : bit(m, b)}
<1>1. ASSUME NEW m \in 0..63, binary(n) = binary(m) PROVE m = n
  <2> HIDE DEF bit
  <2>1. \A b \in 0..5 : bit(n, b) <=> bit(m, b)
    BY <1>1
  <2>2. /\ bit(n, 0) <=> bit(m, 0)
        /\ bit(n, 1) <=> bit(m, 1)
        /\ bit(n, 2) <=> bit(m, 2)
        /\ bit(n, 3) <=> bit(m, 3)
        /\ bit(n, 4) <=> bit(m, 4)
        /\ bit(n, 5) <=> bit(m, 5)
    BY <2>1
  <2>3. \A k \in 0..63 : /\ bit(k, 0) <=> k % 2 = 1
                         /\ bit(k, 1) <=> (k \div 2) % 2 = 1
                         /\ bit(k, 2) <=> (k \div 4) % 2 = 1
                         /\ bit(k, 3) <=> (k \div 8) % 2 = 1
                         /\ bit(k, 4) <=> (k \div 16) % 2 = 1
                         /\ bit(k, 5) <=> (k \div 32) % 2 = 1
    BY DEF bit
  <2> HIDE DEF binary
  <2> QED
    BY <2>2, <2>3
<1>2. Value(binary(n)) = CHOOSE m \in 0..63 : binary(n) = binary(m)
  BY DEF Value
<1> HIDE DEF binary
<1> QED
  BY <1>1, <1>2 DEF binary

\* The words of no bit, and of one.
LEMMA ValuesAre ==
  /\ Value({}) = 0 /\ Value({0}) = 1 /\ Value({1}) = 2
  /\ Value({2}) = 4 /\ Value({3}) = 8
<1> DEFINE binary(m) == {b \in 0..5 : (m \div 2^b) % 2 = 1}
<1>1. binary(0) = {} /\ binary(1) = {0} /\ binary(2) = {1} /\ binary(4) = {2} /\ binary(8) = {3}
  <2>1. \A m \in 0..63 : \A b \in 0..5 : b \in binary(m) <=> (m \div 2^b) % 2 = 1
    OBVIOUS
  <2>2. \A b \in 0..5 : b = 0 \/ b = 1 \/ b = 2 \/ b = 3 \/ b = 4 \/ b = 5
    OBVIOUS
  <2>3. \A m \in 0..63 : /\ 0 \in binary(m) <=> m % 2 = 1
                         /\ 1 \in binary(m) <=> (m \div 2) % 2 = 1
                         /\ 2 \in binary(m) <=> (m \div 4) % 2 = 1
                         /\ 3 \in binary(m) <=> (m \div 8) % 2 = 1
                         /\ 4 \in binary(m) <=> (m \div 16) % 2 = 1
                         /\ 5 \in binary(m) <=> (m \div 32) % 2 = 1
                         /\ binary(m) \subseteq 0..5
    OBVIOUS
  <2> HIDE DEF binary
  <2> QED
    BY <2>2, <2>3
<1>2. \A m \in 0..63 : Value(binary(m)) = m
  BY ValueIs
<1> HIDE DEF binary
<1> QED
  BY <1>1, <1>2

\* One of the three questions of the branch-free index: whether the greatest bit is below j.
LEMMA Question ==
  ASSUME NEW X \in SUBSET (0..15), NEW t \in X, \A c \in X : c <= t,
         NEW j \in 1..15, NEW s \in 0..15
  PROVE  Shr(Minus(X, {j}), 16) \cap {s} = IF t < j THEN {s} ELSE {}
<1> DEFINE M == Minus(X, {j})
           b == s + 16
<1>1. b \in 16..31 /\ b >= 16 /\ b - 16 = s /\ \A c \in 0..31 : c - 16 = s <=> c = b
  OBVIOUS
<1> HIDE DEF b
<1>2. (b \in M <=> AllBelow(X, j)) /\ M \subseteq 0..31
  BY <1>1, Borrowed
<1>3. AllBelow(X, j) <=> t < j
  BY DEF AllBelow
<1> HIDE DEF M
<1>4. s \in Shr(M, 16) <=> b \in M
  BY <1>1, <1>2 DEF Shr
<1> QED
  BY <1>2, <1>3, <1>4 DEF M

\* A word shifted left within sixteen bits, by its greatest bit.
LEMMA Shifted ==
  ASSUME NEW X \in SUBSET (0..15), NEW t \in X, \A c \in X : c <= t, NEW n \in Nat, t + n <= 15
  PROVE  /\ Shl(X, n) \in SUBSET (0..15) /\ t + n \in Shl(X, n)
         /\ \A c \in Shl(X, n) : c <= t + n
<1>1. Shl(X, n) = {b + n : b \in X}
  <2>1. \A b \in X : b + n \in 0..31
    OBVIOUS
  <2> QED
    BY <2>1 DEF Shl, Bits
<1>2. \A b \in X : b + n \in 0..15 /\ b + n <= t + n
  OBVIOUS
<1> QED
  BY <1>1, <1>2

\* The index of a size whose greatest bit is top.
LEMMA IndexByBits ==
  ASSUME NEW x \in SUBSET (0..31), NEW top \in x, top \in 8..23, \A b \in x : b <= top
  PROVE  tree_size_to_index(x) = 2 * (top - 8) + IF top - 1 \in x THEN 1 ELSE 0
<1> DEFINE X == Shr(x, 8)
           t == top - 8
           n == IF t < 8 THEN 8 ELSE 0
           y == Shl(X, n)
           r == t + n
           k == IF r < 12 THEN 4 ELSE 0
           z == Shl(y, k)
           o == r + k
           m == IF o < 14 THEN 2 ELSE 0
           w == Shl(z, m)
           u == o + m
<1>1. X \in SUBSET (0..15) /\ t \in X /\ \A c \in X : c <= t
  <2>1. \A b \in x : b >= 8 => b - 8 \in 0..15 /\ b - 8 <= t
    OBVIOUS
  <2> QED
    BY <2>1 DEF Shr
<1>2. t \in 0..15 /\ n \in Nat /\ r <= 15 /\ r >= 8 /\ r \in Nat
  OBVIOUS
<1> HIDE DEF X, t
<1>3. Value(Shr(Minus(X, {8}), 16) \cap {3}) = n
  <2>1. Shr(Minus(X, {8}), 16) \cap {3} = IF t < 8 THEN {3} ELSE {}
    BY <1>1, Question
  <2> QED
    BY <2>1, ValuesAre
<1> HIDE DEF n
<1>4. y \in SUBSET (0..15) /\ r \in y /\ \A c \in y : c <= r
  BY <1>1, <1>2, Shifted
<1>5. k \in Nat /\ o <= 15 /\ o >= 12 /\ o \in Nat
  BY <1>2
<1> HIDE DEF y, r
<1>6. Value(Shr(Minus(y, {12}), 16) \cap {2}) = k
  <2>1. Shr(Minus(y, {12}), 16) \cap {2} = IF r < 12 THEN {2} ELSE {}
    BY <1>4, Question
  <2> QED
    BY <2>1, ValuesAre
<1> HIDE DEF k
<1>7. z \in SUBSET (0..15) /\ o \in z /\ \A c \in z : c <= o
  BY <1>2, <1>4, <1>5, Shifted
<1>8. m \in Nat /\ (u = 14 \/ u = 15)
  BY <1>5
<1> HIDE DEF z, o
<1>9. Value(Shr(Minus(z, {14}), 16) \cap {1}) = m
  <2>1. Shr(Minus(z, {14}), 16) \cap {1} = IF o < 14 THEN {1} ELSE {}
    BY <1>7, Question
  <2> QED
    BY <2>1, ValuesAre
<1> HIDE DEF m
<1>10. w \in SUBSET (0..15) /\ u \in w /\ \A c \in w : c <= u
  <2>1. o + m <= 15
    BY <1>8
  <2> HIDE DEF m
  <2>2. w \in SUBSET (0..15) /\ o + m \in w /\ \A c \in w : c <= o + m
    BY <1>7, <1>8, <2>1, Shifted
  <2> QED
    BY <2>2
<1> HIDE DEF w, u
<1> DEFINE last == Value(Shr(w, 15))
<1>11. u = 14 \/ u = 15
  BY <1>8
<1>12. last = u - 14
  <2>1. CASE u = 15
    <3>1. {c \in w : c >= 15} = {15}
      <4>1. 15 \in w /\ \A c \in w : c \in Nat /\ (c >= 15 <=> c = 15)
        BY <1>10, <2>1
      <4> QED
        BY <4>1
    <3>2. Shr(w, 15) = {0}
      BY <3>1 DEF Shr
    <3> QED
      BY <2>1, <3>2, ValuesAre
  <2>2. CASE u = 14
    <3>1. {c \in w : c >= 15} = {}
      <4>1. \A c \in w : c \in Nat /\ c <= 14
        BY <1>10, <2>2
      <4> QED
        BY <4>1
    <3>2. Shr(w, 15) = {}
      BY <3>1 DEF Shr
    <3> QED
      BY <2>2, <3>2, ValuesAre
  <2> QED
    BY <1>11, <2>1, <2>2
<1> DEFINE K == (14 - (n + k + m)) + last
<1>13. K = t
  BY <1>2, <1>5, <1>8, <1>12 DEF r, o, u
<1>14. tree_size_to_index(x)
         = 2 * K + IF K + 7 \in x THEN 1 ELSE 0
  <2>1. X # {} /\ X \cap 16..31 = {}
    BY <1>1
  <2> HIDE DEF K
  <2> QED
    BY <1>3, <1>6, <1>9, <2>1 DEF tree_size_to_index, X, y, z, w, K
<1>15. t + 7 = top - 1
  BY DEF t
<1> HIDE DEF K
<1> QED
  BY <1>13, <1>14, <1>15 DEF t

\* The highest bit of a word.
LEMMA HighestIs ==
  ASSUME NEW x \in Words, x # {}
  PROVE  Highest(x) \in x /\ \A b \in x : b <= Highest(x)
<1> DEFINE Low == {31 - b : b \in x}
<1>1. Low \in SUBSET Nat /\ Low # {}
  <2>1. \A b \in x : 31 - b \in Nat
    BY DEF Words
  <2> QED
    BY <2>1
<1>2. PICK l \in Low : \A r \in Low : l <= r
  BY <1>1, Least
<1>3. PICK g \in x : l = 31 - g
  OBVIOUS
<1>4. \A b \in x : g >= b
  <2> SUFFICES ASSUME NEW b \in x PROVE g >= b
    OBVIOUS
  <2>1. l <= 31 - b /\ b \in Int /\ g \in Int
    BY <1>2 DEF Words
  <2> QED
    BY <1>3, <2>1
<1>5. Highest(x) \in x /\ \A b \in x : Highest(x) >= b
  BY <1>3, <1>4 DEF Highest
<1> HIDE DEF Low
<1>6. \A b \in x : b \in Int
  BY DEF Words
<1> QED
  BY <1>5, <1>6

\* The first tree and the last.
LEMMA IndexAtEnds ==
  ASSUME NEW x \in Words
  PROVE  /\ (\A b \in x : b < 8) => tree_size_to_index(x) = 0
         /\ (\E b \in x : b >= 24) => tree_size_to_index(x) = 31
<1> DEFINE X == Shr(x, 8)
<1>0. \A b \in x : b \in 0..31
  BY DEF Words
<1>1. ASSUME \A b \in x : b < 8 PROVE tree_size_to_index(x) = 0
  <2>1. X = {}
    <3>1. \A b \in x : ~(b >= 8)
      BY <1>0, <1>1
    <3> QED
      BY <3>1 DEF Shr
  <2> QED
    BY <2>1 DEF tree_size_to_index
<1>2. ASSUME \E b \in x : b >= 24 PROVE tree_size_to_index(x) = 31
  <2>1. PICK b \in x : b >= 24
    BY <1>2
  <2>2. b - 8 \in X /\ b - 8 \in 16..31
    BY <1>0, <2>1 DEF Shr
  <2>3. X # {} /\ X \cap 16..31 # {}
    BY <2>2
  <2> HIDE DEF X
  <2> QED
    BY <2>3 DEF tree_size_to_index, X
<1> QED
  BY <1>1, <1>2

\* The index of every word, and the branches below it.
LEMMA TreeIndexOfWord == IsWord => TreeIndexRight
<1> SUFFICES ASSUME word \in Words PROVE TreeIndexRight
  BY DEF IsWord
<1> DEFINE top == Highest(word)
           i == tree_size_to_index(word)
<1>1. /\ (\A b \in word : b < 8) => i = 0
      /\ (\E b \in word : b >= 24) => i = 31
  BY IndexAtEnds
<1>2. ASSUME word # {}, top \in 8..23
      PROVE  /\ i = 2 * (top - 8) + (IF top - 1 \in word THEN 1 ELSE 0)
             /\ i # 31 => 31 - leftshift_for_tree_index(i) = top - 2
  <2>1. top \in word /\ \A b \in word : b <= top
    BY <1>2, HighestIs
  <2> HIDE DEF top
  <2>2. i = 2 * (top - 8) + (IF top - 1 \in word THEN 1 ELSE 0)
    BY <1>2, <2>1, IndexByBits DEF Words
  <2> HIDE DEF i
  <2>3. i \div 2 = top - 8
    BY <1>2, <2>2
  <2>4. i # 31 => leftshift_for_tree_index(i) = 25 - (i \div 2)
    BY DEF leftshift_for_tree_index
  <2> DEFINE s == leftshift_for_tree_index(i)
             h == i \div 2
  <2> HIDE DEF s, h
  <2>5. i # 31 => 31 - s = top - 2
    BY <1>2, <2>3, <2>4 DEF s, h
  <2> QED
    BY <2>2, <2>5 DEF s
<1> QED
  BY <1>1, <1>2 DEF TreeIndexRight

\* For every word, not only those near 0 and ~0: the branch-free index of a tree is twice the
\* power of two a size lies in, counted from 256, and the next bit, and the branches below it
\* are chosen by the bits that follow.
THEOREM TreeIndexOfEveryWord == BitSpec => []TreeIndexRight
BY BitsType, TreeIndexOfWord, PTL

-----------------------------------------------------------------------------
\* The numbers that the words stand for.

\* The powers of two up to the size of the address space.
LEMMA Powers ==
  ASSUME NEW k \in 0..32
  PROVE  2^k \in Nat \ {0} /\ 2^(k + 1) = 2 * 2^k
<1> DEFINE G(i) == 2^i \in Nat \ {0} /\ 2^(i + 1) = 2 * 2^i
<1>1. /\ G(0) /\ G(1) /\ G(2) /\ G(3) /\ G(4) /\ G(5) /\ G(6) /\ G(7) /\ G(8)
      /\ G(9) /\ G(10) /\ G(11) /\ G(12) /\ G(13) /\ G(14) /\ G(15) /\ G(16)
  OBVIOUS
<1>2. /\ G(17) /\ G(18) /\ G(19) /\ G(20) /\ G(21) /\ G(22) /\ G(23) /\ G(24)
      /\ G(25) /\ G(26) /\ G(27) /\ G(28) /\ G(29) /\ G(30) /\ G(31) /\ G(32)
  OBVIOUS
<1> HIDE DEF G
<1>3. CASE k \in 0..16
  <2>1. \/ k = 0 \/ k = 1 \/ k = 2 \/ k = 3 \/ k = 4 \/ k = 5 \/ k = 6 \/ k = 7 \/ k = 8
        \/ k = 9 \/ k = 10 \/ k = 11 \/ k = 12 \/ k = 13 \/ k = 14 \/ k = 15 \/ k = 16
    BY <1>3
  <2> QED
    BY <1>1, <2>1 DEF G
<1>4. CASE k \in 17..32
  <2>1. \/ k = 17 \/ k = 18 \/ k = 19 \/ k = 20 \/ k = 21 \/ k = 22 \/ k = 23 \/ k = 24
        \/ k = 25 \/ k = 26 \/ k = 27 \/ k = 28 \/ k = 29 \/ k = 30 \/ k = 31 \/ k = 32
    BY <1>4
  <2> QED
    BY <1>2, <2>1 DEF G
<1> QED
  BY <1>3, <1>4

\* Powers of two grow.
LEMMA PowersUp ==
  ASSUME NEW k \in 0..32, NEW j \in k..33
  PROVE  2^k <= 2^j /\ 2^k \in Nat \ {0} /\ 2^j \in Nat
<1> DEFINE Bad == {i \in k..33 : ~(2^i \in Nat /\ 2^k <= 2^i)}
<1>1. 2^k \in Nat \ {0}
  BY Powers
<1>2. Bad = {}
  <2> SUFFICES ASSUME Bad # {} PROVE FALSE
    OBVIOUS
  <2>1. Bad \in SUBSET Nat
    OBVIOUS
  <2>2. PICK i \in Bad : \A r \in Bad : i <= r
    BY <2>1, Least
  <2>3. i # k
    BY <1>1, <2>2
  <2>4. i - 1 \in k..33 /\ i - 1 \in 0..32 /\ i - 1 \notin Bad /\ (i - 1) + 1 = i
    BY <2>2, <2>3
  <2>5. 2^i = 2 * 2^(i - 1)
    BY <2>4, Powers
  <2>6. 2^(i - 1) \in Nat /\ 2^k <= 2^(i - 1)
    BY <2>4
  <2>7. 2^i \in Nat /\ 2^k <= 2^i
    BY <1>1, <2>5, <2>6
  <2> QED
    BY <2>2, <2>7
<1> QED
  BY <1>1, <1>2

\* The index as arithmetic, which the model of the allocator computes with.
Allocator == INSTANCE Heap WITH Boards <- {}, Modulus <- 2^32,
                                board <- word, heap <- word, held <- word

\* The tree of a size below 2^24, worked out from its highest bit and the next one.
LEMMA IndexIs ==
  ASSUME NEW n \in Nat, n >= 256, n < 2^24
  PROVE  \E k \in 0..15 : LET m == 2^(k + 7)
                          IN  /\ m \in Nat \ {0} /\ 2 * m <= n /\ n < 4 * m
                              /\ n \div m \in 2..3
                              /\ Allocator!tree_size_to_index(n) = ((2 * k) + (n \div m)) - 2
<1> DEFINE Fit(k) == 2^(k + 8) <= n /\ n < 2^(k + 9)
           K == CHOOSE k \in 0..15 : Fit(k)
           m == 2^(K + 7)
<1>1. n < 2^32 /\ ~(n < 2^8)
  OBVIOUS
<1>2. \E k \in 0..15 : Fit(k)
  <2>1. CASE n < 2^16
    <3>1. \/ Fit(0) \/ Fit(1) \/ Fit(2) \/ Fit(3) \/ Fit(4) \/ Fit(5) \/ Fit(6)
          \/ Fit(7)
      BY <1>1, <2>1
    <3> QED
      BY <3>1
  <2>2. CASE n >= 2^16
    <3>1. \/ Fit(8) \/ Fit(9) \/ Fit(10) \/ Fit(11) \/ Fit(12) \/ Fit(13) \/ Fit(14)
          \/ Fit(15)
      BY <2>2
    <3> QED
      BY <3>1
  <2> QED
    BY <2>1, <2>2
<1>3. K \in 0..15 /\ Fit(K)
  BY <1>2
<1>4. Allocator!tree_size_to_index(n) = (2 * K) + ((n \div 2^(K + 7)) % 2)
  <2>1. ~(n >= 2^24)
    OBVIOUS
  <2> QED
    BY <1>1, <2>1 DEF Allocator!tree_size_to_index
<1> HIDE DEF K
<1>5. m \in Nat \ {0} /\ 2 * m <= n /\ n < 4 * m
  <2>1. K + 7 \in 0..32 /\ K + 8 \in 0..32 /\ (K + 7) + 1 = K + 8 /\ (K + 8) + 1 = K + 9
    BY <1>3
  <2>2. m \in Nat \ {0} /\ 2^(K + 8) = 2 * m
    BY <2>1, Powers
  <2>3. 2^(K + 9) = 2 * 2^(K + 8)
    BY <2>1, Powers
  <2> QED
    BY <1>3, <2>2, <2>3
<1> DEFINE o == n \div m
<1>6. o \in 2..3
  <2> HIDE DEF m
  <2> QED
    BY <1>5
<1>7. Allocator!tree_size_to_index(n) = (2 * K) + (o % 2)
  BY <1>4
<1> HIDE DEF o
<1>8. o % 2 = o - 2
  BY <1>6
<1>9. Allocator!tree_size_to_index(n) = ((2 * K) + o) - 2
  BY <1>3, <1>6, <1>7, <1>8
<1> QED
  BY <1>3, <1>5, <1>6, <1>9 DEF o, m

\* The word of a number.
Bin(n) == {b \in 0..31 : (n \div 2^b) % 2 = 1}

\* A number below a power of two has no bit from there on, and one not below it has a bit there
\* when it is below the next.
LEMMA BinIs ==
  ASSUME NEW n \in Nat, NEW k \in 0..31
  PROVE  /\ n < 2^k => \A b \in Bin(n) : b < k
         /\ 2^k <= n /\ n < 2^(k + 1) => k \in Bin(n)
<1>1. 2^k \in Nat \ {0} /\ 2^(k + 1) = 2 * 2^k
  <2>1. k \in 0..32
    OBVIOUS
  <2> QED
    BY <2>1, Powers
<1>2. ASSUME n < 2^k, NEW b \in Bin(n), ~(b < k) PROVE FALSE
  <2>1. b \in 0..31 /\ k \in 0..32 /\ b \in k..33 /\ (n \div 2^b) % 2 = 1
    BY <1>2 DEF Bin
  <2>2. 2^k <= 2^b /\ 2^b \in Nat
    BY <2>1, PowersUp
  <2> DEFINE m == 2^b
             p == 2^k
  <2>3. (n \div m) % 2 = 1 /\ m \in Nat /\ p <= m /\ p \in Nat \ {0} /\ n < p
    BY <1>1, <1>2, <2>1, <2>2
  <2> HIDE DEF m, p
  <2>4. n \div m = 0
    BY <2>3
  <2> QED
    BY <2>3, <2>4
<1>3. ASSUME 2^k <= n, n < 2^(k + 1) PROVE k \in Bin(n)
  <2> DEFINE m == 2^k
  <2>1. m \in Nat \ {0} /\ m <= n /\ n < 2 * m
    BY <1>1, <1>3
  <2> HIDE DEF m
  <2>2. n \div m = 1
    BY <2>1
  <2>3. (n \div m) % 2 = 1
    BY <2>2
  <2> QED
    BY <2>3 DEF m, Bin
<1>4. \A b \in Bin(n) : b \in Int
  BY DEF Bin
<1> QED
  BY <1>2, <1>3, <1>4

\* The shifts and masks of the code give the tree that the arithmetic of the model says, for
\* every size.
THEOREM IndexOfEverySize ==
  ASSUME NEW n \in 0 .. 2^32 - 1
  PROVE  tree_size_to_index(Bin(n)) = Allocator!tree_size_to_index(n)
<1> DEFINE x == Bin(n)
           i == tree_size_to_index(x)
<1>1. n \in Nat /\ x \in SUBSET (0..31) /\ x \in Words
  BY DEF Bin, Words
<1>2. /\ (\A b \in x : b < 8) => i = 0
      /\ (\E b \in x : b >= 24) => i = 31
  BY <1>1, IndexAtEnds
<1>3. CASE n < 2^8
  <2>1. \A b \in x : b < 8
    BY <1>1, <1>3, BinIs
  <2> HIDE DEF x
  <2>2. i = 0
    BY <1>2, <2>1
  <2>3. Allocator!tree_size_to_index(n) = 0
    BY <1>3 DEF Allocator!tree_size_to_index
  <2> QED
    BY <2>2, <2>3 DEF x
<1>4. CASE n >= 2^24
  <2>1. \E k \in 24..31 : 2^k <= n /\ n < 2^(k + 1)
    <3> DEFINE Fit(k) == 2^k <= n /\ n < 2^(k + 1)
    <3>1. \/ Fit(24) \/ Fit(25) \/ Fit(26) \/ Fit(27) \/ Fit(28) \/ Fit(29) \/ Fit(30) \/ Fit(31)
      BY <1>4
    <3> QED
      BY <3>1
  <2>2. PICK k \in 24..31 : 2^k <= n /\ n < 2^(k + 1)
    BY <2>1
  <2>3. k \in 0..31 /\ k >= 24
    OBVIOUS
  <2>4. k \in x
    BY <1>1, <2>2, <2>3, BinIs
  <2> HIDE DEF x
  <2>5. i = 31
    BY <1>2, <2>3, <2>4
  <2>6. Allocator!tree_size_to_index(n) = 31
    BY <1>4 DEF Allocator!tree_size_to_index
  <2> QED
    BY <2>5, <2>6 DEF x
<1>5. CASE ~(n < 2^8) /\ ~(n >= 2^24)
  <2>1. n >= 256 /\ n < 2^24
    BY <1>5
  <2>2. PICK K \in 0..15 : LET m == 2^(K + 7)
                           IN  /\ m \in Nat \ {0} /\ 2 * m <= n /\ n < 4 * m
                               /\ n \div m \in 2..3
                               /\ Allocator!tree_size_to_index(n) = ((2 * K) + (n \div m)) - 2
    BY <1>1, <2>1, IndexIs
  <2> DEFINE m == 2^(K + 7)
             o == n \div m
             top == K + 8
  <2>3. /\ K + 7 \in 0..32 /\ K + 8 \in 0..32 /\ (K + 7) + 1 = K + 8 /\ (K + 8) + 1 = K + 9
        /\ K + 8 \in 0..31 /\ K + 9 \in 0..31
    OBVIOUS
  <2>4. 2^(K + 8) = 2 * m /\ 2^(K + 9) = 2 * (2 * m)
    <3>1. 2^(K + 8) = 2 * m
      BY <2>3, Powers
    <3>2. 2^(K + 9) = 2 * 2^(K + 8)
      BY <2>3, Powers
    <3> QED
      BY <3>1, <3>2
  <2>5. 2^(K + 8) <= n /\ n < 2^(K + 9)
    BY <2>2, <2>4
  <2>6. top \in x
    BY <1>1, <2>3, <2>5, BinIs
  <2>7. \A b \in x : b <= top
    <3>1. \A b \in x : b < K + 9
      BY <1>1, <2>3, <2>5, BinIs
    <3> QED
      BY <1>1, <3>1
  <2>8. top - 1 \in x <=> o = 3
    <3>1. K + 7 \in 0..31 /\ top - 1 = K + 7
      OBVIOUS
    <3>2. top - 1 \in x <=> o % 2 = 1
      BY <3>1 DEF Bin
    <3>3. o = 2 \/ o = 3
      BY <2>2
    <3> HIDE DEF o
    <3> QED
      BY <3>2, <3>3
  <2>9. (o = 2 \/ o = 3) /\ Allocator!tree_size_to_index(n) = ((2 * K) + o) - 2
    BY <2>2
  <2> HIDE DEF m, o, x
  <2>10. i = 2 * (top - 8) + IF top - 1 \in x THEN 1 ELSE 0
    <3>1. top \in 8..23
      OBVIOUS
    <3> HIDE DEF top
    <3> QED
      BY <1>1, <2>6, <2>7, <3>1, IndexByBits
  <2>11. top - 8 = K
    OBVIOUS
  <2>12. i = (2 * K) + IF o = 3 THEN 1 ELSE 0
    BY <2>8, <2>10, <2>11
  <2> HIDE DEF i
  <2>13. i = Allocator!tree_size_to_index(n)
    BY <2>9, <2>12
  <2> QED
    BY <2>13 DEF i, x
<1> QED
  BY <1>3, <1>4, <1>5
=============================================================================
