----------------------------- MODULE HeapProofs -----------------------------
(***************************************************************************)
(* The allocator, for any banks and requests that HeapAssumption allows.   *)
(***************************************************************************)
EXTENDS Heap, FiniteSetTheorems, SequenceTheorems, WellFoundedInduction, TLAPS

-----------------------------------------------------------------------------
\* Numbers.

\* A set of numbers that is not empty has a least one.
LEMMA Least ==
  ASSUME NEW S \in SUBSET Nat, S # {}
  PROVE  \E p \in S : \A r \in S : p <= r
<1>1. IsWellFoundedOn(OpToRel(<, Nat), Nat)
  BY NatLessThanWellFounded
<1>2. PICK x \in S : \A y \in S : ~(<<y, x>> \in OpToRel(<, Nat))
  BY <1>1, WFMin
<1>3. \A y \in S : ~(y < x)
  BY <1>2 DEF OpToRel
<1> QED
  BY <1>3

\* The powers of two up to the size of the address space.
LEMMA Powers ==
  ASSUME NEW k \in 0..32
  PROVE  2^k \in Nat \ {0} /\ 2^(k + 1) = 2 * 2^k
<1> DEFINE G(i) == 2^i \in Nat \ {0} /\ 2^(i + 1) = 2 * 2^i
<1>1. /\ G(0) /\ G(1) /\ G(2) /\ G(3) /\ G(4) /\ G(5) /\ G(6) /\ G(7) /\ G(8)
      /\ G(9) /\ G(10) /\ G(11) /\ G(12) /\ G(13) /\ G(14) /\ G(15) /\ G(16)
  OBVIOUS
<1>2. /\ G(17) /\ G(18) /\ G(19) /\ G(20) /\ G(21) /\ G(22) /\ G(23) /\ G(24)
      /\ G(25) /\ G(26) /\ G(27) /\ G(28) /\ G(29) /\ G(30) /\ G(31) /\ G(32)
  OBVIOUS
<1> HIDE DEF G
<1>3. CASE k \in 0..16
  <2>1. \/ k = 0 \/ k = 1 \/ k = 2 \/ k = 3 \/ k = 4 \/ k = 5 \/ k = 6 \/ k = 7 \/ k = 8
        \/ k = 9 \/ k = 10 \/ k = 11 \/ k = 12 \/ k = 13 \/ k = 14 \/ k = 15 \/ k = 16
    BY <1>3
  <2> QED
    BY <1>1, <2>1 DEF G
<1>4. CASE k \in 17..32
  <2>1. \/ k = 17 \/ k = 18 \/ k = 19 \/ k = 20 \/ k = 21 \/ k = 22 \/ k = 23 \/ k = 24
        \/ k = 25 \/ k = 26 \/ k = 27 \/ k = 28 \/ k = 29 \/ k = 30 \/ k = 31 \/ k = 32
    BY <1>4
  <2> QED
    BY <1>2, <2>1 DEF G
<1> QED
  BY <1>3, <1>4

\* Shifting right bit by bit.
LEMMA ShiftOne ==
  ASSUME NEW n \in Nat, NEW k \in 0..32
  PROVE  /\ n \div 2^k \in Nat
         /\ n \div 2^(k + 1) = (n \div 2^k) \div 2
         /\ n \div 2^k = 2 * (n \div 2^(k + 1)) + ((n \div 2^k) % 2)
         /\ (n \div 2^k) % 2 \in 0..1
<1> DEFINE m == 2^k
<1>1. m \in Nat \ {0} /\ 2^(k + 1) = 2 * m
  BY Powers
<1> HIDE DEF m
<1>2. n \div m \in Nat
  BY <1>1
<1>3. n \div (2 * m) = (n \div m) \div 2
  BY <1>1
<1> QED
  BY <1>1, <1>2, <1>3 DEF m

\* Numbers that agree in front of a bit agree in front of every higher one.
LEMMA ShiftUp ==
  ASSUME NEW a \in Nat, NEW b \in Nat, NEW k \in 0..32, a \div 2^k = b \div 2^k,
         NEW j \in k..33
  PROVE  a \div 2^j = b \div 2^j
<1> DEFINE Bad == {i \in k..33 : a \div 2^i # b \div 2^i}
<1> SUFFICES ASSUME Bad # {} PROVE FALSE
  OBVIOUS
<1>1. Bad \in SUBSET Nat
  OBVIOUS
<1>2. PICK i \in Bad : \A r \in Bad : i <= r
  BY <1>1, Least
<1>3. i # k /\ i - 1 \in k..33 /\ i - 1 \in 0..32 /\ i - 1 \notin Bad /\ (i - 1) + 1 = i
  BY <1>2
<1>4. a \div 2^(i - 1) = b \div 2^(i - 1)
  BY <1>3
<1>5. a \div 2^i = (a \div 2^(i - 1)) \div 2 /\ b \div 2^i = (b \div 2^(i - 1)) \div 2
  BY ZenonT(40), <1>3, ShiftOne
<1> QED
  BY <1>2, <1>4, <1>5

-----------------------------------------------------------------------------
\* The bits of a size.

\* The bits of n above the branch at depth d of tree i.
Prefix(n, i, d) == n \div 2^((Top(i) + 1) - d)
Rooted(i)       == IF i = 31 THEN 0 ELSE 2 + (i % 2)

\* The bit a tree starts from.
LEMMA TopType ==
  ASSUME NEW i \in Indices
  PROVE  Top(i) \in 6..31
BY DEF Top, Indices

\* The tree of a size, and the bits all the sizes in that tree begin with.
LEMMA IndexRoot ==
  ASSUME NEW n \in Nat, n > 256, n \div 2^16 < 2^16
  PROVE  /\ tree_size_to_index(n) \in Indices
         /\ Prefix(n, tree_size_to_index(n), 0) = Rooted(tree_size_to_index(n))
<1> DEFINE i == tree_size_to_index(n)
           Fits(k) == 2^(k + 8) <= n /\ n < 2^(k + 9)
           K == CHOOSE k \in 0..15 : Fits(k)
<1>1. n < 2^32 /\ ~(n < 2^8)
  OBVIOUS
<1>2. CASE n >= 2^24
  <2>1. i = 31
    BY <1>1, <1>2 DEF tree_size_to_index
  <2>2. Prefix(n, 31, 0) = n \div 2^32
    <3>1. (Top(31) + 1) - 0 = 32
      BY DEF Top
    <3> QED
      BY <3>1 DEF Prefix
  <2>3. n \div 2^32 = 0
    BY <1>1
  <2> QED
    BY <2>1, <2>2, <2>3 DEF Rooted, Indices
<1>3. CASE n < 2^24
  <2>1. \E k \in 0..15 : Fits(k)
    <3>1. CASE n < 2^16
      <4>1. \/ Fits(0) \/ Fits(1) \/ Fits(2) \/ Fits(3) \/ Fits(4) \/ Fits(5) \/ Fits(6)
            \/ Fits(7)
        BY <1>1, <3>1
      <4> QED
        BY <4>1
    <3>2. CASE n >= 2^16
      <4>1. \/ Fits(8) \/ Fits(9) \/ Fits(10) \/ Fits(11) \/ Fits(12) \/ Fits(13) \/ Fits(14)
            \/ Fits(15)
        BY <1>3, <3>2
      <4> QED
        BY <4>1
    <3> QED
      BY <3>1, <3>2
  <2>2. K \in 0..15 /\ Fits(K)
    BY <2>1
  <2>3. i = (2 * K) + ((n \div 2^(K + 7)) % 2)
    <3>1. ~(n >= 2^24)
      BY <1>3
    <3> QED
      BY <1>1, <3>1 DEF tree_size_to_index
  <2> HIDE DEF K
  <2> DEFINE m == 2^(K + 7)
  <2>4. m \in Nat \ {0} /\ 2 * m <= n /\ n < 4 * m
    <3>1. K + 7 \in 0..32 /\ K + 8 \in 0..32 /\ (K + 7) + 1 = K + 8 /\ (K + 8) + 1 = K + 9
      BY <2>2
    <3>2. m \in Nat \ {0} /\ 2^(K + 8) = 2 * m
      BY <3>1, Powers
    <3>3. 2^(K + 9) = 2 * 2^(K + 8)
      BY <3>1, Powers
    <3> QED
      BY <2>2, <3>2, <3>3
  <2>5. n \div m = 2 \/ n \div m = 3
    <3> HIDE DEF m
    <3> QED BY <2>4
  <2>6. i = ((2 * K) + (n \div m)) - 2 /\ i \in Indices
    <3>1. (n \div m) % 2 = (n \div m) - 2
      <4> HIDE DEF m
      <4> QED BY <2>5
    <3>2. i = (2 * K) + ((n \div m) % 2)
      BY <2>3
    <3> HIDE DEF i, m
    <3> DEFINE q == n \div m
    <3>3. (q = 2 \/ q = 3) /\ i = (2 * K) + (q - 2)
      BY <2>5, <3>1, <3>2
    <3> HIDE DEF q
    <3>4. i = ((2 * K) + q) - 2 /\ i \in 0..31
      BY <2>2, <3>3
    <3> QED
      BY <3>4 DEF Indices, q
  <2>7. CASE i = 31
    <3>1. Prefix(n, 31, 0) = n \div 2^32
      <4>1. (Top(31) + 1) - 0 = 32
        BY DEF Top
      <4> QED
        BY <4>1 DEF Prefix
    <3>2. n \div 2^32 = 0
      BY <1>1
    <3> QED
      BY <2>6, <2>7, <3>1, <3>2 DEF Rooted
  <2>8. CASE i # 31
    <3>1. i \div 2 = K /\ i % 2 = (n \div m) - 2
      <4> HIDE DEF m, i
      <4> QED BY <2>2, <2>5, <2>6
    <3>2. (Top(i) + 1) - 0 = K + 7
      BY <2>2, <2>8, <3>1 DEF Top
    <3>3. Prefix(n, i, 0) = n \div m
      BY <3>2 DEF Prefix
    <3> HIDE DEF i, m
    <3>4. i \in Indices /\ Prefix(n, i, 0) = Rooted(i)
      BY <2>5, <2>6, <2>8, <3>1, <3>3 DEF Rooted
    <3> QED
      BY <3>4 DEF i
  <2> QED
    BY <2>7, <2>8
<1> QED
  BY <1>1, <1>2, <1>3

\* One level down a size shows one more bit.
LEMMA OneDown ==
  ASSUME NEW n \in Nat, NEW i \in Indices, NEW d \in 0..Top(i)
  PROVE  /\ Prefix(n, i, d) \in Nat
         /\ Branch(n, i, d) \in 0..1
         /\ Prefix(n, i, d + 1) = 2 * Prefix(n, i, d) + Branch(n, i, d)
<1> DEFINE k == Top(i) - d
<1>1. /\ k \in 0..32 /\ (Top(i) + 1) - (d + 1) = k /\ (Top(i) + 1) - d = k + 1
      /\ k + 1 \in 0..32
  BY TopType
<1>2. /\ n \div 2^k = 2 * (n \div 2^(k + 1)) + ((n \div 2^k) % 2)
      /\ (n \div 2^k) % 2 \in 0..1
  BY <1>1, ShiftOne
<1>3. n \div 2^(k + 1) \in Nat
  BY <1>1, ShiftOne
<1>4. /\ Prefix(n, i, d) = n \div 2^(k + 1) /\ Prefix(n, i, d + 1) = n \div 2^k
      /\ Branch(n, i, d) = (n \div 2^k) % 2
  BY <1>1 DEF Prefix, Branch
<1> QED
  BY <1>2, <1>3, <1>4

\* At the last level all bits are seen.
LEMMA AllBits ==
  ASSUME NEW n \in Nat, NEW i \in Indices
  PROVE  Prefix(n, i, Top(i) + 1) = n
<1>1. (Top(i) + 1) - (Top(i) + 1) = 0
  BY TopType
<1>2. n \div 2^0 = n
  OBVIOUS
<1> QED
  BY <1>1, <1>2 DEF Prefix

\* Sizes that agree at one level agree at every level above.
LEMMA PrefixUp ==
  ASSUME NEW a \in Nat, NEW b \in Nat, NEW i \in Indices, NEW d \in 0 .. Top(i) + 1,
         Prefix(a, i, d) = Prefix(b, i, d), NEW e \in 0..d
  PROVE  Prefix(a, i, e) = Prefix(b, i, e)
<1> DEFINE k == (Top(i) + 1) - d
           j == (Top(i) + 1) - e
<1>1. k \in 0..32 /\ j \in k..33
  BY TopType
<1>2. a \div 2^k = b \div 2^k
  BY DEF Prefix
<1>3. a \div 2^j = b \div 2^j
  BY <1>1, <1>2, ShiftUp
<1> QED
  BY <1>3 DEF Prefix

-----------------------------------------------------------------------------
\* Loops.

\* What a loop computes, turn by turn.
LEMMA LoopIs ==
  ASSUME NEW step, NEW x, NEW n \in Nat
  PROVE  \E at : /\ at[0] = x
                 /\ \A k \in 1..n : at[k] = step[at[k - 1]]
                 /\ Loop(step, x, n) = at[n]
<1> DEFINE Turns(f, m) == f = [k \in 0..m |-> IF k = 0 THEN x ELSE step[f[k - 1]]]
           Bad == {m \in Nat : ~ \E f : Turns(f, m)}
<1> HIDE DEF Turns
<1>1. Bad = {}
  <2> SUFFICES ASSUME Bad # {} PROVE FALSE
    OBVIOUS
  <2>1. PICK m \in Bad : \A r \in Bad : m <= r
    <3>1. Bad \in SUBSET Nat
      OBVIOUS
    <3> QED
      BY <3>1, Least
  <2>2. m # 0
    <3> DEFINE f == [k \in 0..0 |-> x]
    <3>1. f = [k \in 0..0 |-> IF k = 0 THEN x ELSE step[f[k - 1]]]
      <4> SUFFICES ASSUME NEW k \in 0..0
                   PROVE  f[k] = IF k = 0 THEN x ELSE step[f[k - 1]]
        OBVIOUS
      <4> QED
        OBVIOUS
    <3> HIDE DEF f
    <3>2. \E e : Turns(e, 0)
      BY <3>1 DEF Turns
    <3> QED
      BY <2>1, <3>2
  <2>3. m \in Nat /\ m - 1 \in Nat /\ m - 1 \notin Bad
    BY <2>1, <2>2
  <2>4. PICK f : Turns(f, m - 1)
    BY <2>3
  <2> DEFINE g == [k \in 0..m |-> IF k = m THEN step[f[m - 1]] ELSE f[k]]
  <2>5. g = [k \in 0..m |-> IF k = 0 THEN x ELSE step[g[k - 1]]]
    <3> SUFFICES ASSUME NEW k \in 0..m
                 PROVE  g[k] = IF k = 0 THEN x ELSE step[g[k - 1]]
      OBVIOUS
    <3>1. CASE k = m
      BY <2>2, <2>3, <3>1
    <3>2. CASE k # m
      <4>1. k \in 0 .. m - 1 /\ (k # 0 => k - 1 \in 0 .. m - 1 /\ k - 1 # m)
        BY <2>3, <3>2
      <4>2. f[k] = IF k = 0 THEN x ELSE step[f[k - 1]]
        BY <2>4, <4>1 DEF Turns
      <4>3. g[k] = f[k] /\ (k # 0 => g[k - 1] = f[k - 1])
        BY <2>3, <3>2, <4>1
      <4> QED
        BY <4>2, <4>3
    <3> QED
      BY <3>1, <3>2
  <2> HIDE DEF g
  <2>6. \E e : Turns(e, m)
    BY <2>5 DEF Turns
  <2> QED
    BY <2>1, <2>6
<1> DEFINE at == CHOOSE f : Turns(f, n)
<1>2. Turns(at, n)
  <2>1. \E f : Turns(f, n)
    BY <1>1
  <2> QED
    BY <2>1
<1>3. Loop(step, x, n) = at[n]
  BY DEF Loop, Turns
<1> HIDE DEF at
<1>4. at[0] = x /\ \A k \in 1..n : at[k] = step[at[k - 1]]
  <2>1. \A k \in 0..n : at[k] = IF k = 0 THEN x ELSE step[at[k - 1]]
    BY <1>2 DEF Turns
  <2> QED
    BY <2>1
<1> QED
  BY <1>3, <1>4

\* What every turn keeps holds in the end.
LEMMA LoopKeeps ==
  ASSUME NEW step, NEW x, NEW n \in Nat, NEW G, x \in G, \A y \in G : step[y] \in G
  PROVE  Loop(step, x, n) \in G
<1>1. PICK at : /\ at[0] = x
                /\ \A k \in 1..n : at[k] = step[at[k - 1]]
                /\ Loop(step, x, n) = at[n]
  BY LoopIs
<1> DEFINE Bad == {k \in 0..n : at[k] \notin G}
<1>2. Bad = {}
  <2> SUFFICES ASSUME Bad # {} PROVE FALSE
    OBVIOUS
  <2>1. PICK k \in Bad : \A r \in Bad : k <= r
    <3>1. Bad \in SUBSET Nat
      OBVIOUS
    <3> QED
      BY <3>1, Least
  <2>2. k # 0 /\ k \in 0..n
    BY <1>1, <2>1
  <2>3. k \in 1..n /\ k - 1 \in 0..n /\ k - 1 \notin Bad
    BY <2>1, <2>2
  <2> QED
    BY <1>1, <2>1, <2>3
<1> QED
  BY <1>1, <1>2

\* A loop that gets somewhere with every turn has ended when there is nowhere left.
LEMMA LoopEnds ==
  ASSUME NEW step, NEW x, NEW n \in Nat, NEW G, x \in G, \A y \in G : step[y] \in G,
         NEW rank, \A y \in G : rank[y] \in 0..n,
         \A y \in G : step[y] = y \/ rank[step[y]] > rank[y]
  PROVE  /\ Loop(step, x, n) \in G
         /\ step[Loop(step, x, n)] = Loop(step, x, n)
<1>1. PICK at : /\ at[0] = x
                /\ \A k \in 1..n : at[k] = step[at[k - 1]]
                /\ Loop(step, x, n) = at[n]
  BY LoopIs
<1> DEFINE Far(k) == at[k] \in G /\ (step[at[k]] = at[k] \/ rank[at[k]] >= k)
           Bad == {k \in 0..n : ~Far(k)}
<1>2. Bad = {}
  <2> SUFFICES ASSUME Bad # {} PROVE FALSE
    OBVIOUS
  <2>1. PICK k \in Bad : \A r \in Bad : k <= r
    <3>1. Bad \in SUBSET Nat
      OBVIOUS
    <3> QED
      BY <3>1, Least
  <2>2. k # 0 /\ k \in 0..n
    <3>1. Far(0)
      BY <1>1
    <3> QED
      BY <2>1, <3>1
  <2>3. k \in 1..n /\ k - 1 \in 0..n /\ k - 1 \notin Bad
    BY <2>1, <2>2
  <2>4. Far(k - 1) /\ at[k] = step[at[k - 1]]
    BY <1>1, <2>3
  <2>5. at[k] \in G /\ at[k - 1] \in G /\ rank[at[k]] \in 0..n /\ rank[at[k - 1]] \in 0..n
    BY <2>4
  <2>6. CASE step[at[k - 1]] = at[k - 1]
    <3>1. at[k] = at[k - 1]
      BY <2>4, <2>6
    <3>2. Far(k)
      BY <2>5, <2>6, <3>1
    <3> QED
      BY <2>1, <3>2
  <2>7. CASE step[at[k - 1]] # at[k - 1]
    <3>1. rank[at[k]] > rank[at[k - 1]] /\ rank[at[k - 1]] >= k - 1
      BY <2>4, <2>5, <2>7
    <3>2. rank[at[k]] >= k
      BY <2>3, <2>5, <3>1
    <3> QED
      BY <2>1, <2>5, <3>2
  <2> QED
    BY <2>6, <2>7
<1>3. n \in 0..n /\ Far(n)
  BY <1>2
<1>4. step[at[n]] = at[n]
  <2> SUFFICES ASSUME step[at[n]] # at[n] PROVE FALSE
    OBVIOUS
  <2>1. rank[at[n]] >= n /\ rank[step[at[n]]] > rank[at[n]]
    BY <1>3
  <2>2. rank[at[n]] \in 0..n /\ rank[step[at[n]]] \in 0..n
    BY <1>3
  <2> QED
    BY <2>1, <2>2
<1> QED
  BY <1>1, <1>3, <1>4

-----------------------------------------------------------------------------
\* Rings.

\* The links of D form rings, one for each class: next and previous agree, and no
\* part of a ring is closed.
Closed(N, X) == \A x \in X : N[x] \in X
Linking(D, N, P, cls) ==
  /\ N \in [D -> D] /\ P \in [D -> D]
  /\ \A x \in D : P[N[x]] = x /\ N[P[x]] = x /\ cls[N[x]] = cls[x]
Whole(D, N, cls) ==
  \A X \in SUBSET D : Closed(N, X) =>
    \A x \in X, y \in D : cls[y] = cls[x] => y \in X
Rings(D, N, P, cls) == Linking(D, N, P, cls) /\ Whole(D, N, cls)

\* Put and Drop, element by element.
LEMMA PutElse ==
  ASSUME NEW f, NEW x, NEW v, NEW y \in DOMAIN f, y # x
  PROVE  Put(f, x, v)[y] = f[y]
BY DEF Put

\* What was put is there.
LEMMA PutHere ==
  ASSUME NEW f, NEW x, NEW v
  PROVE  Put(f, x, v)[x] = v
BY DEF Put

\* The kind of function a put gives.
LEMMA PutType ==
  ASSUME NEW S, NEW T, NEW f \in [S -> T], NEW x, NEW v \in T
  PROVE  Put(f, x, v) \in [S \cup {x} -> T]
BY DEF Put

\* A chunk is linked in behind another of its class.
LEMMA RingIn ==
  ASSUME NEW D, NEW N, NEW P, NEW cls, Rings(D, N, P, cls),
         NEW c, c \notin D, NEW a \in D, NEW cls2,
         cls2[c] = cls[a], \A x \in D : cls2[x] = cls[x]
  PROVE  Rings(D \cup {c}, Put([N EXCEPT ![a] = c], c, N[a]),
               Put([P EXCEPT ![N[a]] = c], c, a), cls2)
<1> DEFINE E  == D \cup {c}
           N2 == Put([N EXCEPT ![a] = c], c, N[a])
           P2 == Put([P EXCEPT ![N[a]] = c], c, a)
<1>1. /\ N \in [D -> D] /\ P \in [D -> D]
      /\ \A x \in D : P[N[x]] = x /\ N[P[x]] = x /\ cls[N[x]] = cls[x]
  BY DEF Rings, Linking
<1>2. /\ N2 = [x \in E |-> IF x = c THEN N[a] ELSE IF x = a THEN c ELSE N[x]]
      /\ P2 = [x \in E |-> IF x = c THEN a ELSE IF x = N[a] THEN c ELSE P[x]]
  BY <1>1 DEF Put
<1> HIDE DEF N2, P2
<1>3. Linking(E, N2, P2, cls2)
  <2>1. N2 \in [E -> E] /\ P2 \in [E -> E]
    BY <1>1, <1>2
  <2>2. ASSUME NEW x \in E
        PROVE  P2[N2[x]] = x /\ N2[P2[x]] = x /\ cls2[N2[x]] = cls2[x]
    <3>1. CASE x = c
      BY <1>1, <1>2, <3>1
    <3>2. CASE x # c
      <4>1. x \in D /\ N[x] \in D /\ P[x] \in D /\ N[a] \in D
        BY <1>1, <3>2
      <4>2. P2[N2[x]] = x
        BY <1>1, <1>2, <3>2, <4>1
      <4>3. N2[P2[x]] = x
        BY <1>1, <1>2, <3>2, <4>1
      <4>4. cls2[N2[x]] = cls2[x]
        BY <1>1, <1>2, <3>2, <4>1
      <4> QED
        BY <4>2, <4>3, <4>4
    <3> QED
      BY <3>1, <3>2
  <2> QED
    BY <2>1, <2>2 DEF Linking
<1>4. Whole(E, N2, cls2)
  <2> SUFFICES ASSUME NEW X \in SUBSET E, Closed(N2, X), NEW x \in X, NEW y \in E,
                      cls2[y] = cls2[x]
               PROVE  y \in X
    BY DEF Whole
  <2> DEFINE Y == X \ {c}
  <2>1. Y \in SUBSET D
    OBVIOUS
  <2>2. Closed(N, Y)
    <3> SUFFICES ASSUME NEW z \in Y PROVE N[z] \in Y
      BY DEF Closed
    <3>1. z \in D /\ N[z] \in D /\ N[z] # c /\ N2[z] \in X
      BY <1>1 DEF Closed
    <3>2. CASE z = a
      <4>1. c \in X
        BY <1>2, <3>1, <3>2
      <4>2. N2[c] \in X /\ N2[c] = N[a]
        BY <1>2, <4>1 DEF Closed
      <4> QED
        BY <3>1, <3>2, <4>2
    <3>3. CASE z # a
      BY <1>2, <3>1, <3>3
    <3> QED
      BY <3>2, <3>3
  <2>3. PICK z \in Y : cls[z] = cls2[x] /\ z \in D
    <3>1. CASE x = c
      <4>1. N[a] \in X /\ N[a] \in D
        BY <1>1, <1>2, <3>1 DEF Closed
      <4>2. cls[N[a]] = cls2[x]
        BY <1>1, <3>1
      <4> QED
        BY <4>1, <4>2
    <3>2. CASE x # c
      BY <3>2
    <3> QED
      BY <3>1, <3>2
  <2>4. \A w \in D : cls[w] = cls[z] => w \in Y
    BY <2>1, <2>2 DEF Rings, Whole
  <2>5. CASE y # c
    BY <2>3, <2>4, <2>5
  <2>6. CASE y = c
    <3>1. a \in X
      BY <2>3, <2>4, <2>6
    <3>2. N2[a] \in X /\ N2[a] = c
      BY <1>2, <3>1 DEF Closed
    <3> QED
      BY <2>6, <3>2
  <2> QED
    BY <2>5, <2>6
<1> QED
  BY <1>3, <1>4 DEF Rings, N2, P2

\* The first chunk of a class is a ring of its own.
LEMMA RingAlone ==
  ASSUME NEW D, NEW N, NEW P, NEW cls, Rings(D, N, P, cls),
         NEW c, c \notin D, NEW cls2,
         \A x \in D : cls2[x] = cls[x] /\ cls2[x] # cls2[c]
  PROVE  Rings(D \cup {c}, Put(N, c, c), Put(P, c, c), cls2)
<1> DEFINE E  == D \cup {c}
           N2 == Put(N, c, c)
           P2 == Put(P, c, c)
<1>1. /\ N \in [D -> D] /\ P \in [D -> D]
      /\ \A x \in D : P[N[x]] = x /\ N[P[x]] = x /\ cls[N[x]] = cls[x]
  BY DEF Rings, Linking
<1>2. /\ N2 = [x \in E |-> IF x = c THEN c ELSE N[x]]
      /\ P2 = [x \in E |-> IF x = c THEN c ELSE P[x]]
  BY <1>1 DEF Put
<1> HIDE DEF N2, P2
<1>3. Linking(E, N2, P2, cls2)
  BY <1>1, <1>2 DEF Linking
<1>4. Whole(E, N2, cls2)
  <2> SUFFICES ASSUME NEW X \in SUBSET E, Closed(N2, X), NEW x \in X, NEW y \in E,
                      cls2[y] = cls2[x]
               PROVE  y \in X
    BY DEF Whole
  <2> DEFINE Y == X \ {c}
  <2>1. Y \in SUBSET D /\ Closed(N, Y)
    BY <1>1, <1>2 DEF Closed
  <2>2. CASE x = c
    BY <2>2
  <2>3. CASE x # c
    <3>1. x \in Y /\ y \in D /\ cls[y] = cls[x]
      BY <2>3
    <3> QED
      BY <2>1, <3>1 DEF Rings, Whole
  <2> QED
    BY <2>2, <2>3
<1> QED
  BY <1>3, <1>4 DEF Rings, N2, P2

\* A chunk is taken out of its ring.
LEMMA RingOut ==
  ASSUME NEW D, NEW N, NEW P, NEW cls, Rings(D, N, P, cls), NEW c \in D,
         NEW cls2, \A x \in D \ {c} : cls2[x] = cls[x]
  PROVE  Rings(D \ {c}, Drop([N EXCEPT ![P[c]] = N[c]], c),
               Drop([P EXCEPT ![N[c]] = P[c]], c), cls2)
<1> DEFINE E  == D \ {c}
           N2 == Drop([N EXCEPT ![P[c]] = N[c]], c)
           P2 == Drop([P EXCEPT ![N[c]] = P[c]], c)
<1>1. /\ N \in [D -> D] /\ P \in [D -> D]
      /\ \A x \in D : P[N[x]] = x /\ N[P[x]] = x /\ cls[N[x]] = cls[x]
  BY DEF Rings, Linking
<1>2. /\ N2 = [x \in E |-> IF x = P[c] THEN N[c] ELSE N[x]]
      /\ P2 = [x \in E |-> IF x = N[c] THEN P[c] ELSE P[x]]
  BY <1>1 DEF Drop
<1> HIDE DEF N2, P2
<1>3. Linking(E, N2, P2, cls2)
  <2>1. ASSUME NEW x \in E
        PROVE  /\ N2[x] \in E /\ P2[x] \in E
               /\ P2[N2[x]] = x /\ N2[P2[x]] = x /\ cls2[N2[x]] = cls2[x]
    <3>1. x \in D /\ x # c /\ N[x] \in D /\ P[x] \in D /\ N[c] \in D /\ P[c] \in D
      BY <1>1
    <3>2. (x = P[c] <=> N[x] = c) /\ (x = N[c] <=> P[x] = c)
      BY <1>1, <3>1
    <3>3. N[c] = c <=> P[c] = c
      BY <1>1
    <3>4. N2[x] \in E /\ P2[N2[x]] = x /\ cls2[N2[x]] = cls2[x]
      <4>1. CASE x = P[c]
        <5>1. N2[x] = N[c] /\ N[c] # c /\ N[c] \in E
          BY <1>2, <3>1, <3>3, <4>1
        <5>2. P2[N[c]] = P[c]
          BY <1>2, <5>1
        <5>3. cls[N[c]] = cls[c] /\ cls[N[x]] = cls[x] /\ N[x] = c
          BY <1>1, <3>1, <3>2, <4>1
        <5> QED
          BY <4>1, <5>1, <5>2, <5>3
      <4>2. CASE x # P[c]
        <5>1. N2[x] = N[x] /\ N[x] \in E /\ N[x] # N[c]
          BY <1>1, <1>2, <3>1, <3>2, <4>2
        <5>2. P2[N[x]] = P[N[x]]
          BY <1>2, <5>1
        <5> QED
          BY <1>1, <3>1, <5>1, <5>2
      <4> QED
        BY <4>1, <4>2
    <3>5. P2[x] \in E /\ N2[P2[x]] = x
      <4>1. CASE x = N[c]
        <5>1. P2[x] = P[c] /\ P[c] # c /\ P[c] \in E
          BY <1>2, <3>1, <3>3, <4>1
        <5> QED
          BY <1>2, <4>1, <5>1
      <4>2. CASE x # N[c]
        <5>1. P2[x] = P[x] /\ P[x] \in E /\ P[x] # P[c]
          BY <1>1, <1>2, <3>1, <3>2, <4>2
        <5> QED
          BY <1>1, <1>2, <3>1, <5>1
      <4> QED
        BY <4>1, <4>2
    <3> QED
      BY <3>4, <3>5
  <2>2. N2 \in [E -> E] /\ P2 \in [E -> E]
    BY <1>2, <2>1
  <2> QED
    BY <2>1, <2>2 DEF Linking
<1>4. Whole(E, N2, cls2)
  <2> SUFFICES ASSUME NEW X \in SUBSET E, Closed(N2, X), NEW x \in X, NEW y \in E,
                      cls2[y] = cls2[x]
               PROVE  y \in X
    BY DEF Whole
  <2>0. cls[y] = cls[x] /\ x \in D /\ y \in D /\ y # c
    OBVIOUS
  <2>1. CASE P[c] \in X
    <3> DEFINE Y == X \cup {c}
    <3>1. Y \in SUBSET D
      OBVIOUS
    <3>2. Closed(N, Y)
      BY <1>1, <1>2, <2>1 DEF Closed
    <3> QED
      BY <2>0, <3>1, <3>2 DEF Rings, Whole
  <2>2. CASE P[c] \notin X
    <3>1. Closed(N, X)
      BY <1>1, <1>2, <2>2 DEF Closed
    <3>2. X \in SUBSET D
      OBVIOUS
    <3> QED
      BY <2>0, <3>1, <3>2 DEF Rings, Whole
  <2> QED
    BY <2>1, <2>2
<1> QED
  BY <1>3, <1>4 DEF Rings, N2, P2

\* Who is linked to itself is alone in its class.
LEMMA RingSingle ==
  ASSUME NEW D, NEW N, NEW P, NEW cls, Rings(D, N, P, cls), NEW c \in D, N[c] = c,
         NEW d \in D, cls[d] = cls[c]
  PROVE  d = c
<1>1. Closed(N, {c}) /\ {c} \in SUBSET D
  BY DEF Closed
<1> QED
  BY <1>1 DEF Rings, Whole

-----------------------------------------------------------------------------
\* Trees.

\* The chunks L of the sizes use, their sons C, parents Pa and trees Ix, and the
\* roots tr.  A chunk with a parent is a node; dep is its depth, and its size
\* begins with the bits that lead to it.
Nodes(L, Pa) == {c \in L : Pa[c] # NULL}

TrieType(L, use, C, Pa, Ix, tr, dep) ==
  /\ L \subseteq Nat \ {0}
  /\ use \in [L -> Nat]
  /\ C \in [L -> [0..1 -> L \cup {NULL}]]
  /\ DOMAIN Pa = L
  /\ Ix \in [L -> Indices]
  /\ tr \in [Indices -> L \cup {NULL}]
  /\ dep \in [L -> Nat]
  /\ \A c \in L : /\ Prefix(use[c], Ix[c], 0) = Rooted(Ix[c])
                  /\ dep[c] \in 0 .. Top(Ix[c]) + 1

RootsRight(Pa, Ix, tr, dep) ==
  \A i \in Indices : tr[i] # NULL =>
    Pa[tr[i]] = Slot(i) /\ Ix[tr[i]] = i /\ dep[tr[i]] = 0

SonRight(use, C, Pa, Ix, dep, p, b) ==
  C[p][b] # NULL =>
    /\ Pa[p] # NULL /\ Pa[C[p][b]] = p /\ Ix[C[p][b]] = Ix[p]
    /\ dep[C[p][b]] = dep[p] + 1
    /\ Prefix(use[C[p][b]], Ix[p], dep[p] + 1) = 2 * Prefix(use[p], Ix[p], dep[p]) + b

Hangs(L, C, Ix, tr, c) == tr[Ix[c]] = c \/ \E p \in L, b \in 0..1 : C[p][b] = c

Trie(L, use, C, Pa, Ix, tr, dep) ==
  /\ TrieType(L, use, C, Pa, Ix, tr, dep)
  /\ RootsRight(Pa, Ix, tr, dep)
  /\ \A p \in L, b \in 0..1 : SonRight(use, C, Pa, Ix, dep, p, b)
  /\ \A c \in Nodes(L, Pa) : Hangs(L, C, Ix, tr, c)

\* Halves and remainders are the only ones of their kind.
LEMMA OddEven ==
  ASSUME NEW x \in Nat, NEW y \in Nat, NEW b \in 0..1, NEW d \in 0..1,
         2 * x + b = 2 * y + d
  PROVE  x = y /\ b = d
OBVIOUS

\* The prefix of a chunk at a depth of its tree is a number.
LEMMA PrefixType ==
  ASSUME NEW n \in Nat, NEW i \in Indices, NEW d \in 0 .. Top(i) + 1
  PROVE  Prefix(n, i, d) \in Nat
<1>1. (Top(i) + 1) - d \in 0..32
  BY TopType
<1> QED
  BY <1>1, ShiftOne DEF Prefix

\* A node is a root, or the son of a node one level up.
LEMMA NodeAbove ==
  ASSUME NEW L, NEW use, NEW C, NEW Pa, NEW Ix, NEW tr, NEW dep,
         Trie(L, use, C, Pa, Ix, tr, dep), NEW c \in Nodes(L, Pa)
  PROVE  \/ c = tr[Ix[c]] /\ dep[c] = 0 /\ Pa[c] = Slot(Ix[c])
         \/ \E p \in Nodes(L, Pa), b \in 0..1 :
              /\ C[p][b] = c /\ Pa[c] = p /\ Ix[p] = Ix[c]
              /\ dep[p] \in 0..Top(Ix[c]) /\ dep[c] = dep[p] + 1
              /\ Prefix(use[c], Ix[c], dep[c]) = 2 * Prefix(use[p], Ix[c], dep[p]) + b
<1>1. c \in L /\ c # NULL /\ Ix[c] \in Indices /\ dep[c] \in 0 .. Top(Ix[c]) + 1
  BY DEF Nodes, Trie, TrieType, NULL
<1>2. CASE tr[Ix[c]] = c
  BY <1>1, <1>2 DEF Trie, RootsRight
<1>3. CASE tr[Ix[c]] # c
  <2>1. PICK p \in L, b \in 0..1 : C[p][b] = c
    BY <1>3 DEF Trie, Hangs
  <2>2. SonRight(use, C, Pa, Ix, dep, p, b)
    BY DEF Trie
  <2>3. /\ Pa[p] # NULL /\ Pa[c] = p /\ Ix[c] = Ix[p] /\ dep[c] = dep[p] + 1
        /\ Prefix(use[c], Ix[p], dep[p] + 1) = 2 * Prefix(use[p], Ix[p], dep[p]) + b
    BY <1>1, <2>1, <2>2 DEF SonRight
  <2>4. dep[p] \in Nat
    BY DEF Trie, TrieType
  <2>5. dep[p] \in 0..Top(Ix[c])
    BY <1>1, <2>3, <2>4, TopType
  <2> QED
    BY <2>1, <2>3, <2>5 DEF Nodes
<1> QED
  BY <1>2, <1>3

\* A place in a tree, which is a depth and the bits that lead there, holds one node.
LEMMA TrieUnique ==
  ASSUME NEW L, NEW use, NEW C, NEW Pa, NEW Ix, NEW tr, NEW dep,
         Trie(L, use, C, Pa, Ix, tr, dep),
         NEW p \in Nodes(L, Pa), NEW q \in Nodes(L, Pa),
         Ix[p] = Ix[q], dep[p] = dep[q],
         Prefix(use[p], Ix[p], dep[p]) = Prefix(use[q], Ix[p], dep[p])
  PROVE  p = q
<1> DEFINE Twins(d, x, y) == /\ x \in Nodes(L, Pa) /\ y \in Nodes(L, Pa) /\ x # y
                             /\ Ix[x] = Ix[y] /\ dep[x] = d /\ dep[y] = d
                             /\ Prefix(use[x], Ix[x], d) = Prefix(use[y], Ix[x], d)
           Bad == {d \in Nat : \E x, y : Twins(d, x, y)}
<1>1. Bad = {}
  <2> SUFFICES ASSUME Bad # {} PROVE FALSE
    OBVIOUS
  <2> HIDE DEF Twins
  <2>1. PICK d \in Bad : \A r \in Bad : d <= r
    <3>1. Bad \in SUBSET Nat
      OBVIOUS
    <3> QED
      BY <3>1, Least
  <2>2. PICK x, y : Twins(d, x, y)
    BY <2>1
  <2>3. /\ x \in Nodes(L, Pa) /\ y \in Nodes(L, Pa) /\ x # y
        /\ Ix[x] = Ix[y] /\ dep[x] = d /\ dep[y] = d
        /\ Prefix(use[x], Ix[x], d) = Prefix(use[y], Ix[x], d)
    BY <2>2 DEF Twins
  <2> DEFINE i == Ix[x]
  <2>4. /\ x \in L /\ y \in L /\ i \in Indices /\ use \in [L -> Nat] /\ dep \in [L -> Nat]
    BY <2>3 DEF Nodes, Trie, TrieType
  <2>5. d # 0
    <3> SUFFICES ASSUME d = 0 PROVE FALSE
      OBVIOUS
    <3>1. x = tr[i] /\ y = tr[i]
      BY <2>3, <2>4, NodeAbove
    <3> QED
      BY <2>3, <3>1
  <2>6. PICK u \in Nodes(L, Pa), b \in 0..1 :
              /\ C[u][b] = x /\ Ix[u] = i
              /\ dep[u] \in 0..Top(i) /\ d = dep[u] + 1
              /\ Prefix(use[x], i, d) = 2 * Prefix(use[u], i, dep[u]) + b
    BY <2>3, <2>5, NodeAbove
  <2>7. PICK v \in Nodes(L, Pa), e \in 0..1 :
              /\ C[v][e] = y /\ Ix[v] = i
              /\ dep[v] \in 0..Top(i) /\ d = dep[v] + 1
              /\ Prefix(use[y], i, d) = 2 * Prefix(use[v], i, dep[v]) + e
    BY <2>3, <2>5, NodeAbove
  <2>8. u \in L /\ v \in L /\ use[u] \in Nat /\ use[v] \in Nat /\ dep[u] = dep[v]
        /\ dep[u] \in Nat /\ d \in Nat
    BY <2>4, <2>6, <2>7 DEF Nodes
  <2> HIDE DEF i
  <2>9. Prefix(use[u], i, dep[u]) \in Nat /\ Prefix(use[v], i, dep[u]) \in Nat
    <3>1. i \in Indices
      BY <2>4 DEF i
    <3> QED
      BY <2>6, <2>8, <3>1, OneDown
  <2>10. Prefix(use[u], i, dep[u]) = Prefix(use[v], i, dep[u]) /\ b = e
    <3>1. 2 * Prefix(use[u], i, dep[u]) + b = 2 * Prefix(use[v], i, dep[u]) + e
      BY <2>3, <2>6, <2>7, <2>8 DEF i
    <3> QED
      BY <2>9, <3>1, OddEven
  <2>11. u # v
    BY <2>3, <2>6, <2>7, <2>10
  <2>12. Twins(dep[u], u, v)
    BY <2>6, <2>7, <2>8, <2>10, <2>11 DEF Twins
  <2>13. dep[u] \in Bad
    BY <2>8, <2>12
  <2> QED
    BY <2>1, <2>6, <2>8, <2>13
<1>2. dep[p] \in Nat
  BY DEF Nodes, Trie, TrieType
<1> QED
  BY <1>1, <1>2

\* Above a node there is one at every level, with the bits that lead to the node.
LEMMA TrieAbove ==
  ASSUME NEW L, NEW use, NEW C, NEW Pa, NEW Ix, NEW tr, NEW dep,
         Trie(L, use, C, Pa, Ix, tr, dep), NEW q \in Nodes(L, Pa), NEW j \in 0..dep[q]
  PROVE  \E a \in Nodes(L, Pa) :
           /\ Ix[a] = Ix[q] /\ dep[a] = j
           /\ Prefix(use[a], Ix[q], j) = Prefix(use[q], Ix[q], j)
<1> DEFINE i == Ix[q]
           Over(k, a) == /\ a \in Nodes(L, Pa) /\ Ix[a] = i /\ dep[a] = k
                         /\ Prefix(use[a], i, k) = Prefix(use[q], i, k)
           Bad == {k \in 0..dep[q] : ~ \E a : Over(dep[q] - k, a)}
<1>0. /\ q \in L /\ i \in Indices /\ use \in [L -> Nat] /\ dep \in [L -> Nat] /\ dep[q] \in Nat
      /\ dep[q] \in 0 .. Top(i) + 1
  BY DEF Nodes, Trie, TrieType
<1>1. Bad = {}
  <2> SUFFICES ASSUME Bad # {} PROVE FALSE
    OBVIOUS
  <2>0. \E a : Over(dep[q] - 0, a)
    BY <1>0
  <2> HIDE DEF Over
  <2>1. PICK k \in Bad : \A r \in Bad : k <= r
    <3>1. Bad \in SUBSET Nat
      BY <1>0
    <3> QED
      BY <3>1, Least
  <2>2. k # 0 /\ k \in 0..dep[q]
    BY <2>0, <2>1
  <2>3. k - 1 \in 0..dep[q] /\ k - 1 \notin Bad
    BY <1>0, <2>1, <2>2
  <2> DEFINE d == dep[q] - k
  <2>4. d \in 0..Top(i) /\ dep[q] - (k - 1) = d + 1 /\ d + 1 \in 0 .. Top(i) + 1 /\ d \in 0..(d + 1)
        /\ d + 1 \in 0..dep[q] /\ d \in Nat
    BY <1>0, <2>2, TopType
  <2>5. PICK a : Over(d + 1, a)
    BY <2>3, <2>4
  <2> HIDE DEF d
  <2>6. /\ a \in Nodes(L, Pa) /\ Ix[a] = i /\ dep[a] = d + 1 /\ a \in L /\ use[a] \in Nat
        /\ Prefix(use[a], i, d + 1) = Prefix(use[q], i, d + 1)
    BY <1>0, <2>5 DEF Over, Nodes
  <2>7. PICK p \in Nodes(L, Pa), b \in 0..1 :
              /\ Ix[p] = i /\ d + 1 = dep[p] + 1 /\ dep[p] \in 0..Top(i)
              /\ Prefix(use[a], i, d + 1) = 2 * Prefix(use[p], i, dep[p]) + b
    BY <2>4, <2>6, NodeAbove
  <2>8. dep[p] = d /\ p \in L /\ use[p] \in Nat
    BY <1>0, <2>4, <2>7 DEF Nodes
  <2> HIDE DEF i
  <2>9. /\ Prefix(use[q], i, d) \in Nat /\ Branch(use[q], i, d) \in 0..1
        /\ Prefix(use[q], i, d + 1) = 2 * Prefix(use[q], i, d) + Branch(use[q], i, d)
        /\ Prefix(use[p], i, d) \in Nat
    <3>1. use[q] \in Nat
      BY <1>0
    <3> QED
      BY <1>0, <2>4, <2>8, <3>1, OneDown
  <2>10. Prefix(use[p], i, d) = Prefix(use[q], i, d)
    <3>1. 2 * Prefix(use[p], i, d) + b = 2 * Prefix(use[q], i, d) + Branch(use[q], i, d)
      BY <2>6, <2>7, <2>8, <2>9
    <3> QED
      BY <2>9, <3>1, OddEven
  <2>11. Over(d, p)
    BY <2>7, <2>8, <2>10 DEF Over
  <2> QED
    BY <2>1, <2>11 DEF d
<1>2. dep[q] - j \in 0..dep[q] /\ dep[q] - (dep[q] - j) = j
  BY <1>0
<1>3. PICK a : Over(j, a)
  BY <1>1, <1>2
<1> QED
  BY <1>3

\* q is p or below it.
Under(L, use, Pa, Ix, dep, p, q) ==
  /\ p \in Nodes(L, Pa) /\ q \in Nodes(L, Pa) /\ Ix[q] = Ix[p] /\ dep[p] <= dep[q]
  /\ Prefix(use[q], Ix[p], dep[p]) = Prefix(use[p], Ix[p], dep[p])

\* p is on the way that the bits of n take.
OnWay(L, use, Pa, Ix, dep, n, p) ==
  /\ p \in Nodes(L, Pa)
  /\ Prefix(use[p], Ix[p], dep[p]) = Prefix(n, Ix[p], dep[p])

\* What the trees say of a node.
LEMMA NodeType ==
  ASSUME NEW L, NEW use, NEW C, NEW Pa, NEW Ix, NEW tr, NEW dep,
         Trie(L, use, C, Pa, Ix, tr, dep), NEW p \in Nodes(L, Pa)
  PROVE  /\ p \in L /\ p \in Nat \ {0} /\ use[p] \in Nat /\ Ix[p] \in Indices
         /\ dep[p] \in Nat /\ dep[p] \in 0 .. Top(Ix[p]) + 1 /\ Top(Ix[p]) \in 6..31
         /\ \A b \in 0..1 : C[p][b] \in L \cup {NULL}
         /\ Prefix(use[p], Ix[p], 0) = Rooted(Ix[p])
<1>1. p \in L /\ Ix[p] \in Indices
  BY DEF Nodes, Trie, TrieType
<1> QED
  BY <1>1, TopType DEF Trie, TrieType

\* A son is a node one level down.
LEMMA NodeBelow ==
  ASSUME NEW L, NEW use, NEW C, NEW Pa, NEW Ix, NEW tr, NEW dep,
         Trie(L, use, C, Pa, Ix, tr, dep), NEW p \in L, NEW b \in 0..1,
         C[p][b] # NULL
  PROVE  /\ p \in Nodes(L, Pa) /\ C[p][b] \in Nodes(L, Pa) /\ Pa[C[p][b]] = p
         /\ Ix[C[p][b]] = Ix[p] /\ dep[C[p][b]] = dep[p] + 1
         /\ dep[p] \in 0..Top(Ix[p])
         /\ Prefix(use[C[p][b]], Ix[p], dep[p] + 1) = 2 * Prefix(use[p], Ix[p], dep[p]) + b
         /\ Under(L, use, Pa, Ix, dep, p, C[p][b])
<1> DEFINE s == C[p][b]
<1>1. /\ Pa[p] # NULL /\ Pa[s] = p /\ Ix[s] = Ix[p] /\ dep[s] = dep[p] + 1
      /\ Prefix(use[s], Ix[p], dep[p] + 1) = 2 * Prefix(use[p], Ix[p], dep[p]) + b
  BY DEF Trie, SonRight
<1>2. s \in L \cup {NULL} /\ p \in Nat \ {0}
  BY DEF Trie, TrieType
<1>3. p \in Nodes(L, Pa) /\ s \in Nodes(L, Pa)
  BY <1>1, <1>2 DEF Nodes, NULL
<1>4. /\ dep[p] \in Nat /\ dep[s] \in 0 .. Top(Ix[s]) + 1 /\ Top(Ix[s]) \in 6..31
      /\ use[s] \in Nat /\ Ix[p] \in Indices /\ use[p] \in Nat
  BY <1>3, NodeType
<1>5. dep[p] \in 0..Top(Ix[p])
  BY <1>1, <1>4
<1> HIDE DEF s
<1>6. Prefix(use[s], Ix[p], dep[p]) = Prefix(use[p], Ix[p], dep[p])
  <2>1. /\ Prefix(use[s], Ix[p], dep[p]) \in Nat /\ Prefix(use[p], Ix[p], dep[p]) \in Nat
        /\ Branch(use[s], Ix[p], dep[p]) \in 0..1
        /\ Prefix(use[s], Ix[p], dep[p] + 1)
             = 2 * Prefix(use[s], Ix[p], dep[p]) + Branch(use[s], Ix[p], dep[p])
    BY <1>4, <1>5, OneDown
  <2>2. 2 * Prefix(use[s], Ix[p], dep[p]) + Branch(use[s], Ix[p], dep[p])
          = 2 * Prefix(use[p], Ix[p], dep[p]) + b
    BY <1>1, <2>1
  <2> QED
    BY <2>1, <2>2, OddEven
<1> QED
  BY <1>1, <1>3, <1>4, <1>5, <1>6 DEF Under, s

\* Everything in a tree is under its root.
LEMMA UnderRoot ==
  ASSUME NEW L, NEW use, NEW C, NEW Pa, NEW Ix, NEW tr, NEW dep,
         Trie(L, use, C, Pa, Ix, tr, dep), NEW q \in Nodes(L, Pa)
  PROVE  Under(L, use, Pa, Ix, dep, tr[Ix[q]], q)
<1> DEFINE r == tr[Ix[q]]
<1>1. dep[q] \in Nat /\ Ix[q] \in Indices
  BY NodeType
<1>2. 0 \in 0..dep[q]
  BY <1>1
<1>3. PICK a \in Nodes(L, Pa) : Ix[a] = Ix[q] /\ dep[a] = 0
  BY <1>2, TrieAbove
<1>4. a = r
  <2>1. ~(\E d \in 0..Top(Ix[a]) : dep[a] = d + 1)
    BY <1>3
  <2> QED
    BY <1>3, <2>1, NodeAbove
<1>5. /\ Prefix(use[a], Ix[a], 0) = Rooted(Ix[a]) /\ Prefix(use[q], Ix[q], 0) = Rooted(Ix[q])
  BY NodeType
<1> QED
  BY <1>1, <1>3, <1>4, <1>5 DEF Under

\* What is under a node and not the node is under its son on that side.
LEMMA UnderSon ==
  ASSUME NEW L, NEW use, NEW C, NEW Pa, NEW Ix, NEW tr, NEW dep,
         Trie(L, use, C, Pa, Ix, tr, dep), NEW p, NEW q,
         Under(L, use, Pa, Ix, dep, p, q), p # q
  PROVE  /\ dep[p] \in 0..Top(Ix[p]) /\ Branch(use[q], Ix[p], dep[p]) \in 0..1
         /\ C[p][Branch(use[q], Ix[p], dep[p])] # NULL
         /\ Under(L, use, Pa, Ix, dep, C[p][Branch(use[q], Ix[p], dep[p])], q)
<1> DEFINE i == Ix[p]
           d == dep[p]
           b == Branch(use[q], i, d)
<1>1. /\ p \in Nodes(L, Pa) /\ q \in Nodes(L, Pa) /\ Ix[q] = i /\ d <= dep[q]
      /\ Prefix(use[q], i, d) = Prefix(use[p], i, d)
  BY DEF Under
<1>2. /\ p \in L /\ use[p] \in Nat /\ use[q] \in Nat /\ i \in Indices /\ d \in Nat
      /\ d \in 0 .. Top(i) + 1 /\ dep[q] \in Nat /\ dep[q] \in 0 .. Top(i) + 1
      /\ Top(i) \in 6..31
  BY <1>1, NodeType
<1>3. d # dep[q]
  BY <1>1, TrieUnique
<1>4. d \in 0..Top(i) /\ d + 1 \in 0..dep[q] /\ d \in 0..(d + 1) /\ d + 1 \in 0 .. Top(i) + 1
  BY <1>1, <1>2, <1>3
<1>5. PICK a \in Nodes(L, Pa) : /\ Ix[a] = i /\ dep[a] = d + 1
                                /\ Prefix(use[a], i, d + 1) = Prefix(use[q], i, d + 1)
  BY <1>1, <1>4, TrieAbove
<1>6. ~(dep[a] = 0)
  BY <1>2, <1>5
<1>7. PICK u \in Nodes(L, Pa), e \in 0..1 :
              /\ C[u][e] = a /\ Ix[u] = i
              /\ dep[u] \in 0..Top(i) /\ d + 1 = dep[u] + 1
              /\ Prefix(use[a], i, d + 1) = 2 * Prefix(use[u], i, dep[u]) + e
  BY <1>5, <1>6, NodeAbove
<1>8. dep[u] = d /\ use[u] \in Nat
  BY <1>2, <1>7, NodeType
<1> HIDE DEF i, d
<1>9. /\ Prefix(use[q], i, d) \in Nat /\ b \in 0..1 /\ Prefix(use[u], i, d) \in Nat
      /\ Prefix(use[q], i, d + 1) = 2 * Prefix(use[q], i, d) + b
  BY <1>2, <1>4, <1>8, OneDown
<1> HIDE DEF b
<1>10. Prefix(use[u], i, d) = Prefix(use[q], i, d) /\ e = b
  <2>1. 2 * Prefix(use[u], i, d) + e = 2 * Prefix(use[q], i, d) + b
    BY <1>5, <1>7, <1>8, <1>9
  <2> QED
    BY <1>9, <2>1, OddEven
<1>11. u = p
  BY <1>1, <1>7, <1>8, <1>10, TrieUnique DEF i, d
<1>12. C[p][b] = a /\ a # NULL
  BY <1>5, <1>7, <1>10, <1>11, NodeType DEF NULL
<1>13. Under(L, use, Pa, Ix, dep, a, q)
  BY <1>1, <1>2, <1>4, <1>5 DEF Under
<1> QED
  BY <1>4, <1>9, <1>12, <1>13 DEF i, d, b

\* The way of n goes on from a node of another size to the son on its side.
LEMMA WayDown ==
  ASSUME NEW L, NEW use, NEW C, NEW Pa, NEW Ix, NEW tr, NEW dep,
         Trie(L, use, C, Pa, Ix, tr, dep), NEW n \in Nat, NEW p,
         OnWay(L, use, Pa, Ix, dep, n, p), use[p] # n
  PROVE  /\ dep[p] \in 0..Top(Ix[p]) /\ Branch(n, Ix[p], dep[p]) \in 0..1
         /\ C[p][Branch(n, Ix[p], dep[p])] # NULL =>
              OnWay(L, use, Pa, Ix, dep, n, C[p][Branch(n, Ix[p], dep[p])])
<1> DEFINE i == Ix[p]
           d == dep[p]
           b == Branch(n, i, d)
<1>1. p \in Nodes(L, Pa) /\ Prefix(use[p], i, d) = Prefix(n, i, d)
  BY DEF OnWay
<1>2. /\ p \in L /\ use[p] \in Nat /\ i \in Indices /\ d \in Nat
      /\ d \in 0 .. Top(i) + 1 /\ Top(i) \in 6..31
  BY <1>1, NodeType
<1>3. d # Top(i) + 1
  <2> SUFFICES ASSUME d = Top(i) + 1 PROVE FALSE
    OBVIOUS
  <2>1. Prefix(use[p], i, Top(i) + 1) = use[p] /\ Prefix(n, i, Top(i) + 1) = n
    BY <1>2, AllBits
  <2> QED
    BY <1>1, <2>1
<1>4. d \in 0..Top(i)
  BY <1>2, <1>3
<1>5. b \in 0..1 /\ Prefix(n, i, d + 1) = 2 * Prefix(n, i, d) + b
  BY <1>2, <1>4, OneDown
<1>6. ASSUME C[p][b] # NULL
      PROVE  OnWay(L, use, Pa, Ix, dep, n, C[p][b])
  <2>1. /\ C[p][b] \in Nodes(L, Pa) /\ Ix[C[p][b]] = i /\ dep[C[p][b]] = d + 1
        /\ Prefix(use[C[p][b]], i, d + 1) = 2 * Prefix(use[p], i, d) + b
    BY <1>2, <1>5, <1>6, NodeBelow
  <2> QED
    BY <1>1, <1>5, <2>1 DEF OnWay
<1> QED
  BY <1>4, <1>5, <1>6

-----------------------------------------------------------------------------
\* Changes of the trees.

\* A chunk that is not in a tree is nobody's son and has no sons.
LEMMA Apart ==
  ASSUME NEW L, NEW use, NEW C, NEW Pa, NEW Ix, NEW tr, NEW dep,
         Trie(L, use, C, Pa, Ix, tr, dep), NEW c \in L, Pa[c] = NULL
  PROVE  /\ \A p \in L, b \in 0..1 : C[p][b] # c
         /\ \A b \in 0..1 : C[c][b] = NULL
         /\ \A i \in Indices : tr[i] # c
<1>1. c # NULL
  BY DEF Trie, TrieType, NULL
<1>2. ASSUME NEW p \in L, NEW b \in 0..1, C[p][b] = c PROVE FALSE
  <2>1. Pa[c] = p
    BY <1>1, <1>2, NodeBelow
  <2> QED
    BY <2>1 DEF Trie, TrieType, NULL
<1>3. \A b \in 0..1 : C[c][b] = NULL
  <2> SUFFICES ASSUME NEW b \in 0..1, C[c][b] # NULL PROVE FALSE
    OBVIOUS
  <2> QED
    BY NodeBelow DEF Nodes
<1>4. ASSUME NEW i \in Indices, tr[i] = c PROVE FALSE
  <2>1. Pa[c] = Slot(i)
    BY <1>1, <1>4 DEF Trie, RootsRight
  <2> QED
    BY <2>1 DEF Slot, NULL, Indices
<1> QED
  BY <1>2, <1>3, <1>4

\* A chunk comes that is in no tree yet.
LEMMA TrieAdd ==
  ASSUME NEW L, NEW use, NEW C, NEW Pa, NEW Ix, NEW tr, NEW dep,
         Trie(L, use, C, Pa, Ix, tr, dep),
         NEW c \in Nat \ {0}, c \notin L, NEW n \in Nat, NEW i \in Indices,
         Prefix(n, i, 0) = Rooted(i)
  PROVE  Trie(L \cup {c}, Put(use, c, n), Put(C, c, [b \in 0..1 |-> NULL]), Put(Pa, c, NULL),
              Put(Ix, c, i), tr, Put(dep, c, 0))
<1> DEFINE M == L \cup {c}
           use2 == Put(use, c, n)
           C2 == Put(C, c, [b \in 0..1 |-> NULL])
           Pa2 == Put(Pa, c, NULL)
           Ix2 == Put(Ix, c, i)
           dep2 == Put(dep, c, 0)
<1>1. TrieType(L, use, C, Pa, Ix, tr, dep)
  BY DEF Trie
<1>2. /\ DOMAIN use = L /\ DOMAIN C = L /\ DOMAIN Pa = L /\ DOMAIN Ix = L /\ DOMAIN dep = L
  BY <1>1 DEF TrieType
<1>3. /\ use2 = [x \in M |-> IF x = c THEN n ELSE use[x]]
      /\ C2 = [x \in M |-> IF x = c THEN [b \in 0..1 |-> NULL] ELSE C[x]]
      /\ Pa2 = [x \in M |-> IF x = c THEN NULL ELSE Pa[x]]
      /\ Ix2 = [x \in M |-> IF x = c THEN i ELSE Ix[x]]
      /\ dep2 = [x \in M |-> IF x = c THEN 0 ELSE dep[x]]
  BY <1>2 DEF Put
<1> HIDE DEF use2, C2, Pa2, Ix2, dep2
<1>4. TrieType(M, use2, C2, Pa2, Ix2, tr, dep2)
  <2>1. /\ M \subseteq Nat \ {0} /\ use2 \in [M -> Nat] /\ DOMAIN Pa2 = M
        /\ Ix2 \in [M -> Indices] /\ tr \in [Indices -> M \cup {NULL}] /\ dep2 \in [M -> Nat]
    BY <1>1, <1>3 DEF TrieType
  <2>2. C2 \in [M -> [0..1 -> M \cup {NULL}]]
    <3>1. \A x \in L : C[x] \in [0..1 -> M \cup {NULL}]
      BY <1>1 DEF TrieType
    <3> QED
      BY <1>3, <3>1
  <2>3. ASSUME NEW x \in M
        PROVE  /\ Prefix(use2[x], Ix2[x], 0) = Rooted(Ix2[x])
               /\ dep2[x] \in 0 .. Top(Ix2[x]) + 1
    <3>1. CASE x = c
      BY <1>3, <3>1, TopType
    <3>2. CASE x # c
      BY <1>1, <1>3, <3>2 DEF TrieType
    <3> QED
      BY <3>1, <3>2
  <2> QED
    BY <2>1, <2>2, <2>3 DEF TrieType
<1>5. RootsRight(Pa2, Ix2, tr, dep2)
  <2>1. \A j \in Indices : tr[j] # NULL => tr[j] # c /\ tr[j] \in L
    BY <1>1 DEF TrieType
  <2> QED
    BY <1>3, <2>1 DEF Trie, RootsRight
<1>6. ASSUME NEW p \in M, NEW b \in 0..1
      PROVE  SonRight(use2, C2, Pa2, Ix2, dep2, p, b)
  <2>1. CASE p = c
    BY <1>3, <2>1 DEF SonRight
  <2>2. CASE p # c
    <3>1. p \in L /\ C[p][b] \in L \cup {NULL} /\ SonRight(use, C, Pa, Ix, dep, p, b)
      BY <1>1, <2>2 DEF Trie, TrieType
    <3> QED
      BY <1>3, <2>2, <3>1 DEF SonRight
  <2> QED
    BY <2>1, <2>2
<1>7. ASSUME NEW x \in Nodes(M, Pa2)
      PROVE  Hangs(M, C2, Ix2, tr, x)
  <2>1. x # c /\ x \in Nodes(L, Pa) /\ x \in L
    BY <1>3 DEF Nodes
  <2>2. Hangs(L, C, Ix, tr, x)
    BY <2>1 DEF Trie
  <2> QED
    BY <1>3, <2>1, <2>2 DEF Hangs
<1> QED
  BY <1>4, <1>5, <1>6, <1>7 DEF Trie, use2, C2, Pa2, Ix2, dep2

\* A chunk that is in no tree goes.
LEMMA TrieDrop ==
  ASSUME NEW L, NEW use, NEW C, NEW Pa, NEW Ix, NEW tr, NEW dep,
         Trie(L, use, C, Pa, Ix, tr, dep), NEW c \in L, Pa[c] = NULL
  PROVE  Trie(L \ {c}, Drop(use, c), Drop(C, c), Drop(Pa, c), Drop(Ix, c), tr, Drop(dep, c))
<1> DEFINE M == L \ {c}
           use2 == Drop(use, c)
           C2 == Drop(C, c)
           Pa2 == Drop(Pa, c)
           Ix2 == Drop(Ix, c)
           dep2 == Drop(dep, c)
<1>1. TrieType(L, use, C, Pa, Ix, tr, dep)
  BY DEF Trie
<1>2. /\ DOMAIN use = L /\ DOMAIN C = L /\ DOMAIN Pa = L /\ DOMAIN Ix = L /\ DOMAIN dep = L
  BY <1>1 DEF TrieType
<1>3. /\ use2 = [x \in M |-> use[x]] /\ C2 = [x \in M |-> C[x]]
      /\ Pa2 = [x \in M |-> Pa[x]] /\ Ix2 = [x \in M |-> Ix[x]]
      /\ dep2 = [x \in M |-> dep[x]]
  BY <1>2 DEF Drop
<1> HIDE DEF use2, C2, Pa2, Ix2, dep2
<1>4. /\ \A p \in L, b \in 0..1 : C[p][b] # c
      /\ \A i \in Indices : tr[i] # c
  BY Apart
<1>5. TrieType(M, use2, C2, Pa2, Ix2, tr, dep2)
  <2>1. /\ M \subseteq Nat \ {0} /\ use2 \in [M -> Nat] /\ DOMAIN Pa2 = M
        /\ Ix2 \in [M -> Indices] /\ tr \in [Indices -> M \cup {NULL}] /\ dep2 \in [M -> Nat]
    BY <1>1, <1>3, <1>4 DEF TrieType
  <2>2. C2 \in [M -> [0..1 -> M \cup {NULL}]]
    <3>1. \A x \in M : C[x] \in [0..1 -> M \cup {NULL}]
      <4>1. \A x \in M : C[x] \in [0..1 -> L \cup {NULL}]
        BY <1>1 DEF TrieType
      <4> QED
        BY <1>4, <4>1
    <3> QED
      BY <1>3, <3>1
  <2> QED
    BY <1>1, <1>3, <2>1, <2>2 DEF TrieType
<1>6. RootsRight(Pa2, Ix2, tr, dep2)
  <2>1. \A j \in Indices : tr[j] # NULL => tr[j] \in M
    BY <1>1, <1>4 DEF TrieType
  <2> QED
    BY <1>3, <2>1 DEF Trie, RootsRight
<1>7. ASSUME NEW p \in M, NEW b \in 0..1
      PROVE  SonRight(use2, C2, Pa2, Ix2, dep2, p, b)
  <2>1. C[p][b] \in M \cup {NULL} /\ SonRight(use, C, Pa, Ix, dep, p, b)
    BY <1>1, <1>4 DEF Trie, TrieType
  <2> QED
    BY <1>3, <2>1 DEF SonRight
<1>8. ASSUME NEW x \in Nodes(M, Pa2)
      PROVE  Hangs(M, C2, Ix2, tr, x)
  <2>1. x # c /\ x \in Nodes(L, Pa) /\ x \in L /\ x # NULL
    BY <1>1, <1>3 DEF Nodes, TrieType, NULL
  <2>2. Hangs(L, C, Ix, tr, x)
    BY <2>1 DEF Trie
  <2>3. \A b \in 0..1 : C[c][b] # x
    BY <2>1, Apart
  <2> QED
    BY <1>3, <2>1, <2>2, <2>3 DEF Hangs
<1> QED
  BY <1>5, <1>6, <1>7, <1>8 DEF Trie, use2, C2, Pa2, Ix2, dep2

\* A chunk without a place takes the free place of a son.
LEMMA TrieAttach ==
  ASSUME NEW L, NEW use, NEW C, NEW Pa, NEW Ix, NEW tr, NEW dep,
         Trie(L, use, C, Pa, Ix, tr, dep), NEW c \in L, Pa[c] = NULL,
         NEW q \in Nodes(L, Pa), NEW w \in 0..1, C[q][w] = NULL,
         Ix[c] = Ix[q], dep[q] \in 0..Top(Ix[q]),
         Prefix(use[c], Ix[q], dep[q] + 1) = 2 * Prefix(use[q], Ix[q], dep[q]) + w
  PROVE  Trie(L, use, [C EXCEPT ![q][w] = c], [Pa EXCEPT ![c] = q], Ix, tr,
              [dep EXCEPT ![c] = dep[q] + 1])
<1> DEFINE C2 == [C EXCEPT ![q][w] = c]
           Pa2 == [Pa EXCEPT ![c] = q]
           dep2 == [dep EXCEPT ![c] = dep[q] + 1]
<1>1. TrieType(L, use, C, Pa, Ix, tr, dep)
  BY DEF Trie
<1>2. /\ q \in L /\ q # c /\ q # NULL /\ c # NULL /\ Ix[q] \in Indices /\ Top(Ix[q]) \in 6..31
      /\ dep[q] \in Nat
  BY <1>1, NodeType DEF Nodes, TrieType, NULL
<1>3. /\ \A p \in L, b \in 0..1 : C[p][b] # c
      /\ \A b \in 0..1 : C[c][b] = NULL
      /\ \A i \in Indices : tr[i] # c
  BY Apart
<1>4. /\ \A x \in L, b \in 0..1 : C2[x][b] = IF x = q /\ b = w THEN c ELSE C[x][b]
      /\ C2 \in [L -> [0..1 -> L \cup {NULL}]]
  BY <1>1, <1>2 DEF TrieType
<1>5. /\ DOMAIN Pa2 = L /\ Pa2[c] = q /\ \A x \in L : x # c => Pa2[x] = Pa[x]
      /\ dep2 \in [L -> Nat] /\ dep2[c] = dep[q] + 1 /\ \A x \in L : x # c => dep2[x] = dep[x]
  BY <1>1, <1>2 DEF TrieType
<1> HIDE DEF C2, Pa2, dep2
<1>6. TrieType(L, use, C2, Pa2, Ix, tr, dep2)
  BY <1>1, <1>2, <1>4, <1>5 DEF TrieType
<1>7. RootsRight(Pa2, Ix, tr, dep2)
  <2>1. \A j \in Indices : tr[j] # NULL => tr[j] # c /\ tr[j] \in L
    BY <1>1, <1>3 DEF TrieType
  <2> QED
    BY <1>5, <2>1 DEF Trie, RootsRight
<1>8. ASSUME NEW p \in L, NEW b \in 0..1
      PROVE  SonRight(use, C2, Pa2, Ix, dep2, p, b)
  <2>1. CASE p = q /\ b = w
    <3>1. C2[p][b] = c /\ Pa2[p] = Pa[p] /\ dep2[p] = dep[p] /\ Pa[p] # NULL
      BY <1>2, <1>4, <1>5, <2>1 DEF Nodes
    <3> QED
      BY <1>5, <2>1, <3>1 DEF SonRight
  <2>2. CASE ~(p = q /\ b = w)
    <3>1. C2[p][b] = C[p][b] /\ C[p][b] \in L \cup {NULL} /\ C[p][b] # c
          /\ SonRight(use, C, Pa, Ix, dep, p, b)
      BY <1>1, <1>3, <1>4, <2>2 DEF Trie, TrieType
    <3>2. C[p][b] # NULL => p # c
      BY <1>3
    <3> QED
      BY <1>5, <3>1, <3>2 DEF SonRight
  <2> QED
    BY <2>1, <2>2
<1>9. ASSUME NEW x \in Nodes(L, Pa2)
      PROVE  Hangs(L, C2, Ix, tr, x)
  <2>1. CASE x = c
    BY <1>2, <1>4, <2>1 DEF Hangs
  <2>2. CASE x # c
    <3>1. x \in Nodes(L, Pa) /\ x # NULL
      BY <1>1, <1>5, <2>2 DEF Nodes, TrieType, NULL
    <3>2. Hangs(L, C, Ix, tr, x)
      BY <3>1 DEF Trie
    <3> QED
      BY <1>4, <3>1, <3>2 DEF Hangs
  <2> QED
    BY <2>1, <2>2
<1> QED
  BY <1>6, <1>7, <1>8, <1>9 DEF Trie, C2, Pa2, dep2

\* A chunk without a place becomes the root of its tree.
LEMMA TrieAttachRoot ==
  ASSUME NEW L, NEW use, NEW C, NEW Pa, NEW Ix, NEW tr, NEW dep,
         Trie(L, use, C, Pa, Ix, tr, dep), NEW c \in L, Pa[c] = NULL, tr[Ix[c]] = NULL,
         dep[c] = 0
  PROVE  Trie(L, use, C, [Pa EXCEPT ![c] = Slot(Ix[c])], Ix, [tr EXCEPT ![Ix[c]] = c], dep)
<1> DEFINE Pa2 == [Pa EXCEPT ![c] = Slot(Ix[c])]
           tr2 == [tr EXCEPT ![Ix[c]] = c]
<1>1. TrieType(L, use, C, Pa, Ix, tr, dep)
  BY DEF Trie
<1>2. Ix[c] \in Indices /\ c # NULL /\ Slot(Ix[c]) # NULL
  BY <1>1 DEF TrieType, NULL, Slot, Indices
<1>3. /\ \A p \in L, b \in 0..1 : C[p][b] # c
      /\ \A b \in 0..1 : C[c][b] = NULL
      /\ \A i \in Indices : tr[i] # c
  BY Apart
<1>4. /\ DOMAIN Pa2 = L /\ Pa2[c] = Slot(Ix[c]) /\ \A x \in L : x # c => Pa2[x] = Pa[x]
      /\ tr2 \in [Indices -> L \cup {NULL}] /\ tr2[Ix[c]] = c
      /\ \A i \in Indices : i # Ix[c] => tr2[i] = tr[i]
  BY <1>1, <1>2 DEF TrieType
<1> HIDE DEF Pa2, tr2
<1>5. TrieType(L, use, C, Pa2, Ix, tr2, dep)
  BY <1>1, <1>4 DEF TrieType
<1>6. RootsRight(Pa2, Ix, tr2, dep)
  <2> SUFFICES ASSUME NEW i \in Indices, tr2[i] # NULL
               PROVE  Pa2[tr2[i]] = Slot(i) /\ Ix[tr2[i]] = i /\ dep[tr2[i]] = 0
    BY DEF RootsRight
  <2>1. CASE i = Ix[c]
    BY <1>4, <2>1
  <2>2. CASE i # Ix[c]
    <3>1. tr2[i] = tr[i] /\ tr[i] # c /\ tr[i] \in L
      BY <1>1, <1>3, <1>4, <2>2 DEF TrieType
    <3> QED
      BY <1>4, <3>1 DEF Trie, RootsRight
  <2> QED
    BY <2>1, <2>2
<1>7. ASSUME NEW p \in L, NEW b \in 0..1
      PROVE  SonRight(use, C, Pa2, Ix, dep, p, b)
  <2>1. C[p][b] \in L \cup {NULL} /\ C[p][b] # c /\ SonRight(use, C, Pa, Ix, dep, p, b)
    BY <1>1, <1>3 DEF Trie, TrieType
  <2>2. C[p][b] # NULL => p # c
    BY <1>3
  <2> QED
    BY <1>4, <2>1, <2>2 DEF SonRight
<1>8. ASSUME NEW x \in Nodes(L, Pa2)
      PROVE  Hangs(L, C, Ix, tr2, x)
  <2>1. CASE x = c
    BY <1>4, <2>1 DEF Hangs
  <2>2. CASE x # c
    <3>1. x \in Nodes(L, Pa) /\ x # NULL /\ Ix[x] \in Indices
      BY <1>1, <1>4, <2>2 DEF Nodes, TrieType, NULL
    <3>2. Hangs(L, C, Ix, tr, x)
      BY <3>1 DEF Trie
    <3> QED
      BY <1>4, <3>1, <3>2 DEF Hangs
  <2> QED
    BY <2>1, <2>2
<1> QED
  BY <1>5, <1>6, <1>7, <1>8 DEF Trie, Pa2, tr2

\* A leaf leaves the node above it.
LEMMA TrieDetach ==
  ASSUME NEW L, NEW use, NEW C, NEW Pa, NEW Ix, NEW tr, NEW dep,
         Trie(L, use, C, Pa, Ix, tr, dep), NEW q \in L, NEW w \in 0..1, NEW l,
         C[q][w] = l, l # NULL, \A b \in 0..1 : C[l][b] = NULL
  PROVE  Trie(L, use, [C EXCEPT ![q][w] = NULL], [Pa EXCEPT ![l] = NULL], Ix, tr, dep)
<1> DEFINE C2 == [C EXCEPT ![q][w] = NULL]
           Pa2 == [Pa EXCEPT ![l] = NULL]
<1>1. TrieType(L, use, C, Pa, Ix, tr, dep)
  BY DEF Trie
<1>2. /\ l \in L /\ q \in Nodes(L, Pa) /\ l \in Nodes(L, Pa) /\ Pa[l] = q /\ q # NULL
      /\ dep[l] = dep[q] + 1 /\ dep[q] \in Nat
  <2>1. l \in L \cup {NULL}
    BY <1>1 DEF TrieType
  <2> QED
    BY <1>1, <2>1, NodeBelow DEF TrieType, NULL
<1>3. /\ \A x \in L, b \in 0..1 : C2[x][b] = IF x = q /\ b = w THEN NULL ELSE C[x][b]
      /\ C2 \in [L -> [0..1 -> L \cup {NULL}]]
  BY <1>1 DEF TrieType
<1>4. /\ DOMAIN Pa2 = L /\ Pa2[l] = NULL /\ \A x \in L : x # l => Pa2[x] = Pa[x]
  BY <1>1, <1>2 DEF TrieType
<1>5. \A i \in Indices : tr[i] # l
  <2> SUFFICES ASSUME NEW i \in Indices, tr[i] = l PROVE FALSE
    OBVIOUS
  <2>1. dep[l] = 0
    BY DEF Trie, RootsRight
  <2> QED
    BY <1>2, <2>1
<1>6. ASSUME NEW p \in L, NEW b \in 0..1, C[p][b] = l
      PROVE  p = q /\ b = w
  <2>1. /\ Pa[l] = p
        /\ Prefix(use[l], Ix[p], dep[p] + 1) = 2 * Prefix(use[p], Ix[p], dep[p]) + b
        /\ Prefix(use[l], Ix[q], dep[q] + 1) = 2 * Prefix(use[q], Ix[q], dep[q]) + w
    BY <1>2, <1>6, NodeBelow
  <2>2. p = q
    BY <1>2, <2>1
  <2>3. Prefix(use[q], Ix[q], dep[q]) \in Nat
    BY <1>2, NodeType, PrefixType
  <2> QED
    BY <2>1, <2>2, <2>3, OddEven
<1> HIDE DEF C2, Pa2
<1>7. TrieType(L, use, C2, Pa2, Ix, tr, dep)
  BY <1>1, <1>3, <1>4 DEF TrieType
<1>8. RootsRight(Pa2, Ix, tr, dep)
  <2>1. \A j \in Indices : tr[j] # NULL => tr[j] # l /\ tr[j] \in L
    BY <1>1, <1>5 DEF TrieType
  <2> QED
    BY <1>4, <2>1 DEF Trie, RootsRight
<1>9. ASSUME NEW p \in L, NEW b \in 0..1
      PROVE  SonRight(use, C2, Pa2, Ix, dep, p, b)
  <2>1. CASE p = q /\ b = w
    BY <1>3, <2>1 DEF SonRight
  <2>2. CASE ~(p = q /\ b = w)
    <3>1. C2[p][b] = C[p][b] /\ C[p][b] \in L \cup {NULL} /\ C[p][b] # l
          /\ SonRight(use, C, Pa, Ix, dep, p, b)
      BY <1>1, <1>3, <1>6, <2>2 DEF Trie, TrieType
    <3>2. C[p][b] # NULL => p # l
      OBVIOUS
    <3> QED
      BY <1>4, <3>1, <3>2 DEF SonRight
  <2> QED
    BY <2>1, <2>2
<1>10. ASSUME NEW x \in Nodes(L, Pa2)
      PROVE  Hangs(L, C2, Ix, tr, x)
  <2>1. x # l /\ x \in Nodes(L, Pa) /\ x # NULL
    BY <1>1, <1>4 DEF Nodes, TrieType, NULL
  <2>2. Hangs(L, C, Ix, tr, x)
    BY <2>1 DEF Trie
  <2> QED
    BY <1>3, <2>1, <2>2 DEF Hangs
<1> QED
  BY <1>7, <1>8, <1>9, <1>10 DEF Trie, C2, Pa2

\* A root that is a leaf leaves its tree.
LEMMA TrieDetachRoot ==
  ASSUME NEW L, NEW use, NEW C, NEW Pa, NEW Ix, NEW tr, NEW dep,
         Trie(L, use, C, Pa, Ix, tr, dep), NEW i \in Indices, NEW l,
         tr[i] = l, l # NULL, \A b \in 0..1 : C[l][b] = NULL
  PROVE  Trie(L, use, C, [Pa EXCEPT ![l] = NULL], Ix, [tr EXCEPT ![i] = NULL], dep)
<1> DEFINE tr2 == [tr EXCEPT ![i] = NULL]
           Pa2 == [Pa EXCEPT ![l] = NULL]
<1>1. TrieType(L, use, C, Pa, Ix, tr, dep)
  BY DEF Trie
<1>2. l \in L /\ Pa[l] = Slot(i) /\ Ix[l] = i /\ dep[l] = 0
  BY <1>1 DEF Trie, RootsRight, TrieType
<1>3. /\ DOMAIN Pa2 = L /\ Pa2[l] = NULL /\ \A x \in L : x # l => Pa2[x] = Pa[x]
      /\ tr2 \in [Indices -> L \cup {NULL}] /\ tr2[i] = NULL
      /\ \A j \in Indices : j # i => tr2[j] = tr[j]
  BY <1>1, <1>2 DEF TrieType
<1> HIDE DEF tr2, Pa2
<1>4. TrieType(L, use, C, Pa2, Ix, tr2, dep)
  BY <1>1, <1>3 DEF TrieType
<1>5. RootsRight(Pa2, Ix, tr2, dep)
  <2> SUFFICES ASSUME NEW j \in Indices, tr2[j] # NULL
               PROVE  Pa2[tr2[j]] = Slot(j) /\ Ix[tr2[j]] = j /\ dep[tr2[j]] = 0
    BY DEF RootsRight
  <2>1. j # i /\ tr2[j] = tr[j] /\ tr[j] # NULL /\ tr[j] \in L
    BY <1>1, <1>3 DEF TrieType
  <2>2. Pa[tr[j]] = Slot(j) /\ Ix[tr[j]] = j /\ dep[tr[j]] = 0
    BY <2>1 DEF Trie, RootsRight
  <2>3. tr[j] # l
    BY <1>2, <2>1, <2>2
  <2> QED
    BY <1>3, <2>1, <2>2, <2>3
<1>6. ASSUME NEW p \in L, NEW b \in 0..1
      PROVE  SonRight(use, C, Pa2, Ix, dep, p, b)
  <2>1. SonRight(use, C, Pa, Ix, dep, p, b) /\ C[p][b] \in L \cup {NULL} /\ dep[p] \in Nat
    BY <1>1 DEF Trie, TrieType
  <2>2. C[p][b] # NULL => p # l /\ C[p][b] # l
    BY <1>2, <2>1 DEF SonRight
  <2> QED
    BY <1>3, <2>1, <2>2 DEF SonRight
<1>7. ASSUME NEW x \in Nodes(L, Pa2)
      PROVE  Hangs(L, C, Ix, tr2, x)
  <2>1. x # l /\ x \in Nodes(L, Pa) /\ x # NULL /\ Ix[x] \in Indices
    BY <1>1, <1>3 DEF Nodes, TrieType, NULL
  <2>2. Hangs(L, C, Ix, tr, x)
    BY <2>1 DEF Trie
  <2>3. tr[Ix[x]] = x => Ix[x] # i
    BY <2>1
  <2> QED
    BY <1>3, <2>1, <2>2, <2>3 DEF Hangs
<1> QED
  BY <1>4, <1>5, <1>6, <1>7 DEF Trie, tr2, Pa2

\* The trees with r where c was.
Exchanged(L, C, Pa, tr, dep, c, r, C2, Pa2, tr2, dep2) ==
  /\ C2 \in [L \ {c} -> [0..1 -> L \cup {NULL}]]
  /\ \A x \in L \ {c}, b \in 0..1 :
       C2[x][b] = IF x = r THEN C[c][b] ELSE IF C[x][b] = c THEN r ELSE C[x][b]
  /\ DOMAIN Pa2 = L \ {c}
  /\ \A x \in L \ {c} : Pa2[x] = IF x = r THEN Pa[c] ELSE IF Pa[x] = c THEN r ELSE Pa[x]
  /\ tr2 \in [Indices -> L \cup {NULL}]
  /\ \A i \in Indices : tr2[i] = IF tr[i] = c THEN r ELSE tr[i]
  /\ dep2 \in [L \ {c} -> Nat]
  /\ \A x \in L \ {c} : dep2[x] = IF x = r THEN dep[c] ELSE dep[x]

\* A chunk without a place takes the place of a node, which goes.
LEMMA TrieReplace ==
  ASSUME NEW L, NEW use, NEW C, NEW Pa, NEW Ix, NEW tr, NEW dep,
         Trie(L, use, C, Pa, Ix, tr, dep), NEW c \in Nodes(L, Pa), NEW r \in L, Pa[r] = NULL,
         Ix[r] = Ix[c], Prefix(use[r], Ix[c], dep[c]) = Prefix(use[c], Ix[c], dep[c]),
         NEW C2, NEW Pa2, NEW tr2, NEW dep2,
         Exchanged(L, C, Pa, tr, dep, c, r, C2, Pa2, tr2, dep2)
  PROVE  Trie(L \ {c}, Drop(use, c), C2, Pa2, Drop(Ix, c), tr2, dep2)
<1> DEFINE M == L \ {c}
           use2 == Drop(use, c)
           Ix2 == Drop(Ix, c)
<1>0. /\ C2 \in [M -> [0..1 -> L \cup {NULL}]] /\ DOMAIN Pa2 = M
      /\ tr2 \in [Indices -> L \cup {NULL}] /\ dep2 \in [M -> Nat]
  BY DEF Exchanged
<1>1. TrieType(L, use, C, Pa, Ix, tr, dep)
  BY DEF Trie
<1>2. /\ c \in L /\ c # NULL /\ r # NULL /\ r # c /\ r \in M /\ Pa[c] # NULL
      /\ Ix[c] \in Indices /\ dep[c] \in Nat /\ dep[c] \in 0 .. Top(Ix[c]) + 1
      /\ use[c] \in Nat /\ use[r] \in Nat
  BY <1>1 DEF Nodes, TrieType, NULL
<1>3. /\ \A p \in L, b \in 0..1 : C[p][b] # r
      /\ \A b \in 0..1 : C[r][b] = NULL
      /\ \A i \in Indices : tr[i] # r
  BY Apart
<1>4. \A b \in 0..1 : C[c][b] # c /\ C[c][b] \in L \cup {NULL}
  <2> SUFFICES ASSUME NEW b \in 0..1, C[c][b] = c PROVE FALSE
    BY <1>1, <1>2 DEF TrieType
  <2> QED
    BY <1>2, NodeBelow
<1>5. /\ use2 = [x \in M |-> use[x]] /\ Ix2 = [x \in M |-> Ix[x]]
  BY <1>1 DEF Drop, TrieType
<1>6. \A x \in M, b \in 0..1 :
        C2[x][b] = IF x = r THEN C[c][b] ELSE IF C[x][b] = c THEN r ELSE C[x][b]
  BY DEF Exchanged
<1>7. C2 \in [M -> [0..1 -> M \cup {NULL}]]
  <2>1. \A x \in L, b \in 0..1 : C[x][b] \in L \cup {NULL}
    BY <1>1 DEF TrieType
  <2>2. \A x \in M, b \in 0..1 : C2[x][b] \in M \cup {NULL}
    BY <1>2, <1>4, <1>6, <2>1
  <2> QED
    BY <1>0, <2>2
<1>8. TrieType(M, use2, C2, Pa2, Ix2, tr2, dep2)
  <2>0. L \subseteq Nat \ {0} /\ use \in [L -> Nat] /\ Ix \in [L -> Indices]
    BY <1>1 DEF TrieType
  <2>1. /\ M \subseteq Nat \ {0} /\ use2 \in [M -> Nat] /\ DOMAIN Pa2 = M
        /\ Ix2 \in [M -> Indices]
    <3> HIDE DEF use2, Ix2
    <3> QED
      BY <1>0, <1>5, <2>0
  <2>2. tr2 \in [Indices -> M \cup {NULL}] /\ dep2 \in [M -> Nat]
    <3>1. \A j \in Indices : tr2[j] \in M \cup {NULL}
      BY <1>0, <1>1, <1>2 DEF Exchanged, TrieType
    <3> QED
      BY <1>0, <3>1
  <2>3. ASSUME NEW x \in M
        PROVE  /\ Prefix(use2[x], Ix2[x], 0) = Rooted(Ix2[x])
               /\ dep2[x] \in 0 .. Top(Ix2[x]) + 1
    BY <1>1, <1>2, <1>5 DEF Exchanged, TrieType
  <2> QED
    BY <1>7, <2>1, <2>2, <2>3 DEF TrieType
<1>9. \A x \in M : /\ use2[x] = use[x] /\ Ix2[x] = Ix[x]
                   /\ dep2[x] = IF x = r THEN dep[c] ELSE dep[x]
                   /\ Pa2[x] = IF x = r THEN Pa[c] ELSE IF Pa[x] = c THEN r ELSE Pa[x]
  BY <1>5 DEF Exchanged
<1>10. \A i \in Indices : tr2[i] = IF tr[i] = c THEN r ELSE tr[i]
  BY DEF Exchanged
<1> HIDE DEF use2, Ix2, M
<1>11. RootsRight(Pa2, Ix2, tr2, dep2)
  <2> SUFFICES ASSUME NEW j \in Indices, tr2[j] # NULL
               PROVE  Pa2[tr2[j]] = Slot(j) /\ Ix2[tr2[j]] = j /\ dep2[tr2[j]] = 0
    BY DEF RootsRight
  <2>1. tr[j] # NULL /\ tr[j] \in L
    BY <1>1, <1>2, <1>10 DEF TrieType
  <2>2. Pa[tr[j]] = Slot(j) /\ Ix[tr[j]] = j /\ dep[tr[j]] = 0
    BY <2>1 DEF Trie, RootsRight
  <2>3. CASE tr[j] = c
    BY <1>2, <1>9, <1>10, <2>2, <2>3
  <2>4. CASE tr[j] # c
    <3>1. tr2[j] = tr[j] /\ tr[j] # r /\ tr[j] \in M
      BY <1>3, <1>10, <2>1, <2>4 DEF M
    <3>2. Slot(j) # c
      BY <1>1, <1>2 DEF TrieType, Slot, Indices
    <3> QED
      BY <1>9, <2>2, <3>1, <3>2
  <2> QED
    BY <2>3, <2>4
<1>12. ASSUME NEW p \in M, NEW b \in 0..1
       PROVE  SonRight(use2, C2, Pa2, Ix2, dep2, p, b)
  <2> SUFFICES ASSUME C2[p][b] # NULL
               PROVE  /\ Pa2[p] # NULL /\ Pa2[C2[p][b]] = p /\ Ix2[C2[p][b]] = Ix2[p]
                      /\ dep2[C2[p][b]] = dep2[p] + 1
                      /\ Prefix(use2[C2[p][b]], Ix2[p], dep2[p] + 1)
                           = 2 * Prefix(use2[p], Ix2[p], dep2[p]) + b
    BY DEF SonRight
  <2>1. CASE p = r
    <3>1. /\ C2[p][b] = C[c][b] /\ C[c][b] # NULL /\ C[c][b] # c /\ C[c][b] # r
          /\ C[c][b] \in M
      BY <1>2, <1>3, <1>4, <1>6, <2>1 DEF M
    <3>2. SonRight(use, C, Pa, Ix, dep, c, b)
      BY <1>2 DEF Trie
    <3> QED
      BY <1>2, <1>9, <2>1, <3>1, <3>2 DEF SonRight
  <2>2. CASE p # r /\ C[p][b] = c
    <3>1. p \in L /\ C2[p][b] = r /\ SonRight(use, C, Pa, Ix, dep, p, b)
      BY <1>6, <2>2 DEF M, Trie
    <3>2. /\ Pa[p] # NULL /\ Pa[c] = p /\ Ix[c] = Ix[p] /\ dep[c] = dep[p] + 1
          /\ Prefix(use[c], Ix[p], dep[p] + 1) = 2 * Prefix(use[p], Ix[p], dep[p]) + b
      BY <1>2, <2>2, <3>1 DEF SonRight
    <3>3. /\ Pa2[p] # NULL /\ Pa2[r] = p /\ Ix2[r] = Ix[c] /\ Ix2[p] = Ix[p] /\ dep2[r] = dep[c]
          /\ dep2[p] = dep[p] /\ use2[r] = use[r] /\ use2[p] = use[p]
      BY <1>2, <1>9, <2>2, <3>2
    <3> QED
      BY <3>1, <3>2, <3>3
  <2>3. CASE p # r /\ C[p][b] # c
    <3>1. /\ p \in L /\ C2[p][b] = C[p][b] /\ C[p][b] \in M /\ C[p][b] # r
          /\ SonRight(use, C, Pa, Ix, dep, p, b)
      BY <1>1, <1>3, <1>6, <2>3 DEF M, Trie, TrieType
    <3>2. p # c /\ p # NULL
      BY <1>1, <3>1 DEF M, TrieType, NULL
    <3>3. /\ Pa2[p] # NULL /\ Pa2[C[p][b]] = Pa[C[p][b]]
      BY <1>2, <1>9, <2>3, <3>1, <3>2 DEF SonRight
    <3> QED
      BY <1>9, <2>3, <3>1, <3>3 DEF SonRight
  <2> QED
    BY <2>1, <2>2, <2>3
<1>13. ASSUME NEW x \in Nodes(M, Pa2)
       PROVE  Hangs(M, C2, Ix2, tr2, x)
  <2>0. x \in M /\ x \in L /\ x # c /\ x # NULL
    BY <1>1 DEF Nodes, M, TrieType, NULL
  <2>1. CASE x = r
    <3>1. Hangs(L, C, Ix, tr, c)
      BY DEF Trie
    <3>2. CASE tr[Ix[c]] = c
      BY <1>2, <1>9, <1>10, <2>0, <2>1, <3>2 DEF Hangs
    <3>3. CASE \E p \in L, b \in 0..1 : C[p][b] = c
      <4>1. PICK p \in L, b \in 0..1 : C[p][b] = c
        BY <3>3
      <4>2. p # c /\ p # r
        BY <1>2, <1>3, <1>4, <4>1
      <4>3. p \in M /\ C2[p][b] = r
        BY <1>6, <4>1, <4>2 DEF M
      <4> QED
        BY <2>1, <4>3 DEF Hangs
    <3> QED
      BY <3>1, <3>2, <3>3 DEF Hangs
  <2>2. CASE x # r
    <3>1. x \in Nodes(L, Pa) /\ Ix[x] \in Indices
      BY <1>1, <1>2, <1>9, <2>0, <2>2 DEF Nodes, TrieType
    <3>2. Hangs(L, C, Ix, tr, x)
      BY <3>1 DEF Trie
    <3>3. CASE tr[Ix[x]] = x
      BY <1>9, <1>10, <2>0, <3>1, <3>3 DEF Hangs
    <3>4. CASE \E p \in L, b \in 0..1 : C[p][b] = x
      <4>1. PICK p \in L, b \in 0..1 : C[p][b] = x
        BY <3>4
      <4>2. CASE p = c
        <5>1. C2[r][b] = x
          BY <1>2, <1>6, <4>1, <4>2
        <5> QED
          BY <1>2, <5>1 DEF Hangs
      <4>3. CASE p # c
        <5>1. p # r /\ p \in M
          BY <1>3, <2>0, <4>1, <4>3 DEF M
        <5>2. C2[p][b] = x
          BY <1>6, <2>0, <4>1, <5>1
        <5> QED
          BY <5>1, <5>2 DEF Hangs
      <4> QED
        BY <4>2, <4>3
    <3> QED
      BY <3>2, <3>3, <3>4 DEF Hangs
  <2> QED
    BY <2>1, <2>2
<1>14. Trie(M, use2, C2, Pa2, Ix2, tr2, dep2)
  BY <1>8, <1>11, <1>12, <1>13 DEF Trie
<1> QED
  BY <1>14 DEF M, use2, Ix2

-----------------------------------------------------------------------------
\* The lists of the free chunks.

Fields    == {"PrevInfo", "ThisInfo", "pFreeNext", "pFreePrev", "pChild", "pParent", "Index",
              "SameMap", "TreeMap", "tree"}
Record(h) == DOMAIN h = Fields
Heads(g, h) == g.ThisInfo = h.ThisInfo /\ g.PrevInfo = h.PrevInfo

\* sz gives the free chunks their sizes.  The class of a box and of the small chunks
\* that belong in it is its number; the class of a large chunk is its size.
Boxes     == {Box(i) : i \in Indices}
Sized(sz) == sz \in [DOMAIN sz -> MIN_CHUNK_SIZE .. Modulus - 1] /\ DOMAIN sz \subseteq Nat \ {0}
Cls(sz)   == [x \in DOMAIN sz \cup Boxes |->
                IF x \in Boxes THEN -(1 + x)
                ELSE IF is_small(sz[x] - ChunkHead) THEN get_box_index(sz[x] - ChunkHead)
                ELSE sz[x]]
Large(sz) == {c \in DOMAIN sz : ~is_small(sz[c] - ChunkHead)}
Uses(sz)  == [c \in Large(sz) |-> sz[c] - ChunkHead]

Ringed(h, sz) ==
  /\ Rings(DOMAIN sz \cup Boxes, h.pFreeNext, h.pFreePrev, Cls(sz))
  /\ h.SameMap = {i \in Indices : h.pFreeNext[Box(i)] # Box(i)}

\* Every large size has one node.
NodesRight(Pa, sz) ==
  /\ \A c \in Large(sz) : \E q \in Nodes(Large(sz), Pa) : sz[q] = sz[c]
  /\ \A p, q \in Nodes(Large(sz), Pa) : sz[p] = sz[q] => p = q

Treed(h, sz) ==
  /\ h.pParent \in [Large(sz) -> Int]
  /\ \A c \in Large(sz) : h.Index[c] = tree_size_to_index(sz[c] - ChunkHead)
  /\ h.TreeMap = {i \in Indices : h.tree[i] # NULL}
  /\ NodesRight(h.pParent, sz)
  /\ \E dep : Trie(Large(sz), Uses(sz), h.pChild, h.pParent, h.Index, h.tree, dep)

Listed(h, sz) == Record(h) /\ Sized(sz) /\ Ringed(h, sz) /\ Treed(h, sz)
Fits(h, sz)   == \A c \in DOMAIN sz : Size(h, c) = sz[c]

\* What forgetting a chunk does to each part of the heap.
LEMMA ForgottenIs ==
  ASSUME NEW h, NEW c, Record(h)
  PROVE  /\ Record(Forgotten(h, c)) /\ Heads(Forgotten(h, c), h)
         /\ Forgotten(h, c).SameMap = h.SameMap /\ Forgotten(h, c).TreeMap = h.TreeMap
         /\ Forgotten(h, c).tree = h.tree
         /\ Forgotten(h, c).pFreeNext = Drop(h.pFreeNext, c)
         /\ Forgotten(h, c).pFreePrev = Drop(h.pFreePrev, c)
         /\ Forgotten(h, c).pChild = Drop(h.pChild, c)
         /\ Forgotten(h, c).pParent = Drop(h.pParent, c)
         /\ Forgotten(h, c).Index = Drop(h.Index, c)
BY DEF Forgotten, Record, Fields, Heads

\* The classes are numbers, and a small chunk is in the class of a box.
LEMMA ClassIs ==
  ASSUME NEW sz, Sized(sz)
  PROVE  /\ \A i \in Indices : Box(i) \in Boxes /\ Box(i) \notin Nat /\ Cls(sz)[Box(i)] = i
         /\ \A x \in Boxes : x \notin DOMAIN sz
         /\ \A c \in DOMAIN sz : c \notin Boxes /\ c # NULL /\ sz[c] \in Nat
         /\ \A c \in Large(sz) : c \in DOMAIN sz /\ Cls(sz)[c] = sz[c] /\ sz[c] > 264
         /\ \A c \in DOMAIN sz \ Large(sz) :
              /\ Cls(sz)[c] = get_box_index(sz[c] - ChunkHead)
              /\ get_box_index(sz[c] - ChunkHead) \in Indices
              /\ sz[c] - ChunkHead >= 8 * (get_box_index(sz[c] - ChunkHead) + 1)
         /\ \A i \in Indices, j \in Indices : Box(i) = Box(j) => i = j
<1>1. \A i \in Indices : Box(i) \in Boxes /\ Box(i) \notin Nat /\ -(1 + Box(i)) = i
  BY DEF Boxes, Box, Indices
<1>2. \A x \in Boxes : x \notin Nat /\ x \notin DOMAIN sz
  BY DEF Boxes, Box, Indices, Sized
<1>3. \A c \in DOMAIN sz : /\ c \notin Boxes /\ c # NULL /\ sz[c] \in Nat
                           /\ sz[c] >= 16
  BY <1>2, HeapAssumption DEF Sized, NULL, MIN_CHUNK_SIZE
<1>4. \A i \in Indices : Cls(sz)[Box(i)] = i
  BY <1>1 DEF Cls
<1>5. \A c \in Large(sz) : c \in DOMAIN sz /\ Cls(sz)[c] = sz[c] /\ sz[c] > 264
  BY <1>3 DEF Cls, Large, is_small, ChunkHead
<1>6. ASSUME NEW c \in DOMAIN sz \ Large(sz)
      PROVE  /\ Cls(sz)[c] = get_box_index(sz[c] - ChunkHead)
             /\ get_box_index(sz[c] - ChunkHead) \in Indices
             /\ sz[c] - ChunkHead >= 8 * (get_box_index(sz[c] - ChunkHead) + 1)
  <2>1. is_small(sz[c] - ChunkHead)
    BY DEF Large
  <2>2. Cls(sz)[c] = get_box_index(sz[c] - ChunkHead)
    BY <1>3, <2>1 DEF Cls
  <2> DEFINE n == sz[c] - ChunkHead
  <2>3. n \in 8..256
    BY <1>3, <2>1 DEF is_small, ChunkHead
  <2> HIDE DEF n
  <2>4. get_box_index(n) \in Indices /\ n >= 8 * (get_box_index(n) + 1)
    BY <2>3 DEF get_box_index, Indices
  <2> QED
    BY <2>2, <2>4 DEF n
<1>7. \A i \in Indices, j \in Indices : Box(i) = Box(j) => i = j
  BY <1>1
<1> QED
  BY <1>1, <1>2, <1>3, <1>4, <1>5, <1>6, <1>7

\* A chunk of n bytes becomes free, or a free one is taken.
Grown(s2, sz, c, n) ==
  /\ Sized(s2) /\ DOMAIN s2 = DOMAIN sz \cup {c} /\ c \notin Boxes
  /\ s2[c] = n /\ \A x \in DOMAIN sz : s2[x] = sz[x]
  /\ \A x \in DOMAIN sz \cup Boxes : Cls(s2)[x] = Cls(sz)[x]
  /\ Large(s2) = Large(sz) \cup (IF is_small(n - ChunkHead) THEN {} ELSE {c})
  /\ is_small(n - ChunkHead) => Uses(s2) = Uses(sz)
  /\ ~is_small(n - ChunkHead) => Uses(s2) = Put(Uses(sz), c, n - ChunkHead)
Shrunk(s2, sz, c) ==
  /\ Sized(s2) /\ DOMAIN s2 = DOMAIN sz \ {c}
  /\ \A x \in DOMAIN sz \ {c} : s2[x] = sz[x]
  /\ \A x \in (DOMAIN sz \cup Boxes) \ {c} : Cls(s2)[x] = Cls(sz)[x]
  /\ Large(s2) = Large(sz) \ {c}
  /\ c \notin Large(sz) => Uses(s2) = Uses(sz)
  /\ Uses(s2) = Drop(Uses(sz), c)

\* What becomes of the sizes and of the classes.
LEMMA SizesPut ==
  ASSUME NEW sz, Sized(sz), NEW c \in Nat \ {0}, c \notin DOMAIN sz,
         NEW n \in MIN_CHUNK_SIZE .. Modulus - 1
  PROVE  Grown(Put(sz, c, n), sz, c, n)
<1> DEFINE s2 == Put(sz, c, n)
<1>1. /\ DOMAIN s2 = DOMAIN sz \cup {c} /\ s2[c] = n /\ \A x \in DOMAIN sz : s2[x] = sz[x]
      /\ s2 = [x \in DOMAIN sz \cup {c} |-> s2[x]]
  BY DEF Put
<1> HIDE DEF s2
<1>2. Sized(s2)
  BY <1>1 DEF Sized
<1>3. c \notin Boxes
  BY <1>1, <1>2, ClassIs
<1>4. \A x \in DOMAIN sz \cup Boxes : Cls(s2)[x] = Cls(sz)[x]
  BY <1>1 DEF Cls
<1>5. Large(s2) = Large(sz) \cup (IF is_small(n - ChunkHead) THEN {} ELSE {c})
  <2>1. \A x \in DOMAIN sz : x \in Large(s2) <=> x \in Large(sz)
    BY <1>1 DEF Large
  <2>2. c \in Large(s2) <=> ~is_small(n - ChunkHead)
    BY <1>1 DEF Large
  <2>3. Large(s2) \subseteq DOMAIN sz \cup {c} /\ Large(sz) \subseteq DOMAIN sz
    BY <1>1 DEF Large
  <2> QED
    BY <2>1, <2>2, <2>3
<1>6. \A x \in Large(sz) : x \in DOMAIN sz /\ s2[x] = sz[x]
  BY <1>1 DEF Large
<1>7. is_small(n - ChunkHead) => Uses(s2) = Uses(sz)
  BY <1>5, <1>6 DEF Uses
<1>8. ASSUME ~is_small(n - ChunkHead) PROVE Uses(s2) = Put(Uses(sz), c, n - ChunkHead)
  <2>1. Large(s2) = Large(sz) \cup {c} /\ c \notin Large(sz)
    BY <1>5, <1>8 DEF Large
  <2>2. DOMAIN Uses(sz) = Large(sz)
    BY DEF Uses
  <2>3. Put(Uses(sz), c, n - ChunkHead)
          = [x \in Large(s2) |-> IF x = c THEN n - ChunkHead ELSE Uses(sz)[x]]
    BY <2>1, <2>2 DEF Put
  <2>4. \A x \in Large(s2) : s2[x] - ChunkHead = IF x = c THEN n - ChunkHead ELSE Uses(sz)[x]
    BY <1>1, <1>6, <2>1 DEF Uses
  <2> QED
    BY <2>3, <2>4 DEF Uses
<1> QED
  BY <1>1, <1>2, <1>3, <1>4, <1>5, <1>7, <1>8 DEF s2, Grown

\* The same for a chunk that is taken.
LEMMA SizesDrop ==
  ASSUME NEW sz, Sized(sz), NEW c \in DOMAIN sz
  PROVE  Shrunk(Drop(sz, c), sz, c)
<1> DEFINE s2 == Drop(sz, c)
<1>1. /\ DOMAIN s2 = DOMAIN sz \ {c} /\ \A x \in DOMAIN sz \ {c} : s2[x] = sz[x]
      /\ s2 = [x \in DOMAIN sz \ {c} |-> s2[x]]
  BY DEF Drop
<1> HIDE DEF s2
<1>2. Sized(s2)
  BY <1>1 DEF Sized
<1>3. c \notin Boxes
  BY ClassIs
<1>4. \A x \in (DOMAIN sz \cup Boxes) \ {c} : Cls(s2)[x] = Cls(sz)[x]
  <2> SUFFICES ASSUME NEW x \in (DOMAIN sz \cup Boxes) \ {c} PROVE Cls(s2)[x] = Cls(sz)[x]
    OBVIOUS
  <2>1. x \in Boxes \/ (x \in DOMAIN sz \ {c} /\ s2[x] = sz[x])
    BY <1>1
  <2> QED
    BY <1>1, <2>1 DEF Cls
<1>5. Large(s2) = Large(sz) \ {c}
  <2>1. \A x \in DOMAIN sz \ {c} : x \in Large(s2) <=> x \in Large(sz)
    BY <1>1 DEF Large
  <2>2. Large(s2) \subseteq DOMAIN sz \ {c} /\ Large(sz) \subseteq DOMAIN sz
    BY <1>1 DEF Large
  <2> QED
    BY <2>1, <2>2
<1>6. \A x \in Large(s2) : x \in DOMAIN sz /\ s2[x] = sz[x]
  BY <1>1 DEF Large
<1>7. c \notin Large(sz) => Uses(s2) = Uses(sz)
  <2> HAVE c \notin Large(sz)
  <2>1. Large(s2) = Large(sz)
    BY <1>5
  <2> QED
    BY <1>6, <2>1 DEF Uses
<1>8. Uses(s2) = Drop(Uses(sz), c)
  <2>1. DOMAIN Uses(sz) = Large(sz)
    BY DEF Uses
  <2>2. Drop(Uses(sz), c) = [x \in Large(s2) |-> Uses(sz)[x]]
    BY <1>5, <2>1 DEF Drop
  <2>3. \A x \in Large(s2) : s2[x] - ChunkHead = Uses(sz)[x]
    BY <1>5, <1>6 DEF Uses
  <2> QED
    BY <2>2, <2>3 DEF Uses
<1> QED
  BY <1>1, <1>2, <1>4, <1>5, <1>7, <1>8 DEF s2, Shrunk

\* A small chunk is taken into the ring of its box.
LEMMA SmallIn ==
  ASSUME NEW h, NEW sz, Listed(h, sz), NEW c \in Nat \ {0}, c \notin DOMAIN sz,
         NEW n \in MIN_CHUNK_SIZE .. Modulus - 1, is_small(n - ChunkHead)
  PROVE  /\ Listed(insert_small_chunk(h, c, n - ChunkHead), Put(sz, c, n))
         /\ Heads(insert_small_chunk(h, c, n - ChunkHead), h)
<1> DEFINE g == insert_small_chunk(h, c, n - ChunkHead)
           i == get_box_index(n - ChunkHead)
           s2 == Put(sz, c, n)
           D == DOMAIN sz \cup Boxes
<1>1. Record(h) /\ Sized(sz) /\ Ringed(h, sz) /\ Treed(h, sz)
  BY DEF Listed
<1>2. /\ Sized(s2) /\ DOMAIN s2 = DOMAIN sz \cup {c} /\ c \notin Boxes /\ s2[c] = n
      /\ \A x \in DOMAIN sz : s2[x] = sz[x]
      /\ \A x \in D : Cls(s2)[x] = Cls(sz)[x]
      /\ Large(s2) = Large(sz) /\ Uses(s2) = Uses(sz)
  <2>1. Grown(s2, sz, c, n)
    BY <1>1, SizesPut
  <2> QED
    BY <2>1 DEF Grown
<1>3. /\ c \in DOMAIN s2 \ Large(s2) /\ Cls(s2)[c] = i /\ i \in Indices
  <2>1. c \in DOMAIN s2 \ Large(s2)
    BY <1>2 DEF Large
  <2> QED
    BY <1>2, <2>1, ClassIs
<1> HIDE DEF i
<1>4. /\ Record(g) /\ Heads(g, h)
      /\ g.SameMap = h.SameMap \cup {i}
      /\ g.pFreeNext = Put([h.pFreeNext EXCEPT ![Box(i)] = c], c, h.pFreeNext[Box(i)])
      /\ g.pFreePrev = Put([h.pFreePrev EXCEPT ![h.pFreeNext[Box(i)]] = c], c, Box(i))
      /\ g.pChild = h.pChild /\ g.pParent = h.pParent /\ g.Index = h.Index
      /\ g.TreeMap = h.TreeMap /\ g.tree = h.tree
  BY <1>1 DEF insert_small_chunk, Record, Fields, Heads, i
<1> HIDE DEF g, s2
<1>5. Ringed(g, s2)
  <2>1. Rings(D, h.pFreeNext, h.pFreePrev, Cls(sz))
        /\ h.SameMap = {j \in Indices : h.pFreeNext[Box(j)] # Box(j)}
    BY <1>1 DEF Ringed
  <2>2. Box(i) \in D /\ Cls(s2)[c] = Cls(sz)[Box(i)] /\ c \notin D
    BY <1>1, <1>2, <1>3, ClassIs
  <2>3. Rings(D \cup {c}, g.pFreeNext, g.pFreePrev, Cls(s2))
    <3> HIDE DEF D
    <3>1. Rings(D \cup {c}, Put([h.pFreeNext EXCEPT ![Box(i)] = c], c, h.pFreeNext[Box(i)]),
                Put([h.pFreePrev EXCEPT ![h.pFreeNext[Box(i)]] = c], c, Box(i)), Cls(s2))
      BY <1>2, <2>1, <2>2, RingIn
    <3> QED
      BY <1>4, <3>1
  <2>4. D \cup {c} = DOMAIN s2 \cup Boxes
    BY <1>2
  <2>5. g.SameMap = {j \in Indices : g.pFreeNext[Box(j)] # Box(j)}
    <3>1. ASSUME NEW j \in Indices
          PROVE  g.pFreeNext[Box(j)] = IF j = i THEN c ELSE h.pFreeNext[Box(j)]
      <4>1. Box(j) \in D /\ Box(j) # c /\ (Box(j) = Box(i) => j = i)
        BY <1>1, <1>2, <1>3, ClassIs
      <4>2. DOMAIN h.pFreeNext = D
        BY <2>1 DEF Rings, Linking
      <4> QED
        BY <1>4, <4>1, <4>2 DEF Put
    <3>2. c # Box(i)
      BY <2>2
    <3> QED
      BY <1>3, <1>4, <2>1, <3>1, <3>2
  <2> QED
    BY <2>3, <2>4, <2>5 DEF Ringed
<1>6. Treed(g, s2)
  <2>1. NodesRight(g.pParent, s2)
    <3>1. \A x \in Large(sz) : x \in DOMAIN sz /\ s2[x] = sz[x]
      BY <1>2 DEF Large
    <3>2. \A x \in Nodes(Large(sz), h.pParent) : x \in Large(sz)
      BY DEF Nodes
    <3>3. NodesRight(h.pParent, sz)
      BY <1>1 DEF Treed
    <3> QED
      BY <1>2, <1>4, <3>1, <3>2, <3>3 DEF NodesRight
  <2>2. \A x \in Large(sz) : s2[x] = sz[x]
    BY <1>2 DEF Large
  <2> QED
    BY <1>1, <1>2, <1>4, <2>1, <2>2 DEF Treed
<1>7. Listed(g, s2) /\ Heads(g, h)
  BY <1>2, <1>4, <1>5, <1>6 DEF Listed
<1> QED
  BY <1>7 DEF g, s2

\* Dropping what is not there changes nothing.
LEMMA DropOut ==
  ASSUME NEW S, NEW T, NEW f \in [S -> T], NEW c, c \notin S
  PROVE  Drop(f, c) = f
BY DEF Drop

\* The trees do not see the small chunks.
LEMMA TreedSame ==
  ASSUME NEW h, NEW sz, Treed(h, sz), NEW g, NEW s2,
         Large(s2) = Large(sz), Uses(s2) = Uses(sz), \A x \in Large(sz) : s2[x] = sz[x],
         g.pChild = h.pChild, g.pParent = h.pParent, g.Index = h.Index,
         g.TreeMap = h.TreeMap, g.tree = h.tree
  PROVE  Treed(g, s2)
<1>1. NodesRight(g.pParent, s2)
  <2>1. \A x \in Nodes(Large(sz), h.pParent) : x \in Large(sz)
    BY DEF Nodes
  <2>2. NodesRight(h.pParent, sz)
    BY DEF Treed
  <2> QED
    BY <2>1, <2>2 DEF NodesRight
<1> QED
  BY <1>1 DEF Treed

\* A small chunk leaves its ring.
LEMMA SmallGone ==
  ASSUME NEW h, NEW sz, Listed(h, sz), NEW c \in DOMAIN sz \ Large(sz), NEW g, Record(g),
         g.pFreeNext = Drop([h.pFreeNext EXCEPT ![h.pFreePrev[c]] = h.pFreeNext[c]], c),
         g.pFreePrev = Drop([h.pFreePrev EXCEPT ![h.pFreeNext[c]] = h.pFreePrev[c]], c),
         g.SameMap = IF h.pFreeNext[c] = h.pFreePrev[c]
                     THEN h.SameMap \ {get_box_index(sz[c] - ChunkHead)} ELSE h.SameMap,
         g.pChild = Drop(h.pChild, c), g.pParent = Drop(h.pParent, c),
         g.Index = Drop(h.Index, c), g.TreeMap = h.TreeMap, g.tree = h.tree
  PROVE  Listed(g, Drop(sz, c))
<1> DEFINE i == get_box_index(sz[c] - ChunkHead)
           s2 == Drop(sz, c)
           D == DOMAIN sz \cup Boxes
           N == h.pFreeNext
           P == h.pFreePrev
<1>1. Record(h) /\ Sized(sz) /\ Ringed(h, sz) /\ Treed(h, sz)
  BY DEF Listed
<1>2. Shrunk(s2, sz, c)
  BY <1>1, SizesDrop
<1>3. /\ c \in D /\ c \notin Boxes /\ Cls(sz)[c] = i /\ i \in Indices /\ Box(i) \in D
      /\ Cls(sz)[Box(i)] = i /\ Box(i) # c
  BY <1>1, ClassIs
<1> HIDE DEF i, s2
<1>4. Rings(D, N, P, Cls(sz)) /\ h.SameMap = {j \in Indices : N[Box(j)] # Box(j)}
  BY <1>1 DEF Ringed
<1>5. /\ N \in [D -> D] /\ P \in [D -> D]
      /\ \A x \in D : P[N[x]] = x /\ N[P[x]] = x /\ Cls(sz)[N[x]] = Cls(sz)[x]
  BY <1>4 DEF Rings, Linking
<1>6. Rings(D \ {c}, g.pFreeNext, g.pFreePrev, Cls(s2))
  <2>1. \A x \in D \ {c} : Cls(s2)[x] = Cls(sz)[x]
    BY <1>2 DEF Shrunk
  <2> HIDE DEF D
  <2>2. Rings(D \ {c}, Drop([N EXCEPT ![P[c]] = N[c]], c), Drop([P EXCEPT ![N[c]] = P[c]], c),
              Cls(s2))
    BY <1>3, <1>4, <2>1, RingOut
  <2> QED
    BY <2>2
<1>7. g.SameMap = {j \in Indices : g.pFreeNext[Box(j)] # Box(j)}
  <2>1. ASSUME NEW j \in Indices
        PROVE  /\ g.pFreeNext[Box(j)] = IF Box(j) = P[c] THEN N[c] ELSE N[Box(j)]
               /\ Box(j) = P[c] => j = i
    <3>1. Box(j) \in D /\ Box(j) # c /\ Cls(sz)[Box(j)] = j
      BY <1>1, <1>3, ClassIs
    <3>2. Box(j) = P[c] => j = i
      <4>1. P[c] \in D /\ N[P[c]] = c
        BY <1>3, <1>5
      <4>2. Cls(sz)[P[c]] = i
        BY <1>3, <1>5, <4>1
      <4> QED
        BY <3>1, <4>2
    <3>3. g.pFreeNext[Box(j)] = [N EXCEPT ![P[c]] = N[c]][Box(j)]
      BY <1>5, <3>1 DEF Drop
    <3> QED
      BY <1>5, <3>1, <3>2, <3>3
  <2>2. N[c] \in D /\ P[c] \in D /\ P[N[c]] = c /\ N[P[c]] = c
    BY <1>3, <1>5
  <2>3. CASE N[c] = P[c]
    <3>1. Closed(N, {c, N[c]}) /\ {c, N[c]} \in SUBSET D
      BY <1>3, <2>2, <2>3 DEF Closed
    <3>2. Box(i) \in {c, N[c]}
      BY <1>3, <1>4, <3>1 DEF Rings, Whole
    <3>3. N[c] = Box(i) /\ P[c] = Box(i)
      BY <1>3, <2>3, <3>2
    <3>4. g.SameMap = h.SameMap \ {i}
      BY <2>3 DEF i
    <3>5. \A j \in Indices : Box(j) = Box(i) => j = i
      BY <1>1, <1>3, ClassIs
    <3>6. \A j \in Indices : g.pFreeNext[Box(j)] = IF j = i THEN Box(i) ELSE N[Box(j)]
      BY <2>1, <3>3, <3>5
    <3> QED
      BY <1>3, <1>4, <3>4, <3>6
  <2>4. CASE N[c] # P[c]
    <3>1. g.SameMap = h.SameMap
      BY <2>4
    <3>2. ASSUME NEW j \in Indices
          PROVE  g.pFreeNext[Box(j)] # Box(j) <=> N[Box(j)] # Box(j)
      <4>1. CASE Box(j) = P[c]
        BY <1>3, <2>1, <2>2, <2>4, <4>1
      <4>2. CASE Box(j) # P[c]
        BY <2>1, <4>2
      <4> QED
        BY <4>1, <4>2
    <3> QED
      BY <1>4, <3>1, <3>2
  <2> QED
    BY <2>3, <2>4
<1>8. Ringed(g, s2)
  <2>1. D \ {c} = DOMAIN s2 \cup Boxes
    BY <1>2, <1>3 DEF Shrunk
  <2> QED
    BY <1>6, <1>7, <2>1 DEF Ringed
<1>9. Treed(g, s2)
  <2>1. PICK dep : Trie(Large(sz), Uses(sz), h.pChild, h.pParent, h.Index, h.tree, dep)
    BY <1>1 DEF Treed
  <2>2. /\ h.pChild \in [Large(sz) -> [0..1 -> Large(sz) \cup {NULL}]]
        /\ h.Index \in [Large(sz) -> Indices]
    BY <2>1 DEF Trie, TrieType
  <2>3. h.pParent \in [Large(sz) -> Int]
    BY <1>1 DEF Treed
  <2>4. g.pChild = h.pChild /\ g.pParent = h.pParent /\ g.Index = h.Index
    BY ZenonT(40), <2>2, <2>3, DropOut
  <2>5. /\ Large(s2) = Large(sz) /\ Uses(s2) = Uses(sz)
        /\ \A x \in Large(sz) : s2[x] = sz[x]
    <3>1. Large(sz) \subseteq DOMAIN sz \ {c}
      BY DEF Large
    <3> QED
      BY <1>2, <3>1 DEF Shrunk
  <2> QED
    BY <1>1, <2>4, <2>5, TreedSame
<1>10. Sized(s2)
  BY <1>2 DEF Shrunk
<1> QED
  BY <1>8, <1>9, <1>10 DEF Listed, s2

\* A small chunk is taken out to be merged.
LEMMA SmallOut ==
  ASSUME NEW h, NEW sz, Listed(h, sz), NEW c \in DOMAIN sz \ Large(sz)
  PROVE  /\ Listed(unlink_small_chunk(h, c, sz[c] - ChunkHead), Drop(sz, c))
         /\ Heads(unlink_small_chunk(h, c, sz[c] - ChunkHead), h)
<1> DEFINE n == sz[c] - ChunkHead
           f == [Unringed(h, c) EXCEPT !.SameMap = IF h.pFreeNext[c] = h.pFreePrev[c]
                                                   THEN @ \ {get_box_index(n)} ELSE @]
           g == unlink_small_chunk(h, c, n)
<1>1. Record(h)
  BY DEF Listed
<1>2. g = Forgotten(f, c)
  BY DEF unlink_small_chunk
<1>3. /\ Record(f) /\ Heads(f, h)
      /\ f.pFreeNext = [h.pFreeNext EXCEPT ![h.pFreePrev[c]] = h.pFreeNext[c]]
      /\ f.pFreePrev = [h.pFreePrev EXCEPT ![h.pFreeNext[c]] = h.pFreePrev[c]]
      /\ f.SameMap = IF h.pFreeNext[c] = h.pFreePrev[c]
                     THEN h.SameMap \ {get_box_index(n)} ELSE h.SameMap
      /\ f.pChild = h.pChild /\ f.pParent = h.pParent
      /\ f.Index = h.Index /\ f.TreeMap = h.TreeMap /\ f.tree = h.tree
  BY <1>1 DEF Unringed, Record, Fields, Heads
<1> HIDE DEF f, g
<1>4. /\ Record(g) /\ Heads(g, h)
      /\ g.SameMap = f.SameMap /\ g.TreeMap = h.TreeMap /\ g.tree = h.tree
      /\ g.pFreeNext = Drop(f.pFreeNext, c) /\ g.pFreePrev = Drop(f.pFreePrev, c)
      /\ g.pChild = Drop(h.pChild, c) /\ g.pParent = Drop(h.pParent, c)
      /\ g.Index = Drop(h.Index, c)
  BY <1>2, <1>3, ForgottenIs DEF Heads
<1>5. Listed(g, Drop(sz, c))
  <2>1. /\ g.pFreeNext = Drop([h.pFreeNext EXCEPT ![h.pFreePrev[c]] = h.pFreeNext[c]], c)
        /\ g.pFreePrev = Drop([h.pFreePrev EXCEPT ![h.pFreeNext[c]] = h.pFreePrev[c]], c)
        /\ g.SameMap = IF h.pFreeNext[c] = h.pFreePrev[c]
                       THEN h.SameMap \ {get_box_index(sz[c] - ChunkHead)} ELSE h.SameMap
    BY <1>3, <1>4
  <2> HIDE DEF n
  <2> QED
    BY <1>4, <2>1, SmallGone
<1> QED
  BY <1>4, <1>5 DEF g

\* The first chunk of a ring is taken out for a request.
LEMMA GroupOut ==
  ASSUME NEW h, NEW sz, Listed(h, sz), NEW i \in h.SameMap
  PROVE  LET out == checkout_small_chunk_in_group(h, i)
         IN  /\ out[1] \in DOMAIN sz \ Large(sz)
             /\ get_box_index(sz[out[1]] - ChunkHead) = i
             /\ Listed(out[2], Drop(sz, out[1])) /\ Heads(out[2], h)
<1> DEFINE first == h.pFreeNext[Box(i)]
           next  == h.pFreeNext[first]
           D == DOMAIN sz \cup Boxes
           f == [h EXCEPT !.SameMap = IF next = Box(i) THEN @ \ {i} ELSE @,
                          !.pFreeNext[Box(i)] = next,
                          !.pFreePrev[next] = Box(i)]
           g == Forgotten(f, first)
           out == checkout_small_chunk_in_group(h, i)
<1>1. Record(h) /\ Sized(sz) /\ Ringed(h, sz)
  BY DEF Listed
<1>2. out[1] = first /\ out[2] = g
  BY DEF checkout_small_chunk_in_group
<1>3. Rings(D, h.pFreeNext, h.pFreePrev, Cls(sz))
      /\ h.SameMap = {j \in Indices : h.pFreeNext[Box(j)] # Box(j)}
  BY <1>1 DEF Ringed
<1>4. i \in Indices /\ first # Box(i) /\ Box(i) \in D /\ Cls(sz)[Box(i)] = i
  BY <1>1, <1>3, ClassIs
<1>5. first \in D /\ h.pFreePrev[first] = Box(i) /\ Cls(sz)[first] = i
  BY <1>3, <1>4 DEF Rings, Linking
<1>6. first \notin Boxes
  <2>1. \A j \in Indices : Cls(sz)[Box(j)] = j
    BY <1>1, ClassIs
  <2> QED
    BY <1>4, <1>5, <2>1 DEF Boxes
<1>7. first \in DOMAIN sz \ Large(sz) /\ get_box_index(sz[first] - ChunkHead) = i
  <2>1. first \in DOMAIN sz
    BY <1>5, <1>6
  <2>2. first \notin Large(sz)
    <3>1. first \in Large(sz) => Cls(sz)[first] > 264
      BY <1>1, ClassIs
    <3> QED
      BY <1>4, <1>5, <3>1 DEF Indices
  <2> QED
    BY <1>1, <1>5, <2>1, <2>2, ClassIs
<1> HIDE DEF first
<1>8. /\ Record(f) /\ Heads(f, h)
      /\ f.pFreeNext = [h.pFreeNext EXCEPT ![Box(i)] = next]
      /\ f.pFreePrev = [h.pFreePrev EXCEPT ![next] = Box(i)]
      /\ f.SameMap = IF next = Box(i) THEN h.SameMap \ {i} ELSE h.SameMap
      /\ f.pChild = h.pChild /\ f.pParent = h.pParent
      /\ f.Index = h.Index /\ f.TreeMap = h.TreeMap /\ f.tree = h.tree
  BY <1>1 DEF Record, Fields, Heads
<1> HIDE DEF f
<1>9. /\ Record(g) /\ Heads(g, h)
      /\ g.SameMap = f.SameMap /\ g.TreeMap = h.TreeMap /\ g.tree = h.tree
      /\ g.pFreeNext = Drop(f.pFreeNext, first) /\ g.pFreePrev = Drop(f.pFreePrev, first)
      /\ g.pChild = Drop(h.pChild, first) /\ g.pParent = Drop(h.pParent, first)
      /\ g.Index = Drop(h.Index, first)
  BY <1>8, ForgottenIs DEF Heads
<1> HIDE DEF g
<1>10. Listed(g, Drop(sz, first))
  <2>1. /\ g.pFreeNext = Drop([h.pFreeNext EXCEPT ![h.pFreePrev[first]] = h.pFreeNext[first]],
                              first)
        /\ g.pFreePrev = Drop([h.pFreePrev EXCEPT ![h.pFreeNext[first]] = h.pFreePrev[first]],
                              first)
        /\ g.SameMap = IF h.pFreeNext[first] = h.pFreePrev[first]
                       THEN h.SameMap \ {get_box_index(sz[first] - ChunkHead)} ELSE h.SameMap
    BY <1>5, <1>7, <1>8, <1>9
  <2> HIDE DEF next
  <2> QED
    BY <1>7, <1>9, <2>1, SmallGone
<1> QED
  BY <1>2, <1>7, <1>9, <1>10

\* The walk of an insertion ends at the node of the size, or else where the size has
\* no node and the way goes on to nobody.
LEMMA Seat ==
  ASSUME NEW L, NEW use, NEW C, NEW Pa, NEW Ix, NEW tr, NEW dep,
         Trie(L, use, C, Pa, Ix, tr, dep), NEW n \in Nat, NEW i \in Indices, tr[i] # NULL,
         Prefix(n, i, 0) = Rooted(i), \A q \in Nodes(L, Pa) : use[q] = n => Ix[q] = i,
         NEW down,
         \A p \in L, d \in 0..Levels :
           down[<<p, d>>] = IF use[p] = n \/ C[p][Branch(n, i, d)] = NULL THEN <<p, d>>
                            ELSE <<C[p][Branch(n, i, d)], d + 1>>,
         NEW seat, seat = Loop(down, <<tr[i], 0>>, Levels)
  PROVE  /\ seat[1] \in Nodes(L, Pa) /\ seat[2] = dep[seat[1]] /\ Ix[seat[1]] = i
         /\ OnWay(L, use, Pa, Ix, dep, n, seat[1])
         /\ \/ use[seat[1]] = n
            \/ /\ C[seat[1]][Branch(n, i, seat[2])] = NULL
               /\ \A q \in Nodes(L, Pa) : use[q] # n
<1> DEFINE Path == {p \in Nodes(L, Pa) :
                     /\ Ix[p] = i /\ OnWay(L, use, Pa, Ix, dep, n, p)
                     /\ \A q \in Nodes(L, Pa) : use[q] = n => Under(L, use, Pa, Ix, dep, p, q)}
           G == {<<p, dep[p]>> : p \in Path}
           rank == [x \in G |-> x[2]]
<1>1. \A p \in Path : /\ p \in L /\ dep[p] \in 0..32 /\ dep[p] \in 0..Levels
                     /\ dep[p] \in 0 .. Top(i) + 1
  <2> SUFFICES ASSUME NEW p \in Path
               PROVE  p \in L /\ dep[p] \in 0..32 /\ dep[p] \in 0..Levels
                      /\ dep[p] \in 0 .. Top(i) + 1
    OBVIOUS
  <2>1. p \in Nodes(L, Pa) /\ Ix[p] = i
    OBVIOUS
  <2>2. p \in L /\ dep[p] \in 0 .. Top(i) + 1 /\ Top(i) \in 6..31
    BY <2>1, NodeType
  <2> HIDE DEF Path
  <2>3. dep[p] \in 0..32
    BY <2>2
  <2> QED
    BY SMTT(20), <2>2, <2>3 DEF Levels
<1>2. <<tr[i], 0>> \in G
  <2>1. /\ tr[i] \in L /\ Pa[tr[i]] = Slot(i) /\ Ix[tr[i]] = i /\ dep[tr[i]] = 0
    BY DEF Trie, TrieType, RootsRight
  <2>2. tr[i] \in Nodes(L, Pa)
    BY <2>1 DEF Nodes, Slot, NULL, Indices
  <2>3. Prefix(use[tr[i]], i, 0) = Rooted(i)
    BY <2>1, <2>2, NodeType
  <2>4. OnWay(L, use, Pa, Ix, dep, n, tr[i])
    BY <2>1, <2>2, <2>3 DEF OnWay
  <2>5. \A q \in Nodes(L, Pa) : use[q] = n => Under(L, use, Pa, Ix, dep, tr[i], q)
    <3> SUFFICES ASSUME NEW q \in Nodes(L, Pa), use[q] = n
                 PROVE  Under(L, use, Pa, Ix, dep, tr[i], q)
      OBVIOUS
    <3>1. Ix[q] = i
      OBVIOUS
    <3>2. Under(L, use, Pa, Ix, dep, tr[Ix[q]], q)
      BY UnderRoot
    <3> QED
      BY <3>1, <3>2
  <2>6. tr[i] \in Path
    BY <2>1, <2>2, <2>4, <2>5
  <2> QED
    BY <2>1, <2>6
<1>3. ASSUME NEW p \in Path, use[p] # n, C[p][Branch(n, i, dep[p])] # NULL
      PROVE  /\ down[<<p, dep[p]>>] = <<C[p][Branch(n, i, dep[p])], dep[p] + 1>>
             /\ C[p][Branch(n, i, dep[p])] \in Path
             /\ dep[C[p][Branch(n, i, dep[p])]] = dep[p] + 1
  <2> DEFINE s == C[p][Branch(n, i, dep[p])]
  <2>1. down[<<p, dep[p]>>] = <<s, dep[p] + 1>>
    BY <1>1, <1>3
  <2>2. p \in Nodes(L, Pa) /\ Ix[p] = i /\ OnWay(L, use, Pa, Ix, dep, n, p) /\ p \in L
    BY <1>1
  <2>3. Branch(n, i, dep[p]) \in 0..1 /\ OnWay(L, use, Pa, Ix, dep, n, s)
    BY <1>3, <2>2, WayDown
  <2>4. s \in Nodes(L, Pa) /\ Ix[s] = i /\ dep[s] = dep[p] + 1
    BY <1>3, <2>2, <2>3, NodeBelow
  <2>5. ASSUME NEW q \in Nodes(L, Pa), use[q] = n
        PROVE  Under(L, use, Pa, Ix, dep, s, q)
    <3>1. Under(L, use, Pa, Ix, dep, p, q) /\ p # q
      BY <1>3, <2>5
    <3>2. Under(L, use, Pa, Ix, dep, C[p][Branch(use[q], Ix[p], dep[p])], q)
      BY <3>1, UnderSon
    <3> QED
      BY <2>2, <2>5, <3>2
  <2> QED
    BY <2>1, <2>3, <2>4, <2>5
<1>4. ASSUME NEW y \in G
      PROVE  /\ down[y] \in G /\ rank[y] \in 0..Levels
             /\ down[y] = y \/ rank[down[y]] > rank[y]
  <2>1. PICK p \in Path : y = <<p, dep[p]>>
    OBVIOUS
  <2>2. rank[y] = dep[p]
    BY <2>1
  <2>3. CASE use[p] = n \/ C[p][Branch(n, i, dep[p])] = NULL
    <3>1. down[y] = y
      BY <1>1, <2>1, <2>3
    <3> QED
      BY <1>1, <2>1, <2>2, <3>1
  <2>4. CASE ~(use[p] = n \/ C[p][Branch(n, i, dep[p])] = NULL)
    <3> DEFINE s == C[p][Branch(n, i, dep[p])]
    <3>1. s \in Path /\ down[y] = <<s, dep[p] + 1>> /\ dep[s] = dep[p] + 1
      BY <1>3, <2>1, <2>4
    <3> HIDE DEF s
    <3>2. down[y] \in G /\ rank[down[y]] = dep[p] + 1
      BY <3>1
    <3>3. dep[p] \in 0..Levels /\ dep[p] \in Int
      BY <1>1
    <3> HIDE DEF G, rank, Path
    <3> QED
      BY <2>2, <3>2, <3>3
  <2> QED
    BY <2>3, <2>4
<1>5. seat \in G /\ down[seat] = seat
  <2> HIDE DEF G, rank
  <2>1. \A y \in G : down[y] \in G
    BY <1>4
  <2>2. \A y \in G : rank[y] \in 0..Levels
    BY <1>4
  <2>3. \A y \in G : down[y] = y \/ rank[down[y]] > rank[y]
    BY <1>4
  <2>4. Levels \in Nat
    BY DEF Levels
  <2> QED
    BY <1>2, <2>1, <2>2, <2>3, <2>4, LoopEnds
<1>6. PICK p \in Path : seat = <<p, dep[p]>>
  BY <1>5
<1>7. p \in Nodes(L, Pa) /\ Ix[p] = i /\ OnWay(L, use, Pa, Ix, dep, n, p)
  OBVIOUS
<1>8. ASSUME use[p] # n
      PROVE  C[p][Branch(n, i, dep[p])] = NULL
  <2> SUFFICES ASSUME C[p][Branch(n, i, dep[p])] # NULL PROVE FALSE
    OBVIOUS
  <2>1. down[<<p, dep[p]>>] = <<C[p][Branch(n, i, dep[p])], dep[p] + 1>>
    BY <1>3, <1>8
  <2>2. dep[p] + 1 = dep[p]
    BY <1>5, <1>6, <2>1
  <2> QED
    BY <1>1, <2>2
<1>9. ASSUME use[p] # n, NEW q \in Nodes(L, Pa), use[q] = n
      PROVE  FALSE
  <2>1. Under(L, use, Pa, Ix, dep, p, q) /\ p # q
    BY <1>9
  <2>2. C[p][Branch(use[q], Ix[p], dep[p])] # NULL
    BY <2>1, UnderSon
  <2> QED
    BY <1>7, <1>8, <1>9, <2>2
<1> QED
  BY <1>6, <1>7, <1>8, <1>9

\* Every number of the program is one that the trees are made for.
LEMMA Room ==
  ASSUME NEW m \in 0 .. Modulus - 1
  PROVE  m \div 2^16 < 2^16
<1> DEFINE k == 2^16
           M == Modulus - 1
<1>1. k \in Nat \ {0} /\ k = 65536
  OBVIOUS
<1>2. M \in Nat /\ m \in 0..M /\ M \div k < k
  BY HeapAssumption
<1> HIDE DEF k, M
<1>3. m \div k <= M \div k /\ M \div k \in Nat /\ m \div k \in Nat
  BY <1>1, <1>2
<1> QED
  BY <1>1, <1>2, <1>3 DEF k

\* The tree of a large size.
LEMMA LargeTree ==
  ASSUME NEW n \in MIN_CHUNK_SIZE .. Modulus - 1, ~is_small(n - ChunkHead)
  PROVE  /\ n - ChunkHead \in Nat /\ n > 264
         /\ tree_size_to_index(n - ChunkHead) \in Indices
         /\ Prefix(n - ChunkHead, tree_size_to_index(n - ChunkHead), 0)
              = Rooted(tree_size_to_index(n - ChunkHead))
<1> DEFINE m == n - ChunkHead
<1>1. m \in Nat /\ m > 256 /\ n > 264 /\ m \in 0 .. Modulus - 1
  BY HeapAssumption DEF MIN_CHUNK_SIZE, ChunkHead, is_small
<1>2. m \div 2^16 < 2^16
  BY <1>1, Room
<1> HIDE DEF m
<1>3. tree_size_to_index(m) \in Indices /\ Prefix(m, tree_size_to_index(m), 0)
              = Rooted(tree_size_to_index(m))
  BY <1>1, <1>2, IndexRoot
<1> QED
  BY <1>1, <1>3 DEF m

\* The first chunk of a large size becomes a node and a ring of its own.
LEMMA NewNode ==
  ASSUME NEW h, NEW sz, Listed(h, sz), NEW c \in Nat \ {0}, c \notin DOMAIN sz,
         NEW n \in MIN_CHUNK_SIZE .. Modulus - 1, ~is_small(n - ChunkHead),
         \A q \in Nodes(Large(sz), h.pParent) : sz[q] # n,
         NEW v \in Int, v # NULL, NEW g, NEW s2, s2 = Put(sz, c, n),
         g.pFreeNext = Put(h.pFreeNext, c, c), g.pFreePrev = Put(h.pFreePrev, c, c),
         g.SameMap = h.SameMap, g.pParent = Put(h.pParent, c, v)
  PROVE  Ringed(g, s2) /\ NodesRight(g.pParent, s2) /\ g.pParent \in [Large(s2) -> Int]
<1> DEFINE D == DOMAIN sz \cup Boxes
<1>1. Record(h) /\ Sized(sz) /\ Ringed(h, sz) /\ Treed(h, sz)
  BY DEF Listed
<1>2. Grown(s2, sz, c, n)
  BY <1>1, SizesPut
<1>3. /\ Sized(s2) /\ DOMAIN s2 = DOMAIN sz \cup {c} /\ c \notin Boxes
      /\ s2[c] = n /\ \A x \in DOMAIN sz : s2[x] = sz[x]
      /\ \A x \in D : Cls(s2)[x] = Cls(sz)[x]
      /\ Large(s2) = Large(sz) \cup {c}
  BY <1>2 DEF Grown
<1>4. /\ c \in Large(s2) /\ c \notin Large(sz) /\ Cls(s2)[c] = n /\ n > 264
  <2>1. c \in Large(s2) /\ c \notin Large(sz)
    BY <1>3 DEF Large
  <2> QED
    BY <1>3, <2>1, ClassIs
<1>5. ASSUME NEW x \in D PROVE Cls(s2)[x] # Cls(s2)[c]
  <2>1. CASE x \in Boxes
    <3>1. PICK j \in Indices : x = Box(j)
      BY <2>1 DEF Boxes
    <3>2. Cls(sz)[x] = j
      BY <1>1, <3>1, ClassIs
    <3> QED
      BY <1>3, <1>4, <3>2 DEF Indices
  <2>2. CASE x \in DOMAIN sz \ Large(sz)
    <3>1. Cls(sz)[x] \in Indices
      BY <1>1, <2>2, ClassIs
    <3> QED
      BY <1>3, <1>4, <3>1 DEF Indices
  <2>3. CASE x \in Large(sz)
    <3>1. Cls(sz)[x] = sz[x]
      BY <1>1, <2>3, ClassIs
    <3>2. PICK q \in Nodes(Large(sz), h.pParent) : sz[q] = sz[x]
      BY <1>1, <2>3 DEF Treed, NodesRight
    <3> QED
      BY <1>3, <1>4, <3>1, <3>2
  <2> QED
    BY <2>1, <2>2, <2>3
<1>6. Ringed(g, s2)
  <2>1. Rings(D, h.pFreeNext, h.pFreePrev, Cls(sz))
        /\ h.SameMap = {j \in Indices : h.pFreeNext[Box(j)] # Box(j)}
    BY <1>1 DEF Ringed
  <2>2. D \cup {c} = DOMAIN s2 \cup Boxes /\ c \notin D
    BY <1>3
  <2>3. \A x \in D : Cls(s2)[x] = Cls(sz)[x]
    BY <1>3
  <2>4. \A j \in Indices : Box(j) \in D
    BY <1>1, ClassIs
  <2> HIDE DEF D
  <2>5. Rings(D \cup {c}, Put(h.pFreeNext, c, c), Put(h.pFreePrev, c, c), Cls(s2))
    BY <1>5, <2>1, <2>2, <2>3, RingAlone
  <2>6. DOMAIN h.pFreeNext = D
    BY <2>1 DEF Rings, Linking
  <2>7. \A j \in Indices : g.pFreeNext[Box(j)] = h.pFreeNext[Box(j)]
    <3> SUFFICES ASSUME NEW j \in Indices PROVE g.pFreeNext[Box(j)] = h.pFreeNext[Box(j)]
      OBVIOUS
    <3>1. Box(j) \in DOMAIN h.pFreeNext /\ Box(j) # c
      BY <2>2, <2>4, <2>6
    <3>2. Put(h.pFreeNext, c, c)[Box(j)] = h.pFreeNext[Box(j)]
      BY <3>1, PutElse
    <3> QED
      BY <3>2
  <2>8. g.SameMap = {j \in Indices : g.pFreeNext[Box(j)] # Box(j)}
    BY <2>1, <2>7
  <2> QED
    BY <2>2, <2>5, <2>8 DEF Ringed
<1>7. /\ g.pParent \in [Large(s2) -> Int] /\ g.pParent[c] = v
      /\ \A x \in Large(sz) : g.pParent[x] = h.pParent[x]
  <2>1. h.pParent \in [Large(sz) -> Int]
    BY <1>1 DEF Treed
  <2>2. g.pParent \in [Large(sz) \cup {c} -> Int]
    <3>1. Put(h.pParent, c, v) \in [Large(sz) \cup {c} -> Int]
      BY <2>1, PutType
    <3> QED
      BY <3>1
  <2>3. g.pParent[c] = v
    BY PutHere
  <2>4. \A x \in Large(sz) : x # c => g.pParent[x] = h.pParent[x]
    BY <2>1, PutElse
  <2> QED
    BY <1>3, <1>4, <2>2, <2>3, <2>4
<1>8. Nodes(Large(s2), g.pParent) = Nodes(Large(sz), h.pParent) \cup {c}
  BY <1>3, <1>7 DEF Nodes
<1>9. \A x \in Large(sz) : s2[x] = sz[x]
  BY <1>3 DEF Large
<1>10. \A x \in Nodes(Large(sz), h.pParent) : x \in Large(sz)
  BY DEF Nodes
<1>11. NodesRight(g.pParent, s2)
  <2>1. NodesRight(h.pParent, sz)
    BY <1>1 DEF Treed
  <2>2. ASSUME NEW x \in Large(s2)
        PROVE  \E q \in Nodes(Large(s2), g.pParent) : s2[q] = s2[x]
    <3>1. CASE x = c
      BY <1>8, <3>1
    <3>2. CASE x # c
      <4>1. x \in Large(sz)
        BY <1>3, <3>2
      <4>2. PICK q \in Nodes(Large(sz), h.pParent) : sz[q] = sz[x]
        BY <2>1, <4>1 DEF NodesRight
      <4> QED
        BY <1>8, <1>9, <1>10, <4>1, <4>2
    <3> QED
      BY <3>1, <3>2
  <2>3. ASSUME NEW p \in Nodes(Large(s2), g.pParent), NEW q \in Nodes(Large(s2), g.pParent),
               s2[p] = s2[q]
        PROVE  p = q
    <3>1. \A x \in Nodes(Large(sz), h.pParent) : s2[x] = sz[x] /\ s2[x] # n
      BY <1>9, <1>10
    <3>2. CASE p = c \/ q = c
      BY <1>3, <1>8, <2>3, <3>1, <3>2
    <3>3. CASE p # c /\ q # c
      <4>1. p \in Nodes(Large(sz), h.pParent) /\ q \in Nodes(Large(sz), h.pParent)
        BY <1>8, <3>3
      <4> QED
        BY <2>1, <2>3, <3>1, <4>1 DEF NodesRight
    <3> QED
      BY <3>2, <3>3
  <2> QED
    BY <2>2, <2>3 DEF NodesRight
<1> QED
  BY <1>6, <1>7, <1>11

\* A chunk of a size that has a node comes into the ring of the node.
LEMMA SameSize ==
  ASSUME NEW h, NEW sz, Listed(h, sz), NEW c \in Nat \ {0}, c \notin DOMAIN sz,
         NEW n \in MIN_CHUNK_SIZE .. Modulus - 1, ~is_small(n - ChunkHead),
         NEW node \in Nodes(Large(sz), h.pParent), sz[node] = n,
         NEW g, NEW s2, s2 = Put(sz, c, n),
         g.pFreeNext = Put([h.pFreeNext EXCEPT ![node] = c], c, h.pFreeNext[node]),
         g.pFreePrev = Put([h.pFreePrev EXCEPT ![h.pFreeNext[node]] = c], c, node),
         g.SameMap = h.SameMap, g.pParent = Put(h.pParent, c, NULL)
  PROVE  Ringed(g, s2) /\ NodesRight(g.pParent, s2) /\ g.pParent \in [Large(s2) -> Int]
<1> DEFINE D == DOMAIN sz \cup Boxes
<1>1. Record(h) /\ Sized(sz) /\ Ringed(h, sz) /\ Treed(h, sz)
  BY DEF Listed
<1>2. Grown(s2, sz, c, n)
  BY <1>1, SizesPut
<1>3. /\ Sized(s2) /\ DOMAIN s2 = DOMAIN sz \cup {c} /\ c \notin Boxes
      /\ s2[c] = n /\ \A x \in DOMAIN sz : s2[x] = sz[x]
      /\ \A x \in D : Cls(s2)[x] = Cls(sz)[x]
      /\ Large(s2) = Large(sz) \cup {c}
  BY <1>2 DEF Grown
<1>4. /\ c \in Large(s2) /\ c \notin Large(sz) /\ Cls(s2)[c] = n
      /\ node \in Large(sz) /\ node \in D /\ Cls(sz)[node] = n /\ node \notin Boxes
  <2>1. c \in Large(s2) /\ c \notin Large(sz) /\ node \in Large(sz)
    BY <1>3 DEF Large, Nodes
  <2>2. Cls(s2)[c] = s2[c]
    BY <1>3, <2>1, ClassIs
  <2>3. Cls(sz)[node] = sz[node] /\ node \in DOMAIN sz /\ node \notin Boxes
    BY <1>1, <2>1, ClassIs
  <2> QED
    BY <1>3, <2>1, <2>2, <2>3
<1>5. Ringed(g, s2)
  <2>1. Rings(D, h.pFreeNext, h.pFreePrev, Cls(sz))
        /\ h.SameMap = {j \in Indices : h.pFreeNext[Box(j)] # Box(j)}
    BY <1>1 DEF Ringed
  <2>2. D \cup {c} = DOMAIN s2 \cup Boxes /\ c \notin D
    BY <1>3
  <2>3. \A x \in D : Cls(s2)[x] = Cls(sz)[x]
    BY <1>3
  <2>4. \A j \in Indices : Box(j) \in D /\ Box(j) \in Boxes
    BY <1>1, ClassIs
  <2>5. node \in D /\ Cls(s2)[c] = Cls(sz)[node]
    BY <1>4
  <2> HIDE DEF D
  <2>6. Rings(D \cup {c}, Put([h.pFreeNext EXCEPT ![node] = c], c, h.pFreeNext[node]),
              Put([h.pFreePrev EXCEPT ![h.pFreeNext[node]] = c], c, node), Cls(s2))
    BY <2>1, <2>2, <2>3, <2>5, RingIn
  <2>7. DOMAIN h.pFreeNext = D
    BY <2>1 DEF Rings, Linking
  <2>8. \A j \in Indices : g.pFreeNext[Box(j)] = h.pFreeNext[Box(j)]
    <3> SUFFICES ASSUME NEW j \in Indices PROVE g.pFreeNext[Box(j)] = h.pFreeNext[Box(j)]
      OBVIOUS
    <3>1. Box(j) \in DOMAIN h.pFreeNext /\ Box(j) # c /\ Box(j) # node
      BY <1>4, <2>2, <2>4, <2>7
    <3>2. [h.pFreeNext EXCEPT ![node] = c][Box(j)] = h.pFreeNext[Box(j)]
          /\ Box(j) \in DOMAIN [h.pFreeNext EXCEPT ![node] = c]
      BY <3>1
    <3>3. Put([h.pFreeNext EXCEPT ![node] = c], c, h.pFreeNext[node])[Box(j)]
            = [h.pFreeNext EXCEPT ![node] = c][Box(j)]
      BY <3>1, <3>2, PutElse
    <3> QED
      BY <3>2, <3>3
  <2>9. g.SameMap = {j \in Indices : g.pFreeNext[Box(j)] # Box(j)}
    BY <2>1, <2>8
  <2> QED
    BY <2>2, <2>6, <2>9 DEF Ringed
<1>6. /\ g.pParent \in [Large(s2) -> Int] /\ g.pParent[c] = NULL
      /\ \A x \in Large(sz) : g.pParent[x] = h.pParent[x]
  <2>1. h.pParent \in [Large(sz) -> Int] /\ NULL \in Int
    BY <1>1 DEF Treed, NULL
  <2>2. g.pParent \in [Large(sz) \cup {c} -> Int]
    <3>1. Put(h.pParent, c, NULL) \in [Large(sz) \cup {c} -> Int]
      BY <2>1, PutType
    <3> QED
      BY <3>1
  <2>3. g.pParent[c] = NULL
    BY PutHere
  <2>4. \A x \in Large(sz) : x # c => g.pParent[x] = h.pParent[x]
    BY <2>1, PutElse
  <2> QED
    BY <1>3, <1>4, <2>2, <2>3, <2>4
<1>7. Nodes(Large(s2), g.pParent) = Nodes(Large(sz), h.pParent)
  BY <1>3, <1>4, <1>6 DEF Nodes
<1>8. \A x \in Large(sz) : s2[x] = sz[x]
  BY <1>3 DEF Large
<1>9. \A x \in Nodes(Large(sz), h.pParent) : x \in Large(sz)
  BY DEF Nodes
<1>10. NodesRight(g.pParent, s2)
  <2>1. NodesRight(h.pParent, sz)
    BY <1>1 DEF Treed
  <2>2. ASSUME NEW x \in Large(s2)
        PROVE  \E q \in Nodes(Large(sz), h.pParent) : s2[q] = s2[x]
    <3>1. CASE x = c
      BY <1>3, <1>4, <1>8, <3>1
    <3>2. CASE x # c
      <4>1. x \in Large(sz)
        BY <1>3, <3>2
      <4>2. PICK q \in Nodes(Large(sz), h.pParent) : sz[q] = sz[x]
        BY <2>1, <4>1 DEF NodesRight
      <4> QED
        BY <1>8, <1>9, <4>1, <4>2
    <3> QED
      BY <3>1, <3>2
  <2> QED
    BY <1>7, <1>8, <1>9, <2>1, <2>2 DEF NodesRight
<1> QED
  BY <1>5, <1>6, <1>10

\* A large chunk is taken into its tree.
LEMMA LargeIn ==
  ASSUME NEW h, NEW sz, Listed(h, sz), Fits(h, sz), NEW c \in Nat \ {0}, c \notin DOMAIN sz,
         NEW n \in MIN_CHUNK_SIZE .. Modulus - 1, ~is_small(n - ChunkHead)
  PROVE  /\ Listed(insert_large_chunk(h, c, n - ChunkHead), Put(sz, c, n))
         /\ Heads(insert_large_chunk(h, c, n - ChunkHead), h)
<1> DEFINE m == n - ChunkHead
           i == tree_size_to_index(m)
           L == Large(sz)
           s2 == Put(sz, c, n)
           none == [b \in 0..1 |-> NULL]
           g == [h EXCEPT !.Index = Put(@, c, i), !.pChild = Put(@, c, [b \in 0..1 |-> NULL])]
           down == [x \in (DOMAIN h.pChild) \X (0..Levels) |->
                      LET son == h.pChild[x[1]][Branch(m, i, x[2])]
                      IN  IF m + ChunkHead = Size(h, x[1]) \/ son = NULL THEN x
                          ELSE <<son, x[2] + 1>>]
           seat == Loop(down, <<h.tree[i], 0>>, Levels)
           node == seat[1]
           way  == Branch(m, i, seat[2])
           ins  == insert_large_chunk(h, c, m)
           new  == Linked([g EXCEPT !.TreeMap = @ \cup {i}, !.tree[i] = c], c, Slot(i))
           son  == Linked([g EXCEPT !.pChild[node][way] = c], c, node)
           same == [g EXCEPT !.pParent   = Put(@, c, NULL),
                             !.pFreeNext = Put([@ EXCEPT ![node] = c], c, h.pFreeNext[node]),
                             !.pFreePrev = Put([@ EXCEPT ![h.pFreeNext[node]] = c], c, node)]
<1>1. Record(h) /\ Sized(sz) /\ Ringed(h, sz) /\ Treed(h, sz)
  BY DEF Listed
<1>2. Grown(s2, sz, c, n)
  BY <1>1, SizesPut
<1>3. /\ m \in Nat /\ n > 264 /\ i \in Indices /\ Prefix(m, i, 0) = Rooted(i)
  BY LargeTree
<1>4. PICK dep : Trie(L, Uses(sz), h.pChild, h.pParent, h.Index, h.tree, dep)
  BY <1>1 DEF Treed
<1>5. TrieType(L, Uses(sz), h.pChild, h.pParent, h.Index, h.tree, dep)
  BY <1>4 DEF Trie
<1>6. /\ i \notin h.TreeMap => ins = new
      /\ i \in h.TreeMap /\ n # Size(h, node) => ins = son
      /\ i \in h.TreeMap /\ n = Size(h, node) => ins = same
  <2>1. ins = CASE i \notin h.TreeMap -> new
                [] i \in h.TreeMap /\ m + ChunkHead # Size(h, node) -> son
                [] OTHER -> same
    BY DEF insert_large_chunk
  <2>2. m + ChunkHead = n
    BY DEF ChunkHead, MIN_CHUNK_SIZE
  <2> HIDE DEF ins, new, son, same, node, m, i
  <2> QED
    BY <2>1, <2>2
<1>7. \A x \in L : x \in DOMAIN sz /\ Uses(sz)[x] = sz[x] - ChunkHead /\ Size(h, x) = sz[x]
                  /\ sz[x] \in Nat
  BY <1>1, ClassIs DEF Fits, Uses, Large
<1>8. \A x \in L : Uses(sz)[x] = m <=> sz[x] = n
  <2> SUFFICES ASSUME NEW x \in L PROVE Uses(sz)[x] = m <=> sz[x] = n
    OBVIOUS
  <2>1. sz[x] \in Nat /\ Uses(sz)[x] = sz[x] - 8 /\ m = n - 8 /\ n \in Nat
    BY <1>3, <1>7 DEF ChunkHead
  <2> HIDE DEF m
  <2> QED
    BY <2>1
<1>9. \A q \in Nodes(L, h.pParent) : Uses(sz)[q] = m => h.Index[q] = i
  <2>1. \A x \in L : h.Index[x] = tree_size_to_index(sz[x] - ChunkHead)
    BY <1>1 DEF Treed
  <2> QED
    BY <1>8, <2>1 DEF Nodes
<1>10. ASSUME h.tree[i] # NULL
       PROVE  /\ node \in Nodes(L, h.pParent) /\ seat[2] = dep[node] /\ h.Index[node] = i
              /\ OnWay(L, Uses(sz), h.pParent, h.Index, dep, m, node)
              /\ \/ Uses(sz)[node] = m
                 \/ /\ h.pChild[node][way] = NULL
                    /\ \A q \in Nodes(L, h.pParent) : Uses(sz)[q] # m
  <2>1. ASSUME NEW p \in L, NEW d \in 0..Levels
        PROVE  down[<<p, d>>] = IF Uses(sz)[p] = m \/ h.pChild[p][Branch(m, i, d)] = NULL
                                THEN <<p, d>> ELSE <<h.pChild[p][Branch(m, i, d)], d + 1>>
    <3>1. DOMAIN h.pChild = L
      BY <1>5 DEF TrieType
    <3>2. m + ChunkHead = Size(h, p) <=> Uses(sz)[p] = m
      <4>1. m + ChunkHead = n
        BY DEF ChunkHead, MIN_CHUNK_SIZE
      <4>2. Uses(sz)[p] = m <=> Size(h, p) = n
        BY <1>7, <1>8
      <4> HIDE DEF m
      <4> QED
        BY <4>1, <4>2
    <3>3. <<p, d>> \in (DOMAIN h.pChild) \X (0..Levels) /\ <<p, d>>[1] = p /\ <<p, d>>[2] = d
      BY <3>1
    <3> HIDE DEF m, i
    <3> QED
      BY <3>2, <3>3
  <2> HIDE DEF m, i, down, L
  <2>2. seat = Loop(down, <<h.tree[i], 0>>, Levels)
    OBVIOUS
  <2> HIDE DEF seat
  <2> QED
    BY <1>3, <1>4, <1>9, <1>10, <2>1, <2>2, Seat
<1> HIDE DEF ins, down, seat, m
<1>11. /\ Large(s2) = L \cup {c} /\ Uses(s2) = Put(Uses(sz), c, m) /\ c \notin L /\ Sized(s2)
       /\ s2[c] = n /\ \A x \in L : s2[x] = sz[x]
  BY <1>2 DEF Grown, Large, m
<1> HIDE DEF i, s2
<1>12. Trie(Large(s2), Uses(s2), Put(h.pChild, c, none), Put(h.pParent, c, NULL),
            Put(h.Index, c, i), h.tree, Put(dep, c, 0))
  <2> HIDE DEF L
  <2>1. Trie(L \cup {c}, Put(Uses(sz), c, m), Put(h.pChild, c, [b \in 0..1 |-> NULL]),
             Put(h.pParent, c, NULL), Put(h.Index, c, i), h.tree, Put(dep, c, 0))
    BY <1>3, <1>4, <1>11, TrieAdd
  <2> QED
    BY <1>11, <2>1
<1>13. /\ DOMAIN h.Index = L /\ DOMAIN h.pParent = L /\ DOMAIN h.pChild = L /\ DOMAIN dep = L
       /\ h.tree \in [Indices -> L \cup {NULL}]
  BY <1>5 DEF TrieType
<1>14. \A x \in Large(s2) : Put(h.Index, c, i)[x] = tree_size_to_index(s2[x] - ChunkHead)
  <2> SUFFICES ASSUME NEW x \in Large(s2)
               PROVE  Put(h.Index, c, i)[x] = tree_size_to_index(s2[x] - ChunkHead)
    OBVIOUS
  <2>1. CASE x = c
    BY <1>11, <2>1, PutHere DEF i, m
  <2>2. CASE x # c
    <3>1. x \in L /\ x \in DOMAIN h.Index
      BY <1>11, <1>13, <2>2
    <3>2. Put(h.Index, c, i)[x] = h.Index[x]
      BY <2>2, <3>1, PutElse
    <3> QED
      BY <1>1, <1>11, <3>1, <3>2 DEF Treed
  <2> QED
    BY <2>1, <2>2
<1>15. h.TreeMap = {j \in Indices : h.tree[j] # NULL}
  BY <1>1 DEF Treed
<1>16. /\ Record(g) /\ Heads(g, h) /\ g.Index = Put(h.Index, c, i)
       /\ g.pChild = Put(h.pChild, c, none) /\ g.pParent = h.pParent
       /\ g.pFreeNext = h.pFreeNext /\ g.pFreePrev = h.pFreePrev /\ g.SameMap = h.SameMap
       /\ g.TreeMap = h.TreeMap /\ g.tree = h.tree
  BY <1>1 DEF Record, Fields, Heads
<1> HIDE DEF g
<1>17. CASE i \notin h.TreeMap
  <2>1. ins = new
    BY <1>6, <1>17
  <2>2. /\ Record(new) /\ Heads(new, h) /\ new.Index = Put(h.Index, c, i)
        /\ new.pChild = Put(h.pChild, c, none) /\ new.pParent = Put(h.pParent, c, Slot(i))
        /\ new.pFreeNext = Put(h.pFreeNext, c, c) /\ new.pFreePrev = Put(h.pFreePrev, c, c)
        /\ new.SameMap = h.SameMap /\ new.TreeMap = h.TreeMap \cup {i}
        /\ new.tree = [h.tree EXCEPT ![i] = c]
    BY <1>16 DEF Linked, Record, Fields, Heads
  <2> HIDE DEF new
  <2>3. h.tree[i] = NULL
    BY <1>3, <1>15, <1>17
  <2>4. \A q \in Nodes(L, h.pParent) : sz[q] # n
    <3> SUFFICES ASSUME NEW q \in Nodes(L, h.pParent), sz[q] = n PROVE FALSE
      OBVIOUS
    <3>1. h.Index[q] = i
      BY <1>8, <1>9 DEF Nodes
    <3>2. Under(L, Uses(sz), h.pParent, h.Index, dep, h.tree[i], q)
      BY <1>4, <3>1, UnderRoot
    <3>3. NULL \in L
      BY <2>3, <3>2 DEF Under, Nodes
    <3> QED
      BY <1>5, <3>3 DEF TrieType, NULL
  <2>5. Slot(i) \in Int /\ Slot(i) # NULL
    BY <1>3 DEF Slot, NULL, Indices
  <2>6. Ringed(new, s2) /\ NodesRight(new.pParent, s2) /\ new.pParent \in [Large(s2) -> Int]
    BY <2>2, <2>4, <2>5, NewNode DEF s2
  <2>7. /\ Put(h.pParent, c, NULL)[c] = NULL /\ Put(h.Index, c, i)[c] = i /\ Put(dep, c, 0)[c] = 0
        /\ c \in Large(s2)
    BY <1>11, PutHere
  <2>8. [Put(h.pParent, c, NULL) EXCEPT ![c] = Slot(i)] = Put(h.pParent, c, Slot(i))
    BY DEF Put
  <2>9. Trie(Large(s2), Uses(s2), new.pChild, new.pParent, new.Index, new.tree, Put(dep, c, 0))
    <3>1. Trie(Large(s2), Uses(s2), Put(h.pChild, c, none),
               [Put(h.pParent, c, NULL) EXCEPT ![c] = Slot(Put(h.Index, c, i)[c])],
               Put(h.Index, c, i), [h.tree EXCEPT ![Put(h.Index, c, i)[c]] = c], Put(dep, c, 0))
      <4> HIDE DEF none
      <4> QED
        BY <1>12, <2>3, <2>7, TrieAttachRoot
    <3> QED
      BY <2>2, <2>7, <2>8, <3>1
  <2>10. new.TreeMap = {j \in Indices : new.tree[j] # NULL}
    <3>1. \A j \in Indices : new.tree[j] = IF j = i THEN c ELSE h.tree[j]
      BY <1>13, <2>2
    <3>2. c # NULL
      BY DEF NULL
    <3> QED
      BY <1>3, <1>15, <2>2, <3>1, <3>2
  <2>11. Treed(new, s2)
    BY <1>14, <2>2, <2>6, <2>9, <2>10 DEF Treed
  <2>12. Listed(new, s2)
    BY <1>11, <2>2, <2>6, <2>11 DEF Listed
  <2> QED
    BY <2>1, <2>2, <2>12 DEF ins, s2, m
<1>18. CASE i \in h.TreeMap /\ n # Size(h, node)
  <2>1. ins = son
    BY <1>6, <1>18
  <2>2. h.tree[i] # NULL
    BY <1>15, <1>18
  <2>3. /\ node \in Nodes(L, h.pParent) /\ node \in L /\ seat[2] = dep[node] /\ h.Index[node] = i
        /\ OnWay(L, Uses(sz), h.pParent, h.Index, dep, m, node)
    BY <1>10, <2>2 DEF Nodes
  <2>4. Uses(sz)[node] # m
    BY <1>7, <1>8, <1>18, <2>3
  <2>5. h.pChild[node][way] = NULL /\ \A q \in Nodes(L, h.pParent) : Uses(sz)[q] # m
    BY <1>10, <2>2, <2>4
  <2>6. \A q \in Nodes(L, h.pParent) : sz[q] # n
    BY <1>8, <2>5 DEF Nodes
  <2>7. /\ way \in 0..1 /\ dep[node] \in 0..Top(i) /\ dep[node] \in Nat
        /\ Prefix(m, i, dep[node] + 1) = 2 * Prefix(Uses(sz)[node], i, dep[node]) + way
    <3>1. dep[node] \in 0..Top(i) /\ way \in 0..1
      BY <1>3, <1>4, <2>3, <2>4, WayDown
    <3>2. Prefix(Uses(sz)[node], i, dep[node]) = Prefix(m, i, dep[node])
      BY <2>3 DEF OnWay
    <3>3. Prefix(m, i, dep[node] + 1) = 2 * Prefix(m, i, dep[node]) + Branch(m, i, dep[node])
      BY <1>3, <3>1, OneDown
    <3> QED
      BY <2>3, <3>1, <3>2, <3>3
  <2> HIDE DEF node, way
  <2>8. /\ Record(son) /\ Heads(son, h) /\ son.Index = Put(h.Index, c, i)
        /\ son.pChild = [Put(h.pChild, c, none) EXCEPT ![node][way] = c]
        /\ son.pParent = Put(h.pParent, c, node)
        /\ son.pFreeNext = Put(h.pFreeNext, c, c) /\ son.pFreePrev = Put(h.pFreePrev, c, c)
        /\ son.SameMap = h.SameMap /\ son.TreeMap = h.TreeMap /\ son.tree = h.tree
    BY <1>16 DEF Linked, Record, Fields, Heads
  <2> HIDE DEF son
  <2>9. node \in Int /\ node # NULL
    BY <1>5, <2>3 DEF TrieType, NULL
  <2>10. Ringed(son, s2) /\ NodesRight(son.pParent, s2) /\ son.pParent \in [Large(s2) -> Int]
    BY <2>6, <2>8, <2>9, NewNode DEF s2
  <2>11. /\ Put(h.pParent, c, NULL)[c] = NULL /\ Put(h.Index, c, i)[c] = i
         /\ c \in Large(s2) /\ node # c /\ node \in Large(s2)
    BY <1>11, <2>3, PutHere
  <2>12. /\ Put(h.pParent, c, NULL)[node] = h.pParent[node]
         /\ Put(h.Index, c, i)[node] = i /\ Put(dep, c, 0)[node] = dep[node]
         /\ Put(h.pChild, c, none)[node] = h.pChild[node]
    BY <1>13, <2>3, <2>11, PutElse
  <2>13. node \in Nodes(Large(s2), Put(h.pParent, c, NULL))
    BY <2>3, <2>11, <2>12 DEF Nodes
  <2>14. Uses(s2)[c] = m /\ Uses(s2)[node] = Uses(sz)[node]
    <3>1. node \in DOMAIN Uses(sz)
      BY <2>3 DEF Uses
    <3> QED
      BY <1>11, <2>11, <3>1, PutHere, PutElse
  <2>15. [Put(h.pParent, c, NULL) EXCEPT ![c] = node] = Put(h.pParent, c, node)
    BY DEF Put
  <2>16. Trie(Large(s2), Uses(s2), son.pChild, son.pParent, son.Index, son.tree,
              [Put(dep, c, 0) EXCEPT ![c] = dep[node] + 1])
    <3> DEFINE C2 == Put(h.pChild, c, none)
               Pa2 == Put(h.pParent, c, NULL)
               Ix2 == Put(h.Index, c, i)
               dep2 == Put(dep, c, 0)
    <3>1. /\ Trie(Large(s2), Uses(s2), C2, Pa2, Ix2, h.tree, dep2)
          /\ c \in Large(s2) /\ Pa2[c] = NULL /\ node \in Nodes(Large(s2), Pa2) /\ way \in 0..1
          /\ C2[node][way] = NULL /\ Ix2[c] = Ix2[node] /\ dep2[node] \in 0..Top(Ix2[node])
          /\ Prefix(Uses(s2)[c], Ix2[node], dep2[node] + 1)
               = 2 * Prefix(Uses(s2)[node], Ix2[node], dep2[node]) + way
      BY <1>12, <2>5, <2>7, <2>11, <2>12, <2>13, <2>14
    <3>2. /\ son.pChild = [C2 EXCEPT ![node][way] = c] /\ son.pParent = [Pa2 EXCEPT ![c] = node]
          /\ son.Index = Ix2 /\ son.tree = h.tree /\ dep2[node] = dep[node]
      BY <2>8, <2>12, <2>15
    <3> HIDE DEF C2, Pa2, Ix2, dep2
    <3>3. Trie(Large(s2), Uses(s2), [C2 EXCEPT ![node][way] = c], [Pa2 EXCEPT ![c] = node], Ix2,
               h.tree, [dep2 EXCEPT ![c] = dep2[node] + 1])
      BY <3>1, TrieAttach
    <3> QED
      BY <3>2, <3>3 DEF dep2
  <2>17. Treed(son, s2)
    BY <1>14, <1>15, <2>8, <2>10, <2>16 DEF Treed
  <2>18. Listed(son, s2)
    BY <1>11, <2>8, <2>10, <2>17 DEF Listed
  <2> QED
    BY <2>1, <2>8, <2>18 DEF ins, s2, m
<1>19. CASE i \in h.TreeMap /\ n = Size(h, node)
  <2>1. ins = same
    BY <1>6, <1>19
  <2>2. h.tree[i] # NULL
    BY <1>15, <1>19
  <2>3. node \in Nodes(L, h.pParent) /\ sz[node] = n
    BY <1>7, <1>10, <1>19, <2>2 DEF Nodes
  <2> HIDE DEF node
  <2>4. /\ Record(same) /\ Heads(same, h) /\ same.Index = Put(h.Index, c, i)
        /\ same.pChild = Put(h.pChild, c, none) /\ same.pParent = Put(h.pParent, c, NULL)
        /\ same.pFreeNext = Put([h.pFreeNext EXCEPT ![node] = c], c, h.pFreeNext[node])
        /\ same.pFreePrev = Put([h.pFreePrev EXCEPT ![h.pFreeNext[node]] = c], c, node)
        /\ same.SameMap = h.SameMap /\ same.TreeMap = h.TreeMap /\ same.tree = h.tree
    BY <1>16 DEF Record, Fields, Heads
  <2> HIDE DEF same
  <2>5. Ringed(same, s2) /\ NodesRight(same.pParent, s2) /\ same.pParent \in [Large(s2) -> Int]
    BY <2>3, <2>4, SameSize DEF s2
  <2>6. Trie(Large(s2), Uses(s2), same.pChild, same.pParent, same.Index, same.tree,
             Put(dep, c, 0))
    BY <1>12, <2>4
  <2>7. Treed(same, s2)
    BY <1>14, <1>15, <2>4, <2>5, <2>6 DEF Treed
  <2>8. Listed(same, s2)
    BY <1>11, <2>4, <2>5, <2>7 DEF Listed
  <2> QED
    BY <2>1, <2>4, <2>8 DEF ins, s2, m
<1> QED
  BY <1>17, <1>18, <1>19 DEF ins, s2, m

-----------------------------------------------------------------------------
\* A large chunk leaves.

\* Under a node of a subtree is in the subtree.
LEMMA UnderTrans ==
  ASSUME NEW L, NEW use, NEW C, NEW Pa, NEW Ix, NEW tr, NEW dep,
         Trie(L, use, C, Pa, Ix, tr, dep), NEW a, NEW p, NEW q,
         Under(L, use, Pa, Ix, dep, a, p), Under(L, use, Pa, Ix, dep, p, q)
  PROVE  Under(L, use, Pa, Ix, dep, a, q)
<1>1. /\ a \in Nodes(L, Pa) /\ p \in Nodes(L, Pa) /\ q \in Nodes(L, Pa)
      /\ Ix[p] = Ix[a] /\ Ix[q] = Ix[a] /\ dep[a] <= dep[p] /\ dep[p] <= dep[q]
      /\ Prefix(use[p], Ix[a], dep[a]) = Prefix(use[a], Ix[a], dep[a])
      /\ Prefix(use[q], Ix[a], dep[p]) = Prefix(use[p], Ix[a], dep[p])
  BY DEF Under
<1>2. /\ use[p] \in Nat /\ use[q] \in Nat /\ Ix[a] \in Indices
      /\ dep[p] \in 0 .. Top(Ix[a]) + 1 /\ dep[a] \in Nat /\ dep[q] \in Nat
  BY <1>1, NodeType
<1>3. dep[a] \in 0..dep[p] /\ dep[a] <= dep[q]
  BY <1>1, <1>2
<1>4. Prefix(use[q], Ix[a], dep[a]) = Prefix(use[p], Ix[a], dep[a])
  BY <1>1, <1>2, <1>3, PrefixUp
<1> QED
  BY <1>1, <1>3, <1>4 DEF Under

\* A chunk is the son of one node only, and on one side.
LEMMA OneParent ==
  ASSUME NEW L, NEW use, NEW C, NEW Pa, NEW Ix, NEW tr, NEW dep,
         Trie(L, use, C, Pa, Ix, tr, dep), NEW p \in L, NEW b \in 0..1, NEW q \in L,
         NEW w \in 0..1, C[p][b] # NULL, C[q][w] = C[p][b]
  PROVE  p = q /\ b = w
<1> DEFINE s == C[p][b]
<1>1. /\ Pa[s] = p /\ p \in Nodes(L, Pa)
      /\ Prefix(use[s], Ix[p], dep[p] + 1) = 2 * Prefix(use[p], Ix[p], dep[p]) + b
  BY NodeBelow
<1>2. /\ Pa[s] = q
      /\ Prefix(use[s], Ix[q], dep[q] + 1) = 2 * Prefix(use[q], Ix[q], dep[q]) + w
  BY NodeBelow
<1> HIDE DEF s
<1>3. Prefix(use[p], Ix[p], dep[p]) \in Nat
  BY <1>1, NodeType, PrefixType
<1> QED
  BY <1>1, <1>2, <1>3, OddEven

\* A node is a root and nobody's son, or else the son of its parent.
LEMMA Place ==
  ASSUME NEW L, NEW use, NEW C, NEW Pa, NEW Ix, NEW tr, NEW dep,
         Trie(L, use, C, Pa, Ix, tr, dep), NEW c \in Nodes(L, Pa), NEW w,
         w = IF C[Pa[c]][0] = c THEN 0 ELSE 1
  PROVE  /\ tr[Ix[c]] = c => \A p \in L, b \in 0..1 : C[p][b] # c
         /\ \A i \in Indices : tr[i] = c => i = Ix[c]
         /\ tr[Ix[c]] # c =>
              /\ Pa[c] \in Nodes(L, Pa) /\ Pa[c] # c /\ w \in 0..1 /\ C[Pa[c]][w] = c
              /\ \A p \in L, b \in 0..1 : C[p][b] = c => p = Pa[c] /\ b = w
<1>1. c \in L /\ c # NULL /\ Ix[c] \in Indices /\ dep[c] \in Nat
  BY NodeType DEF NULL
<1>2. \A i \in Indices : tr[i] = c => i = Ix[c] /\ dep[c] = 0
  BY <1>1 DEF Trie, RootsRight
<1>3. \A p \in L, b \in 0..1 : C[p][b] = c => dep[c] = dep[p] + 1 /\ dep[p] \in Nat
  <2> SUFFICES ASSUME NEW p \in L, NEW b \in 0..1, C[p][b] = c
               PROVE  dep[c] = dep[p] + 1 /\ dep[p] \in Nat
    OBVIOUS
  <2>1. p \in Nodes(L, Pa) /\ dep[c] = dep[p] + 1
    BY <1>1, NodeBelow
  <2> QED
    BY <2>1, NodeType
<1>4. tr[Ix[c]] = c => \A p \in L, b \in 0..1 : C[p][b] # c
  BY <1>1, <1>2, <1>3
<1>5. ASSUME tr[Ix[c]] # c
      PROVE  /\ Pa[c] \in Nodes(L, Pa) /\ Pa[c] # c /\ w \in 0..1 /\ C[Pa[c]][w] = c
             /\ \A p \in L, b \in 0..1 : C[p][b] = c => p = Pa[c] /\ b = w
  <2>1. PICK q \in Nodes(L, Pa), e \in 0..1 : C[q][e] = c /\ Pa[c] = q /\ dep[c] = dep[q] + 1
    BY <1>5, NodeAbove
  <2>2. q \in L /\ dep[q] \in Nat
    BY <2>1, NodeType
  <2>3. q # c
    BY <1>1, <2>1, <2>2
  <2>4. w \in 0..1 /\ C[q][w] = c
    BY <2>1
  <2>5. \A p \in L, b \in 0..1 : C[p][b] = c => p = q /\ b = w
    BY <1>1, <2>2, <2>4, OneParent
  <2> QED
    BY <2>1, <2>3, <2>4, <2>5
<1> QED
  BY <1>2, <1>4, <1>5

\* The search for the last leaf below a node ends right above a leaf.
RightAbove(h, L, use, Pa, Ix, dep, c, q) ==
  /\ q \in Nodes(L, Pa) /\ Way(h, q) \in 0..1 /\ Son(h, q) \in Nodes(L, Pa)
  /\ Under(L, use, Pa, Ix, dep, c, Son(h, q)) /\ Son(h, q) # c
  /\ \A b \in 0..1 : h.pChild[Son(h, q)][b] = NULL

\* A node with a son has a last leaf below it: the loop of last_leaf ends at a parent whose
\* son on the way has no sons.
LEMMA LeafOf ==
  ASSUME NEW h, NEW L, NEW use, NEW Pa, NEW Ix, NEW tr, NEW dep,
         Trie(L, use, h.pChild, Pa, Ix, tr, dep), NEW c \in Nodes(L, Pa), Son(h, c) # NULL
  PROVE  RightAbove(h, L, use, Pa, Ix, dep, c, last_leaf(h, c))
<1> DEFINE over == [p \in DOMAIN h.pChild |-> IF Son(h, Son(h, p)) = NULL THEN p ELSE Son(h, p)]
           leaf == last_leaf(h, c)
           G == {p \in Nodes(L, Pa) : Under(L, use, Pa, Ix, dep, c, p) /\ Son(h, p) # NULL}
           rank == [p \in G |-> dep[p]]
<1>1. leaf = Loop(over, c, Levels)
  BY DEF last_leaf
<1>2. \A p : Way(h, p) \in 0..1 /\ Son(h, p) = h.pChild[p][Way(h, p)]
  BY DEF Way, Son
<1>3. \A p : Son(h, p) = NULL => \A b \in 0..1 : h.pChild[p][b] = NULL
  BY DEF Way, Son
<1>4. DOMAIN h.pChild = L
  BY DEF Trie, TrieType
<1> HIDE DEF leaf
<1>5. ASSUME NEW p \in G
      PROVE  /\ Son(h, p) \in Nodes(L, Pa) /\ dep[Son(h, p)] = dep[p] + 1 /\ p \in L
             /\ Under(L, use, Pa, Ix, dep, c, Son(h, p))
             /\ dep[p] \in 0..Levels /\ dep[p] \in Nat
             /\ Son(h, p) # c
  <2> DEFINE s == Son(h, p)
             w == Way(h, p)
  <2>1. p \in Nodes(L, Pa) /\ Under(L, use, Pa, Ix, dep, c, p) /\ h.pChild[p][w] = s /\ s # NULL
        /\ w \in 0..1
    BY <1>2
  <2>2. p \in L /\ dep[p] \in Nat /\ dep[c] \in Nat
    BY <2>1, NodeType
  <2> HIDE DEF s, w, G
  <2>3. /\ s \in Nodes(L, Pa) /\ dep[s] = dep[p] + 1 /\ Under(L, use, Pa, Ix, dep, p, s)
        /\ dep[p] \in 0..Top(Ix[p]) /\ Top(Ix[p]) \in 6..31
    BY <2>1, <2>2, NodeBelow, NodeType
  <2>4. Under(L, use, Pa, Ix, dep, c, s)
    BY <2>1, <2>3, UnderTrans
  <2>5. dep[c] <= dep[p]
    BY <2>1 DEF Under
  <2>6. s # c
    BY <2>2, <2>3, <2>5
  <2>7. dep[p] \in 0..Levels
    BY <2>2, <2>3 DEF Levels
  <2> QED
    BY <2>2, <2>3, <2>4, <2>6, <2>7 DEF s
<1>6. c \in G
  <2>1. dep[c] <= dep[c]
    BY NodeType
  <2> QED
    BY <2>1 DEF Under
<1>7. ASSUME NEW p \in G
      PROVE  /\ over[p] \in G /\ rank[p] \in 0..Levels
             /\ over[p] = p \/ rank[over[p]] > rank[p]
  <2>1. over[p] = IF Son(h, Son(h, p)) = NULL THEN p ELSE Son(h, p)
    BY <1>4, <1>5
  <2>2. over[p] \in G
    BY <1>5, <2>1
  <2>3. rank[p] \in 0..Levels
    BY <1>5
  <2>4. over[p] = p \/ (over[p] = Son(h, p) /\ dep[Son(h, p)] = dep[p] + 1 /\ dep[p] \in Nat)
    BY <1>5, <2>1
  <2>5. rank[p] = dep[p] /\ rank[over[p]] = dep[over[p]]
    BY <2>2
  <2> HIDE DEF over, rank, G
  <2> QED
    BY <2>2, <2>3, <2>4, <2>5
<1>8. leaf \in G /\ over[leaf] = leaf
  <2> HIDE DEF G, rank, over
  <2>1. \A p \in G : over[p] \in G
    BY <1>7
  <2>2. \A p \in G : rank[p] \in 0..Levels
    BY <1>7
  <2>3. \A p \in G : over[p] = p \/ rank[over[p]] > rank[p]
    BY <1>7
  <2>4. Levels \in Nat
    BY DEF Levels
  <2> QED
    BY <1>1, <1>6, <2>1, <2>2, <2>3, <2>4, LoopEnds
<1>9. Son(h, Son(h, leaf)) = NULL
  <2>1. leaf \in L /\ dep[Son(h, leaf)] = dep[leaf] + 1 /\ dep[leaf] \in Nat
    BY <1>5, <1>8
  <2>2. Son(h, leaf) # leaf
    BY <2>1
  <2> QED
    BY <1>4, <1>8, <2>1, <2>2
<1> QED
  BY <1>2, <1>3, <1>5, <1>8, <1>9 DEF leaf, RightAbove

\* What the code makes of the sons, parents and roots when r replaces c.
Swapped(L, C, Pa, Ix, tr, c, r, old, C2, Pa2, tr2) ==
  LET w    == IF C[Pa[c]][0] = c THEN 0 ELSE 1
      A    == IF tr[Ix[c]] = c THEN C ELSE [C EXCEPT ![Pa[c]][w] = r]
      sons == {b \in 0..1 : C[c][b] # NULL}
  IN  /\ old \in [L -> Int] /\ \A x \in L \ {r} : old[x] = Pa[x]
      /\ C2 = Drop([A EXCEPT ![r] = [b \in 0..1 |-> IF b \in sons THEN C[c][b] ELSE A[r][b]]], c)
      /\ Pa2 = Drop([p \in L |-> IF p = r THEN Pa[c]
                                 ELSE IF \E b \in sons : p = C[c][b] THEN r ELSE old[p]], c)
      /\ tr2 = IF tr[Ix[c]] = c THEN [tr EXCEPT ![Ix[c]] = r] ELSE tr

\* They are trees again.
Moved(L, use, Pa, Ix, c, r, C2, Pa2, tr2) ==
  /\ \E dep2 : Trie(L \ {c}, Drop(use, c), C2, Pa2, Drop(Ix, c), tr2, dep2)
  /\ Nodes(L \ {c}, Pa2) = (Nodes(L, Pa) \ {c}) \cup {r}
  /\ Pa2 \in [L \ {c} -> Int]

\* With a childless stranger or a leaf in the place of a node, the trees are trees again.
LEMMA Replaced ==
  ASSUME NEW L, NEW use, NEW C, NEW Pa, NEW Ix, NEW tr, NEW dep,
         Trie(L, use, C, Pa, Ix, tr, dep), NEW c \in Nodes(L, Pa), NEW r \in L, Pa[r] = NULL,
         Ix[r] = Ix[c], Prefix(use[r], Ix[c], dep[c]) = Prefix(use[c], Ix[c], dep[c]),
         NEW old,
         NEW C2, NEW Pa2, NEW tr2, Swapped(L, C, Pa, Ix, tr, c, r, old, C2, Pa2, tr2)
  PROVE  Moved(L, use, Pa, Ix, c, r, C2, Pa2, tr2)
<1> DEFINE M == L \ {c}
           C3 == [x \in M |-> [b \in 0..1 |->
                    IF x = r THEN C[c][b] ELSE IF C[x][b] = c THEN r ELSE C[x][b]]]
           Pa3 == [x \in M |-> IF x = r THEN Pa[c] ELSE IF Pa[x] = c THEN r ELSE Pa[x]]
           tr3 == [i \in Indices |-> IF tr[i] = c THEN r ELSE tr[i]]
           dep3 == [x \in M |-> IF x = r THEN dep[c] ELSE dep[x]]
           w == IF C[Pa[c]][0] = c THEN 0 ELSE 1
           A == IF tr[Ix[c]] = c THEN C ELSE [C EXCEPT ![Pa[c]][w] = r]
           sons == {b \in 0..1 : C[c][b] # NULL}
<1>0. /\ old \in [L -> Int] /\ \A x \in L \ {r} : old[x] = Pa[x]
      /\ w = IF C[Pa[c]][0] = c THEN 0 ELSE 1
      /\ A = IF tr[Ix[c]] = c THEN C ELSE [C EXCEPT ![Pa[c]][w] = r]
      /\ sons = {b \in 0..1 : C[c][b] # NULL}
      /\ C2 = Drop([A EXCEPT ![r] = [b \in 0..1 |-> IF b \in sons THEN C[c][b] ELSE A[r][b]]], c)
      /\ Pa2 = Drop([p \in L |-> IF p = r THEN Pa[c]
                                 ELSE IF \E b \in sons : p = C[c][b] THEN r ELSE old[p]], c)
      /\ tr2 = IF tr[Ix[c]] = c THEN [tr EXCEPT ![Ix[c]] = r] ELSE tr
  BY DEF Swapped
<1> HIDE DEF w, A, sons
<1> USE <1>0
<1>1. TrieType(L, use, C, Pa, Ix, tr, dep)
  BY DEF Trie
<1>2. /\ c \in L /\ c # NULL /\ r # NULL /\ r # c /\ r \in M /\ Pa[c] # NULL /\ Ix[c] \in Indices
      /\ old[c] = Pa[c] /\ Pa[c] \in Int
  BY <1>1 DEF Nodes, TrieType, NULL
<1>3. /\ \A p \in L, b \in 0..1 : C[p][b] # r
      /\ \A b \in 0..1 : C[r][b] = NULL
      /\ \A i \in Indices : tr[i] # r
  BY Apart
<1>4. /\ tr[Ix[c]] = c => \A p \in L, b \in 0..1 : C[p][b] # c
      /\ \A i \in Indices : tr[i] = c => i = Ix[c]
      /\ tr[Ix[c]] # c =>
           /\ Pa[c] \in Nodes(L, Pa) /\ Pa[c] # c /\ w \in 0..1 /\ C[Pa[c]][w] = c
           /\ \A p \in L, b \in 0..1 : C[p][b] = c => p = Pa[c] /\ b = w
  BY Place
<1>5. C \in [L -> [0..1 -> L \cup {NULL}]] /\ tr \in [Indices -> L \cup {NULL}]
  BY <1>1 DEF TrieType
<1>6. tr2 = tr3
  <2>1. tr2 \in [Indices -> L \cup {NULL}]
    BY <1>2, <1>5
  <2>2. \A i \in Indices : tr2[i] = tr3[i]
    BY <1>2, <1>4, <1>5
  <2> HIDE DEF tr3
  <2>3. DOMAIN tr3 = Indices /\ tr3 = [i \in Indices |-> tr3[i]]
    BY DEF tr3
  <2> QED
    BY <2>1, <2>2, <2>3
<1>7. /\ A \in [L -> [0..1 -> L \cup {NULL}]]
      /\ \A x \in L, b \in 0..1 : A[x][b] = IF C[x][b] = c THEN r ELSE C[x][b]
      /\ A[r] = C[r]
  <2>1. CASE tr[Ix[c]] = c
    BY <1>4, <1>5, <2>1
  <2>2. CASE tr[Ix[c]] # c
    <3> DEFINE q == Pa[c]
    <3>1. q \in L /\ q # r /\ w \in 0..1 /\ C[q][w] = c
      BY <1>4, <2>2 DEF Nodes
    <3>2. A = [C EXCEPT ![q][w] = r]
      BY <2>2
    <3>3. \A p \in L, b \in 0..1 : C[p][b] = c => p = q /\ b = w
      BY <1>4, <2>2
    <3> HIDE DEF q
    <3>4. A \in [L -> [0..1 -> L \cup {NULL}]] /\ A[r] = C[r]
          /\ \A x \in L, b \in 0..1 : A[x][b] = IF x = q /\ b = w THEN r ELSE C[x][b]
      <4>1. A = [C EXCEPT ![q] = [C[q] EXCEPT ![w] = r]]
        BY <3>2
      <4>2. /\ C[q] \in [0..1 -> L \cup {NULL}]
            /\ [C[q] EXCEPT ![w] = r] \in [0..1 -> L \cup {NULL}]
            /\ \A b \in 0..1 : [C[q] EXCEPT ![w] = r][b] = IF b = w THEN r ELSE C[q][b]
        BY <1>5, <3>1
      <4> DEFINE V == [C[q] EXCEPT ![w] = r]
      <4> HIDE DEF V
      <4>3. A = [C EXCEPT ![q] = V] /\ V \in [0..1 -> L \cup {NULL}]
            /\ \A b \in 0..1 : V[b] = IF b = w THEN r ELSE C[q][b]
        BY <4>1, <4>2 DEF V
      <4>4. A[q] = V /\ \A x \in L : x # q => A[x] = C[x]
        BY <1>5, <3>1, <4>3
      <4>5. A \in [L -> [0..1 -> L \cup {NULL}]] /\ A[r] = C[r]
        BY <1>5, <3>1, <4>3
      <4> QED
        BY <4>3, <4>4, <4>5
    <3> QED
      BY SMTT(20), <3>1, <3>3, <3>4
  <2> QED
    BY <2>1, <2>2
<1>8. C2 = C3
  <2> DEFINE R == [b \in 0..1 |-> IF b \in sons THEN C[c][b] ELSE A[r][b]]
             B == [A EXCEPT ![r] = R]
  <2>1. C2 = Drop(B, c)
    OBVIOUS
  <2>2. R = [b \in 0..1 |-> C[c][b]]
    BY <1>3, <1>7
  <2> HIDE DEF R
  <2>3. DOMAIN B = L /\ B[r] = R /\ \A x \in L \ {r} : B[x] = A[x]
    BY <1>7
  <2> HIDE DEF B
  <2>4. C2 = [x \in M |-> B[x]]
    BY <2>1, <2>3 DEF Drop
  <2>5. ASSUME NEW x \in M PROVE B[x] = C3[x]
    <3>1. CASE x = r
      BY <1>2, <2>2, <2>3, <3>1
    <3>2. CASE x # r
      <4>1. B[x] = A[x] /\ A[x] \in [0..1 -> L \cup {NULL}]
        BY <1>7, <2>3, <3>2
      <4>2. \A b \in 0..1 : A[x][b] = C3[x][b]
        BY <1>7, <3>2
      <4>3. C3[x] = [b \in 0..1 |-> C3[x][b]]
        OBVIOUS
      <4> HIDE DEF C3
      <4> QED
        BY <4>1, <4>2, <4>3
    <3> QED
      BY <3>1, <3>2
  <2>6. C3 = [x \in M |-> C3[x]]
    OBVIOUS
  <2> HIDE DEF C3
  <2> QED
    BY <2>4, <2>5, <2>6
<1>9. \A x \in L : (\E b \in sons : x = C[c][b]) <=> Pa[x] = c
  <2> SUFFICES ASSUME NEW x \in L PROVE (\E b \in sons : x = C[c][b]) <=> Pa[x] = c
    OBVIOUS
  <2>1. ASSUME NEW b \in sons, x = C[c][b] PROVE Pa[x] = c
    BY <1>2, <2>1, NodeBelow
  <2>2. ASSUME Pa[x] = c PROVE \E b \in sons : x = C[c][b]
    <3>1. x \in Nodes(L, Pa) /\ x # NULL
      BY <1>1, <1>2, <2>2 DEF Nodes, TrieType, NULL
    <3>2. Slot(Ix[x]) # c
      BY <1>1, <1>2 DEF TrieType, Slot, Indices
    <3>3. PICK p \in Nodes(L, Pa), b \in 0..1 : C[p][b] = x /\ Pa[x] = p
      BY <2>2, <3>1, <3>2, NodeAbove
    <3> QED
      BY <2>2, <3>1, <3>3
  <2> QED
    BY <2>1, <2>2
<1>10. Pa2 = Pa3
  <2> DEFINE P1 == [p \in L |-> IF p = r THEN Pa[c]
                                ELSE IF \E b \in sons : p = C[c][b] THEN r ELSE old[p]]
  <2>1. P1 = [p \in L |-> IF p = r THEN Pa[c] ELSE IF Pa[p] = c THEN r ELSE old[p]]
    BY <1>9
  <2>2. Pa2 = Drop(P1, c)
    OBVIOUS
  <2> HIDE DEF P1
  <2>3. Pa2 = [p \in M |-> P1[p]]
    BY <2>1, <2>2 DEF Drop
  <2> QED
    BY <2>1, <2>3
<1>11. Trie(M, Drop(use, c), C3, Pa3, Drop(Ix, c), tr3, dep3)
  <2>1. /\ C3 \in [M -> [0..1 -> L \cup {NULL}]]
        /\ \A x \in M, b \in 0..1 :
             C3[x][b] = IF x = r THEN C[c][b] ELSE IF C[x][b] = c THEN r ELSE C[x][b]
    BY <1>2, <1>5
  <2>2. /\ DOMAIN Pa3 = M
        /\ \A x \in M : Pa3[x] = IF x = r THEN Pa[c] ELSE IF Pa[x] = c THEN r ELSE Pa[x]
    OBVIOUS
  <2>3. /\ tr3 \in [Indices -> L \cup {NULL}]
        /\ \A i \in Indices : tr3[i] = IF tr[i] = c THEN r ELSE tr[i]
    BY <1>5
  <2>4. /\ dep3 \in [M -> Nat]
        /\ \A x \in M : dep3[x] = IF x = r THEN dep[c] ELSE dep[x]
    BY <1>1, <1>2 DEF TrieType
  <2> HIDE DEF C3, Pa3, tr3, dep3
  <2>5. /\ Trie(L, use, C, Pa, Ix, tr, dep) /\ c \in Nodes(L, Pa) /\ r \in L /\ Pa[r] = NULL
        /\ Ix[r] = Ix[c] /\ Prefix(use[r], Ix[c], dep[c]) = Prefix(use[c], Ix[c], dep[c])
    OBVIOUS
  <2>6. Exchanged(L, C, Pa, tr, dep, c, r, C3, Pa3, tr3, dep3)
    BY <2>1, <2>2, <2>3, <2>4 DEF Exchanged
  <2> QED
    BY <2>5, <2>6, TrieReplace
<1> HIDE DEF C3, tr3, dep3
<1>12. \E dep2 : Trie(M, Drop(use, c), C2, Pa2, Drop(Ix, c), tr2, dep2)
  BY <1>6, <1>8, <1>10, <1>11
<1>13. \A x \in M : Pa3[x] # NULL <=> (x = r \/ Pa[x] # NULL)
  BY <1>2
<1>14. Pa3 \in [M -> Int]
  <2>1. r \in Int
    BY <1>1 DEF TrieType
  <2>2. \A x \in M : x # r => Pa[x] \in Int
    OBVIOUS
  <2> QED
    BY <1>2, <2>1, <2>2
<1> HIDE DEF Pa3
<1>15. Nodes(M, Pa2) = (Nodes(L, Pa) \ {c}) \cup {r}
  BY <1>2, <1>10, <1>13 DEF Nodes
<1> QED
  BY <1>10, <1>12, <1>14, <1>15 DEF Moved

\* A large chunk leaves its ring.
LEMMA LargeRing ==
  ASSUME NEW h, NEW sz, Listed(h, sz), NEW c \in Large(sz), NEW g,
         g.pFreeNext = Drop([h.pFreeNext EXCEPT ![h.pFreePrev[c]] = h.pFreeNext[c]], c),
         g.pFreePrev = Drop([h.pFreePrev EXCEPT ![h.pFreeNext[c]] = h.pFreePrev[c]], c),
         g.SameMap = h.SameMap
  PROVE  Ringed(g, Drop(sz, c))
<1> DEFINE s2 == Drop(sz, c)
           D == DOMAIN sz \cup Boxes
           N == h.pFreeNext
           P == h.pFreePrev
<1>1. Record(h) /\ Sized(sz) /\ Ringed(h, sz)
  BY DEF Listed
<1>2. c \in DOMAIN sz /\ Shrunk(s2, sz, c)
  BY <1>1, SizesDrop DEF Large
<1>3. /\ c \in D /\ c \notin Boxes /\ Cls(sz)[c] = sz[c] /\ sz[c] > 264
  BY <1>1, <1>2, ClassIs
<1> HIDE DEF s2
<1>4. Rings(D, N, P, Cls(sz)) /\ h.SameMap = {j \in Indices : N[Box(j)] # Box(j)}
  BY <1>1 DEF Ringed
<1>5. /\ N \in [D -> D] /\ P \in [D -> D]
      /\ \A x \in D : P[N[x]] = x /\ N[P[x]] = x /\ Cls(sz)[N[x]] = Cls(sz)[x]
  BY <1>4 DEF Rings, Linking
<1>6. Rings(D \ {c}, g.pFreeNext, g.pFreePrev, Cls(s2))
  <2>1. \A x \in D \ {c} : Cls(s2)[x] = Cls(sz)[x]
    BY <1>2 DEF Shrunk
  <2> HIDE DEF D
  <2>2. Rings(D \ {c}, Drop([N EXCEPT ![P[c]] = N[c]], c), Drop([P EXCEPT ![N[c]] = P[c]], c),
              Cls(s2))
    BY <1>3, <1>4, <2>1, RingOut
  <2> QED
    BY <2>2
<1>7. \A j \in Indices : g.pFreeNext[Box(j)] = N[Box(j)]
  <2> SUFFICES ASSUME NEW j \in Indices PROVE g.pFreeNext[Box(j)] = N[Box(j)]
    OBVIOUS
  <2>1. Box(j) \in D /\ Box(j) # c /\ Cls(sz)[Box(j)] = j
    BY <1>1, <1>3, ClassIs
  <2>2. Cls(sz)[P[c]] = Cls(sz)[c]
    BY <1>3, <1>5
  <2>3. Box(j) # P[c]
    BY <1>3, <2>1, <2>2 DEF Indices
  <2>4. g.pFreeNext[Box(j)] = [N EXCEPT ![P[c]] = N[c]][Box(j)]
    BY <1>5, <2>1 DEF Drop
  <2> QED
    BY <1>5, <2>1, <2>3, <2>4
<1>8. D \ {c} = DOMAIN s2 \cup Boxes
  BY <1>2, <1>3 DEF Shrunk
<1> QED
  BY <1>4, <1>6, <1>7, <1>8 DEF Ringed, s2

\* The heap after a node has gone from its place: r is there, or nothing.
Above(g, h, c, r) ==
  IF h.tree[h.Index[c]] = c
  THEN [g EXCEPT !.tree[h.Index[c]] = r,
                 !.TreeMap = IF r = NULL THEN @ \ {h.Index[c]} ELSE @]
  ELSE [g EXCEPT !.pChild[h.pParent[c]][IF g.pChild[h.pParent[c]][0] = c THEN 0 ELSE 1] = r]
SonsOf(g, c) == {b \in 0..1 : g.pChild[c][b] # NULL}
Below(g, h, c, r) ==
  [Above(g, h, c, r) EXCEPT
     !.pChild[r] = [b \in 0..1 |-> IF b \in SonsOf(g, c) THEN g.pChild[c][b] ELSE @[b]],
     !.pParent = [p \in DOMAIN @ |-> IF p = r THEN h.pParent[c]
                                     ELSE IF \E b \in SonsOf(g, c) : p = g.pChild[c][b] THEN r
                                     ELSE @[p]]]

\* The heap before that, in the three ways a chunk can leave.
LEMMA UnlinkIs ==
  ASSUME NEW h, NEW c
  PROVE  /\ h.pFreePrev[c] # c /\ h.pParent[c] = NULL /\ h.pFreePrev[c] # NULL =>
              unlink_large_chunk(h, c) = Forgotten(Unringed(h, c), c)
         /\ h.pFreePrev[c] # c /\ h.pParent[c] # NULL /\ h.pFreePrev[c] # NULL =>
              unlink_large_chunk(h, c)
                = Forgotten(Below(Unringed(h, c), h, c, h.pFreePrev[c]), c)
         /\ h.pFreePrev[c] = c /\ h.pParent[c] # NULL /\ Son(h, c) = NULL =>
              unlink_large_chunk(h, c) = Forgotten(Above(h, h, c, NULL), c)
         /\ h.pFreePrev[c] = c /\ h.pParent[c] # NULL /\ Son(h, c) # NULL
            /\ Son(h, last_leaf(h, c)) # NULL =>
              unlink_large_chunk(h, c)
                = Forgotten(Below([h EXCEPT !.pChild[last_leaf(h, c)][Way(h, last_leaf(h, c))] = NULL],
                                  h, c, Son(h, last_leaf(h, c))), c)
<1> DEFINE chained == h.pFreePrev[c] # c
           leafOf == last_leaf(h, c)
           replace == IF chained THEN h.pFreePrev[c]
                      ELSE IF Son(h, c) = NULL THEN NULL ELSE Son(h, leafOf)
           g == CASE chained        -> Unringed(h, c)
                  [] replace = NULL -> h
                  [] OTHER          -> [h EXCEPT !.pChild[leafOf][Way(h, leafOf)] = NULL]
           out == IF h.pParent[c] = NULL THEN g
                  ELSE IF replace = NULL THEN Above(g, h, c, replace)
                  ELSE Below(g, h, c, replace)
<1>1. unlink_large_chunk(h, c) = Forgotten(out, c)
  BY DEF unlink_large_chunk, Below, Above, SonsOf
<1>2. CASE chained /\ h.pFreePrev[c] # NULL
  <2>1. g = Unringed(h, c) /\ replace = h.pFreePrev[c]
    BY <1>2
  <2> HIDE DEF g, replace
  <2> QED
    BY <1>1, <1>2, <2>1
<1>3. CASE ~chained /\ Son(h, c) = NULL
  <2>1. replace = NULL
    BY <1>3
  <2>2. g = h
    BY <1>3, <2>1
  <2> HIDE DEF g, replace
  <2> QED
    BY <1>1, <1>3, <2>1, <2>2
<1>4. CASE ~chained /\ Son(h, c) # NULL /\ Son(h, leafOf) # NULL
  <2>1. replace = Son(h, leafOf)
    BY <1>4
  <2>2. g = [h EXCEPT !.pChild[leafOf][Way(h, leafOf)] = NULL]
    BY <1>4, <2>1
  <2> HIDE DEF g, replace
  <2> QED
    BY <1>1, <1>4, <2>1, <2>2
<1> QED
  BY <1>2, <1>3, <1>4

\* The parts of the heap with r in the place of c.
BelowParts(b, g, h, c, r) ==
  LET w == IF g.pChild[h.pParent[c]][0] = c THEN 0 ELSE 1
      A == IF h.tree[h.Index[c]] = c THEN g.pChild
           ELSE [g.pChild EXCEPT ![h.pParent[c]][w] = r]
  IN  /\ Record(b) /\ Heads(b, g)
      /\ b.pFreeNext = g.pFreeNext /\ b.pFreePrev = g.pFreePrev
      /\ b.SameMap = g.SameMap /\ b.Index = g.Index /\ b.TreeMap = g.TreeMap
      /\ b.tree = IF h.tree[h.Index[c]] = c THEN [g.tree EXCEPT ![h.Index[c]] = r] ELSE g.tree
      /\ b.pChild = [A EXCEPT ![r] = [e \in 0..1 |-> IF e \in SonsOf(g, c) THEN g.pChild[c][e]
                                                     ELSE A[r][e]]]
      /\ b.pParent = [p \in DOMAIN g.pParent |->
                        IF p = r THEN h.pParent[c]
                        ELSE IF \E e \in SonsOf(g, c) : p = g.pChild[c][e] THEN r
                        ELSE g.pParent[p]]

\* The code that links r under the parent of c and over its sons writes just these parts.
LEMMA BelowIs ==
  ASSUME NEW g, NEW h, NEW c, NEW r, r # NULL, Record(g)
  PROVE  BelowParts(Below(g, h, c, r), g, h, c, r)
<1> DEFINE w == IF g.pChild[h.pParent[c]][0] = c THEN 0 ELSE 1
           A == IF h.tree[h.Index[c]] = c THEN g.pChild
                ELSE [g.pChild EXCEPT ![h.pParent[c]][w] = r]
<1> DEFINE a == Above(g, h, c, r)
<1>1. /\ Record(a) /\ Heads(a, g) /\ a.pFreeNext = g.pFreeNext /\ a.pFreePrev = g.pFreePrev
      /\ a.SameMap = g.SameMap /\ a.Index = g.Index /\ a.TreeMap = g.TreeMap
      /\ a.tree = IF h.tree[h.Index[c]] = c THEN [g.tree EXCEPT ![h.Index[c]] = r] ELSE g.tree
      /\ a.pChild = A /\ a.pParent = g.pParent
  <2>1. CASE h.tree[h.Index[c]] = c
    BY <2>1 DEF Above, Record, Fields, Heads
  <2>2. CASE h.tree[h.Index[c]] # c
    BY <2>2 DEF Above, Record, Fields, Heads
  <2> QED
    BY <2>1, <2>2
<1>2. Below(g, h, c, r) =
        [a EXCEPT
           !.pChild[r] = [b \in 0..1 |-> IF b \in SonsOf(g, c) THEN g.pChild[c][b] ELSE @[b]],
           !.pParent = [p \in DOMAIN @ |-> IF p = r THEN h.pParent[c]
                                     ELSE IF \E b \in SonsOf(g, c) : p = g.pChild[c][b] THEN r
                                     ELSE @[p]]]
  BY DEF Below
<1> DEFINE C2 == [A EXCEPT ![r] = [b \in 0..1 |-> IF b \in SonsOf(g, c) THEN g.pChild[c][b]
                                                  ELSE A[r][b]]]
           P2 == [p \in DOMAIN g.pParent |-> IF p = r THEN h.pParent[c]
                                            ELSE IF \E b \in SonsOf(g, c) : p = g.pChild[c][b]
                                            THEN r ELSE g.pParent[p]]
<1>3. Below(g, h, c, r) =
        [a EXCEPT
           !.pChild = [a.pChild EXCEPT ![r] = [b \in 0..1 |-> IF b \in SonsOf(g, c)
                                                              THEN g.pChild[c][b]
                                                              ELSE a.pChild[r][b]]],
           !.pParent = [p \in DOMAIN a.pParent |-> IF p = r THEN h.pParent[c]
                                     ELSE IF \E b \in SonsOf(g, c) : p = g.pChild[c][b] THEN r
                                     ELSE a.pParent[p]]]
  BY <1>1, <1>2 DEF Record, Fields
<1> HIDE DEF a
<1>4. Below(g, h, c, r) = [a EXCEPT !.pChild = C2, !.pParent = P2]
  BY <1>1, <1>3
<1> HIDE DEF C2, P2
<1>5. LET z == [a EXCEPT !.pChild = C2, !.pParent = P2]
      IN  /\ Record(z) /\ Heads(z, g) /\ z.pFreeNext = g.pFreeNext
          /\ z.pFreePrev = g.pFreePrev /\ z.SameMap = g.SameMap /\ z.Index = g.Index
          /\ z.TreeMap = g.TreeMap /\ z.tree = a.tree
          /\ z.pChild = C2 /\ z.pParent = P2
  BY <1>1 DEF Record, Fields, Heads
<1> DEFINE z == [a EXCEPT !.pChild = C2, !.pParent = P2]
<1>6. /\ Record(z) /\ Heads(z, g) /\ z.pFreeNext = g.pFreeNext
      /\ z.pFreePrev = g.pFreePrev /\ z.SameMap = g.SameMap /\ z.Index = g.Index
      /\ z.TreeMap = g.TreeMap
      /\ z.tree = IF h.tree[h.Index[c]] = c THEN [g.tree EXCEPT ![h.Index[c]] = r] ELSE g.tree
      /\ z.pChild = C2 /\ z.pParent = P2
  BY <1>1, <1>5
<1> HIDE DEF z
<1>7. BelowParts(z, g, h, c, r)
  BY <1>6 DEF BelowParts, C2, P2, A
<1> QED
  BY <1>4, <1>7 DEF z

\* What has to be shown of a heap to know that it is right without c.
LEMMA Gone ==
  ASSUME NEW h, NEW sz, Listed(h, sz), NEW c \in Large(sz), NEW b, Record(b), Heads(b, h),
         Drop(b.pFreeNext, c)
           = Drop([h.pFreeNext EXCEPT ![h.pFreePrev[c]] = h.pFreeNext[c]], c),
         Drop(b.pFreePrev, c)
           = Drop([h.pFreePrev EXCEPT ![h.pFreeNext[c]] = h.pFreePrev[c]], c),
         b.SameMap = h.SameMap, b.Index = h.Index,
         b.TreeMap = {i \in Indices : b.tree[i] # NULL},
         Drop(b.pParent, c) \in [Large(sz) \ {c} -> Int],
         NodesRight(Drop(b.pParent, c), Drop(sz, c)),
         \E dep : Trie(Large(sz) \ {c}, Drop(Uses(sz), c), Drop(b.pChild, c),
                       Drop(b.pParent, c), Drop(h.Index, c), b.tree, dep)
  PROVE  Listed(Forgotten(b, c), Drop(sz, c)) /\ Heads(Forgotten(b, c), h)
<1> DEFINE g == Forgotten(b, c)
           s2 == Drop(sz, c)
<1>1. Record(h) /\ Sized(sz) /\ Ringed(h, sz) /\ Treed(h, sz)
  BY DEF Listed
<1>2. /\ Record(g) /\ Heads(g, b) /\ g.SameMap = h.SameMap /\ g.TreeMap = b.TreeMap
      /\ g.tree = b.tree
      /\ g.pFreeNext = Drop(b.pFreeNext, c) /\ g.pFreePrev = Drop(b.pFreePrev, c)
      /\ g.pChild = Drop(b.pChild, c) /\ g.pParent = Drop(b.pParent, c)
      /\ g.Index = Drop(h.Index, c)
  BY ForgottenIs
<1>3. c \in DOMAIN sz /\ Shrunk(s2, sz, c)
  BY <1>1, SizesDrop DEF Large
<1>4. /\ Sized(s2) /\ Large(s2) = Large(sz) \ {c} /\ Uses(s2) = Drop(Uses(sz), c)
      /\ \A x \in DOMAIN sz \ {c} : s2[x] = sz[x]
  BY <1>3 DEF Shrunk
<1> HIDE DEF g
<1>5. Ringed(g, s2)
  BY <1>2, LargeRing
<1> HIDE DEF s2
<1>6. \A x \in Large(s2) : g.Index[x] = tree_size_to_index(s2[x] - ChunkHead)
  <2>1. DOMAIN h.Index = Large(sz)
    <3>1. \E dep : Trie(Large(sz), Uses(sz), h.pChild, h.pParent, h.Index, h.tree, dep)
      BY <1>1 DEF Treed
    <3> QED
      BY <3>1 DEF Trie, TrieType
  <2>2. \A x \in Large(s2) : x \in Large(sz) /\ x # c /\ s2[x] = sz[x] /\ g.Index[x] = h.Index[x]
    BY <1>2, <1>4, <2>1 DEF Drop, Large
  <2>3. \A x \in Large(sz) : h.Index[x] = tree_size_to_index(sz[x] - ChunkHead)
    BY <1>1 DEF Treed
  <2> QED
    BY <2>2, <2>3
<1>7. g.pParent \in [Large(s2) -> Int] /\ g.TreeMap = {i \in Indices : g.tree[i] # NULL}
      /\ NodesRight(g.pParent, s2)
  BY <1>2, <1>4 DEF s2
<1>8. \E dep : Trie(Large(s2), Uses(s2), g.pChild, g.pParent, g.Index, g.tree, dep)
  BY <1>2, <1>4
<1>9. Treed(g, s2)
  BY <1>6, <1>7, <1>8 DEF Treed
<1>10. Listed(g, s2)
  BY <1>2, <1>4, <1>5, <1>9 DEF Listed
<1>11. Heads(g, h)
  BY <1>2 DEF Heads
<1> QED
  BY <1>10, <1>11 DEF g, s2

\* The nodes that are left: all when c was none, those but c when it was the only chunk
\* of its size, and with another of its size for c otherwise.
LEMMA NodesLeft ==
  ASSUME NEW sz, Sized(sz), NEW c \in Large(sz), NEW Pa, NodesRight(Pa, sz), NEW Pa2,
         \/ /\ c \notin Nodes(Large(sz), Pa)
            /\ Nodes(Large(sz) \ {c}, Pa2) = Nodes(Large(sz), Pa)
         \/ /\ \A x \in Large(sz) : sz[x] = sz[c] => x = c
            /\ Nodes(Large(sz) \ {c}, Pa2) = Nodes(Large(sz), Pa) \ {c}
         \/ \E r \in Large(sz) \ {c} :
              /\ sz[r] = sz[c] /\ c \in Nodes(Large(sz), Pa)
              /\ Nodes(Large(sz) \ {c}, Pa2) = (Nodes(Large(sz), Pa) \ {c}) \cup {r}
  PROVE  NodesRight(Pa2, Drop(sz, c))
<1> DEFINE s2 == Drop(sz, c)
           N1 == Nodes(Large(sz), Pa)
           N2 == Nodes(Large(sz) \ {c}, Pa2)
<1>1. /\ Large(s2) = Large(sz) \ {c}
      /\ \A x \in Large(sz) \ {c} : s2[x] = sz[x]
  <2>1. c \in DOMAIN sz /\ Shrunk(s2, sz, c)
    BY SizesDrop DEF Large
  <2> HIDE DEF s2
  <2> QED
    BY <2>1 DEF Shrunk, Large
<1>2. /\ \A x \in Large(sz) : \E q \in N1 : sz[q] = sz[x]
      /\ \A p, q \in N1 : sz[p] = sz[q] => p = q
  BY DEF NodesRight
<1>3. N2 \subseteq Large(sz) \ {c} /\ N1 \subseteq Large(sz)
  BY DEF Nodes
<1> SUFFICES /\ \A x \in Large(sz) \ {c} : \E q \in N2 : sz[q] = sz[x]
             /\ \A p, q \in N2 : sz[p] = sz[q] => p = q
  <2> HIDE DEF s2
  <2>1. NodesRight(Pa2, s2)
    BY <1>1, <1>3 DEF NodesRight
  <2> QED
    BY <2>1 DEF s2
<1>4. CASE c \notin N1 /\ N2 = N1
  BY <1>2, <1>4
<1>5. CASE (\A x \in Large(sz) : sz[x] = sz[c] => x = c) /\ N2 = N1 \ {c}
  <2>1. ASSUME NEW x \in Large(sz) \ {c} PROVE \E q \in N2 : sz[q] = sz[x]
    BY <1>2, <1>5
  <2> QED
    BY <1>2, <1>5, <2>1
<1>6. ASSUME NEW r \in Large(sz) \ {c}, sz[r] = sz[c], c \in N1, N2 = (N1 \ {c}) \cup {r}
      PROVE  /\ \A x \in Large(sz) \ {c} : \E q \in N2 : sz[q] = sz[x]
             /\ \A p, q \in N2 : sz[p] = sz[q] => p = q
  <2> HIDE DEF N1, N2
  <2>1. ASSUME NEW x \in Large(sz) \ {c} PROVE \E q \in N2 : sz[q] = sz[x]
    <3>1. PICK q \in N1 : sz[q] = sz[x]
      BY <1>2
    <3> QED
      BY <1>6, <3>1
  <2>2. ASSUME NEW p \in N2, NEW q \in N2, sz[p] = sz[q] PROVE p = q
    BY <1>2, <1>6, <2>2
  <2> QED
    BY <2>1, <2>2
<1> QED
  BY <1>4, <1>5, <1>6

\* Another chunk takes the place of a node that leaves.
LEMMA NodeOut ==
  ASSUME NEW h, NEW sz, Listed(h, sz), NEW c \in Large(sz), h.pParent[c] # NULL,
         NEW g, Record(g), Heads(g, h),
         Drop(g.pFreeNext, c)
           = Drop([h.pFreeNext EXCEPT ![h.pFreePrev[c]] = h.pFreeNext[c]], c),
         Drop(g.pFreePrev, c)
           = Drop([h.pFreePrev EXCEPT ![h.pFreeNext[c]] = h.pFreePrev[c]], c),
         g.SameMap = h.SameMap, g.Index = h.Index, g.TreeMap = h.TreeMap, g.tree = h.tree,
         g.pParent = h.pParent,
         NEW r \in Large(sz), r # c, NEW Pa, NEW dep,
         Trie(Large(sz), Uses(sz), g.pChild, Pa, h.Index, h.tree, dep), Pa[r] = NULL,
         \A x \in Large(sz) \ {r} : h.pParent[x] = Pa[x],
         h.Index[r] = h.Index[c],
         Prefix(Uses(sz)[r], h.Index[c], dep[c]) = Prefix(Uses(sz)[c], h.Index[c], dep[c]),
         \/ sz[r] = sz[c] /\ h.pParent[r] = NULL
         \/ (\A x \in Large(sz) : sz[x] = sz[c] => x = c) /\ h.pParent[r] # NULL
  PROVE  /\ Listed(Forgotten(Below(g, h, c, r), c), Drop(sz, c))
         /\ Heads(Forgotten(Below(g, h, c, r), c), h)
<1> DEFINE L == Large(sz)
           b == Below(g, h, c, r)
           C == g.pChild
           Ix == h.Index
           tr == h.tree
           C2 == Drop(b.pChild, c)
           Pa2 == Drop(b.pParent, c)
<1>1. /\ Record(h) /\ Sized(sz) /\ h.pParent \in [L -> Int] /\ NodesRight(h.pParent, sz)
      /\ h.TreeMap = {i \in Indices : h.tree[i] # NULL}
  BY DEF Listed, Treed
<1>2. /\ TrieType(L, Uses(sz), C, Pa, Ix, tr, dep)
      /\ r # NULL /\ c # NULL /\ Pa[c] = h.pParent[c] /\ c \in Nodes(L, Pa)
  BY DEF Trie, TrieType, Nodes, NULL
<1>3. Ix[c] \in Indices /\ tr \in [Indices -> L \cup {NULL}]
  BY <1>2 DEF TrieType
<1>p. BelowParts(b, g, h, c, r)
  BY <1>2, BelowIs
<1>4. /\ Record(b) /\ Heads(b, g) /\ b.pFreeNext = g.pFreeNext /\ b.pFreePrev = g.pFreePrev
      /\ b.SameMap = g.SameMap /\ b.Index = g.Index /\ b.TreeMap = g.TreeMap
      /\ b.tree = IF tr[Ix[c]] = c THEN [tr EXCEPT ![Ix[c]] = r] ELSE tr
  <2> HIDE DEF b
  <2> QED
    BY <1>p DEF BelowParts
<1>5. Swapped(L, C, Pa, Ix, tr, c, r, h.pParent, C2, Pa2, b.tree)
  <2> DEFINE w == IF C[Pa[c]][0] = c THEN 0 ELSE 1
             A == IF tr[Ix[c]] = c THEN C ELSE [C EXCEPT ![Pa[c]][w] = r]
             sons == {e \in 0..1 : C[c][e] # NULL}
  <2> HIDE DEF b
  <2>1. b.pChild = [A EXCEPT ![r] = [e \in 0..1 |-> IF e \in SonsOf(g, c) THEN g.pChild[c][e]
                                                    ELSE A[r][e]]]
    BY SMTT(20), <1>2, <1>p DEF BelowParts
  <2>2. b.pParent = [p \in DOMAIN g.pParent |-> IF p = r THEN h.pParent[c]
                                            ELSE IF \E e \in SonsOf(g, c) : p = g.pChild[c][e]
                                            THEN r ELSE g.pParent[p]]
    BY <1>p DEF BelowParts
  <2>3. SonsOf(g, c) = sons /\ DOMAIN g.pParent = L
    BY <1>1 DEF SonsOf
  <2>4. C2 = Drop([A EXCEPT ![r] = [e \in 0..1 |-> IF e \in sons THEN C[c][e] ELSE A[r][e]]], c)
    BY <2>1, <2>3
  <2>5. Pa2 = Drop([p \in L |-> IF p = r THEN Pa[c]
                                ELSE IF \E e \in sons : p = C[c][e] THEN r ELSE h.pParent[p]], c)
    BY <1>2, <2>2, <2>3
  <2> HIDE DEF C2, Pa2, b, sons, A
  <2>6. /\ h.pParent \in [L -> Int] /\ \A x \in L \ {r} : h.pParent[x] = Pa[x]
        /\ C2 = Drop([A EXCEPT ![r] = [e \in 0..1 |-> IF e \in sons THEN C[c][e] ELSE A[r][e]]], c)
        /\ Pa2 = Drop([p \in L |-> IF p = r THEN Pa[c]
                                ELSE IF \E e \in sons : p = C[c][e] THEN r ELSE h.pParent[p]], c)
        /\ b.tree = IF tr[Ix[c]] = c THEN [tr EXCEPT ![Ix[c]] = r] ELSE tr
    BY <1>1, <1>4, <2>4, <2>5
  <2> QED
    BY <2>6 DEF Swapped, sons, A
<1> HIDE DEF b, C2, Pa2, L
<1>6. /\ \E dep2 : Trie(L \ {c}, Drop(Uses(sz), c), C2, Pa2, Drop(Ix, c), b.tree, dep2)
      /\ Nodes(L \ {c}, Pa2) = (Nodes(L, Pa) \ {c}) \cup {r}
      /\ Pa2 \in [L \ {c} -> Int]
  <2>1. /\ Trie(L, Uses(sz), C, Pa, Ix, tr, dep) /\ c \in Nodes(L, Pa) /\ r \in L /\ Pa[r] = NULL
        /\ Ix[r] = Ix[c] /\ Prefix(Uses(sz)[r], Ix[c], dep[c]) = Prefix(Uses(sz)[c], Ix[c], dep[c])
    BY <1>1, <1>2 DEF L
  <2>2. Moved(L, Uses(sz), Pa, Ix, c, r, C2, Pa2, b.tree)
    <3> HIDE DEF C, Ix, tr
    <3> QED
      BY <1>5, <2>1, Replaced
  <2> QED
    BY <2>2 DEF Moved
<1>7. NodesRight(Pa2, Drop(sz, c))
  <2>1. /\ r \in L \ {c} /\ c \in L /\ \A x \in Nodes(L, h.pParent) : x \in L
        /\ c \in Nodes(L, h.pParent) /\ \A x \in Nodes(L, Pa) : x \in L
    BY DEF L, Nodes
  <2>2. \A x \in L \ {r} : x \in Nodes(L, Pa) <=> x \in Nodes(L, h.pParent)
    BY DEF L, Nodes
  <2>3. r \notin Nodes(L, Pa) /\ (r \in Nodes(L, h.pParent) <=> h.pParent[r] # NULL)
    BY <2>1 DEF Nodes
  <2>4. CASE sz[r] = sz[c] /\ h.pParent[r] = NULL
    <3>1. Nodes(L, Pa) = Nodes(L, h.pParent)
      BY SMTT(20), <2>1, <2>2, <2>3, <2>4
    <3>2. Nodes(L \ {c}, Pa2) = (Nodes(L, h.pParent) \ {c}) \cup {r}
      BY <1>6, <3>1
    <3> QED
      BY <1>1, <2>1, <2>4, <3>2, NodesLeft DEF L
  <2>5. CASE (\A x \in L : sz[x] = sz[c] => x = c) /\ h.pParent[r] # NULL
    <3>1. Nodes(L, Pa) = Nodes(L, h.pParent) \ {r}
      BY <2>1, <2>2, <2>3, <2>5
    <3>2. Nodes(L \ {c}, Pa2) = Nodes(L, h.pParent) \ {c}
      BY <1>6, <2>1, <2>3, <2>5, <3>1
    <3> QED
      BY <1>1, <2>1, <2>5, <3>2, NodesLeft DEF L
  <2> QED
    BY <2>4, <2>5 DEF L
<1>8. b.TreeMap = {i \in Indices : b.tree[i] # NULL}
  <2>1. CASE tr[Ix[c]] = c
    <3>1. b.tree = [tr EXCEPT ![Ix[c]] = r]
      BY <1>4, <2>1
    <3>2. \A i \in Indices : b.tree[i] # NULL <=> tr[i] # NULL
      BY <1>2, <1>3, <2>1, <3>1
    <3> QED
      BY <1>1, <1>4, <3>2
  <2>2. CASE tr[Ix[c]] # c
    BY <1>1, <1>4, <2>2
  <2> QED
    BY <2>1, <2>2
<1>9. Heads(b, h)
  BY <1>4 DEF Heads
<1>10. Listed(Forgotten(b, c), Drop(sz, c)) /\ Heads(Forgotten(b, c), h)
  <2>1. /\ Drop(b.pFreeNext, c)
             = Drop([h.pFreeNext EXCEPT ![h.pFreePrev[c]] = h.pFreeNext[c]], c)
        /\ Drop(b.pFreePrev, c)
             = Drop([h.pFreePrev EXCEPT ![h.pFreeNext[c]] = h.pFreePrev[c]], c)
        /\ b.SameMap = h.SameMap /\ b.Index = h.Index
    BY <1>4
  <2>2. Drop(b.pParent, c) \in [Large(sz) \ {c} -> Int]
    BY <1>6 DEF Pa2, L
  <2>3. NodesRight(Drop(b.pParent, c), Drop(sz, c))
    BY <1>7 DEF Pa2
  <2>4. \E dep2 : Trie(Large(sz) \ {c}, Drop(Uses(sz), c), Drop(b.pChild, c),
                       Drop(b.pParent, c), Drop(h.Index, c), b.tree, dep2)
    BY <1>6 DEF Pa2, C2, L
  <2> QED
    BY <1>4, <1>8, <1>9, <2>1, <2>2, <2>3, <2>4, Gone
<1> QED
  BY <1>10 DEF b

\* The chunk in front of a large one in its ring is large, and of its size; it is alone
\* when that is itself.
LEMMA Neighbour ==
  ASSUME NEW h, NEW sz, Listed(h, sz), NEW c \in Large(sz)
  PROVE  /\ h.pFreePrev[c] \in Large(sz) /\ sz[h.pFreePrev[c]] = sz[c] /\ h.pFreePrev[c] # NULL
         /\ h.Index[h.pFreePrev[c]] = h.Index[c]
         /\ Uses(sz)[h.pFreePrev[c]] = Uses(sz)[c]
         /\ h.pFreePrev[c] = c => /\ h.pFreeNext[c] = c
                                  /\ \A x \in Large(sz) : sz[x] = sz[c] => x = c
<1> DEFINE D == DOMAIN sz \cup Boxes
           N == h.pFreeNext
           P == h.pFreePrev
           p == P[c]
<1>1. Record(h) /\ Sized(sz) /\ Ringed(h, sz) /\ Treed(h, sz)
  BY DEF Listed
<1>2. /\ c \in DOMAIN sz /\ c \in D /\ Cls(sz)[c] = sz[c] /\ sz[c] > 264
      /\ sz[c] \in Nat
  BY <1>1, ClassIs
<1>3. Rings(D, N, P, Cls(sz))
  BY <1>1 DEF Ringed
<1>4. /\ N \in [D -> D] /\ P \in [D -> D]
      /\ \A x \in D : P[N[x]] = x /\ N[P[x]] = x /\ Cls(sz)[N[x]] = Cls(sz)[x]
  BY <1>3 DEF Rings, Linking
<1>5. p \in D /\ N[p] = c /\ Cls(sz)[p] = sz[c]
  BY <1>2, <1>4
<1> HIDE DEF p
<1>6. p \notin Boxes
  <2>1. \A i \in Indices : Cls(sz)[Box(i)] = i
    BY <1>1, ClassIs
  <2>2. \A x \in Boxes : Cls(sz)[x] \in Indices
    BY <2>1 DEF Boxes
  <2> QED
    BY <1>2, <1>5, <2>2 DEF Indices
<1>7. p \in Large(sz)
  <2>1. p \in DOMAIN sz \ Large(sz) => Cls(sz)[p] \in Indices
    BY <1>1, ClassIs
  <2> QED
    BY <1>2, <1>5, <1>6, <2>1 DEF Indices
<1>8. Cls(sz)[p] = sz[p] /\ p # NULL
  BY <1>1, <1>7, ClassIs DEF Large
<1>9. h.Index[p] = h.Index[c] /\ Uses(sz)[p] = Uses(sz)[c]
  BY <1>1, <1>5, <1>7, <1>8 DEF Treed, Uses
<1>10. ASSUME p = c PROVE N[c] = c /\ \A x \in Large(sz) : sz[x] = sz[c] => x = c
  <2>1. N[c] = c
    BY <1>5, <1>10
  <2>2. \A x \in Large(sz) : x \in D /\ Cls(sz)[x] = sz[x]
    BY <1>1, ClassIs
  <2> HIDE DEF D, N, P
  <2>3. \A x \in D : Cls(sz)[x] = Cls(sz)[c] => x = c
    BY <1>2, <1>3, <2>1, RingSingle
  <2> QED
    BY <1>2, <2>1, <2>2, <2>3
<1> QED
  BY <1>5, <1>7, <1>8, <1>9, <1>10 DEF p

\* A chunk leaves a ring of several.
LEMMA ChainedOut ==
  ASSUME NEW h, NEW sz, Listed(h, sz), NEW c \in Large(sz), h.pFreePrev[c] # c
  PROVE  Listed(unlink_large_chunk(h, c), Drop(sz, c)) /\ Heads(unlink_large_chunk(h, c), h)
<1> DEFINE L == Large(sz)
           r == h.pFreePrev[c]
           g == Unringed(h, c)
           Pa == h.pParent
<1>1. /\ Record(h) /\ Sized(sz) /\ Pa \in [L -> Int] /\ NodesRight(Pa, sz)
      /\ h.TreeMap = {i \in Indices : h.tree[i] # NULL}
  BY DEF Listed, Treed
<1>2. r \in L /\ sz[r] = sz[c] /\ r # NULL /\ h.Index[r] = h.Index[c] /\ Uses(sz)[r] = Uses(sz)[c]
  BY Neighbour
<1>3. PICK dep : Trie(L, Uses(sz), h.pChild, Pa, h.Index, h.tree, dep)
  BY DEF Listed, Treed
<1>4. /\ Record(g) /\ Heads(g, h) /\ g.SameMap = h.SameMap /\ g.Index = h.Index
      /\ g.TreeMap = h.TreeMap /\ g.tree = h.tree /\ g.pParent = h.pParent /\ g.pChild = h.pChild
      /\ g.pFreeNext = [h.pFreeNext EXCEPT ![h.pFreePrev[c]] = h.pFreeNext[c]]
      /\ g.pFreePrev = [h.pFreePrev EXCEPT ![h.pFreeNext[c]] = h.pFreePrev[c]]
  BY <1>1 DEF Unringed, Record, Fields, Heads
<1> HIDE DEF g
<1>5. CASE Pa[c] = NULL
  <2>1. unlink_large_chunk(h, c) = Forgotten(g, c)
    BY <1>2, <1>5, UnlinkIs DEF g
  <2>2. Drop(Pa, c) \in [L \ {c} -> Int] /\ \A x \in L \ {c} : Drop(Pa, c)[x] = Pa[x]
    BY <1>1 DEF Drop
  <2>3. Nodes(L \ {c}, Drop(Pa, c)) = Nodes(L, Pa) /\ c \notin Nodes(L, Pa)
    BY <1>5, <2>2 DEF Nodes
  <2>4. NodesRight(Drop(Pa, c), Drop(sz, c))
    BY <1>1, <2>3, NodesLeft
  <2>5. Trie(L \ {c}, Drop(Uses(sz), c), Drop(h.pChild, c), Drop(Pa, c), Drop(h.Index, c),
             h.tree, Drop(dep, c))
    <3> HIDE DEF L, Pa
    <3>1. c \in L
      BY DEF L
    <3> QED
      BY <1>3, <1>5, <3>1, TrieDrop
  <2>6. \E d : Trie(Large(sz) \ {c}, Drop(Uses(sz), c), Drop(g.pChild, c), Drop(g.pParent, c),
                    Drop(h.Index, c), g.tree, d)
    BY <1>4, <2>5
  <2>7. /\ Drop(g.pParent, c) \in [Large(sz) \ {c} -> Int]
        /\ NodesRight(Drop(g.pParent, c), Drop(sz, c))
        /\ g.TreeMap = {i \in Indices : g.tree[i] # NULL}
    BY <1>1, <1>4, <2>2, <2>4
  <2> QED
    BY SMTT(20), <1>4, <2>1, <2>6, <2>7, Gone
<1>6. CASE Pa[c] # NULL
  <2>1. unlink_large_chunk(h, c) = Forgotten(Below(g, h, c, r), c)
    BY <1>2, <1>6, UnlinkIs DEF g
  <2>2. Pa[r] = NULL
    <3>1. c \in Nodes(L, Pa)
      BY <1>6 DEF Nodes
    <3>2. Pa[r] # NULL => r \in Nodes(L, Pa)
      BY <1>2 DEF Nodes
    <3> QED
      BY <1>1, <1>2, <3>1, <3>2 DEF NodesRight
  <2>3. /\ Trie(Large(sz), Uses(sz), g.pChild, Pa, h.Index, h.tree, dep)
        /\ \A x \in Large(sz) \ {r} : h.pParent[x] = Pa[x]
        /\ Prefix(Uses(sz)[r], h.Index[c], dep[c]) = Prefix(Uses(sz)[c], h.Index[c], dep[c])
    BY <1>2, <1>3, <1>4
  <2>4. r \in Large(sz) /\ r # c
    BY <1>2
  <2>5. sz[r] = sz[c] /\ h.pParent[r] = NULL
    BY <1>2, <2>2
  <2>6. Listed(Forgotten(Below(g, h, c, r), c), Drop(sz, c))
        /\ Heads(Forgotten(Below(g, h, c, r), c), h)
    <3> HIDE DEF r
    <3> QED
      BY <1>2, <1>4, <1>6, <2>2, <2>3, <2>4, <2>5, NodeOut
  <2> QED
    BY <2>1, <2>6
<1> QED
  BY <1>5, <1>6

\* A node with nothing below it, the last of its size, leaves.
LEMMA BareOut ==
  ASSUME NEW h, NEW sz, Listed(h, sz), NEW c \in Large(sz), h.pFreePrev[c] = c, Son(h, c) = NULL
  PROVE  Listed(unlink_large_chunk(h, c), Drop(sz, c)) /\ Heads(unlink_large_chunk(h, c), h)
<1> DEFINE L == Large(sz)
           C == h.pChild
           Pa == h.pParent
           Ix == h.Index
           tr == h.tree
           i == Ix[c]
           b == Above(h, h, c, NULL)
           w == IF C[Pa[c]][0] = c THEN 0 ELSE 1
           Pb == [Pa EXCEPT ![c] = NULL]
<1>1. /\ Record(h) /\ Sized(sz) /\ Pa \in [L -> Int] /\ NodesRight(Pa, sz)
      /\ h.TreeMap = {j \in Indices : tr[j] # NULL}
  BY DEF Listed, Treed
<1>2. h.pFreeNext[c] = c /\ \A x \in L : sz[x] = sz[c] => x = c
  BY Neighbour
<1>3. PICK dep : Trie(L, Uses(sz), C, Pa, Ix, tr, dep)
  BY DEF Listed, Treed
<1>4. c \in Nodes(L, Pa) /\ Pa[c] # NULL
  <2>1. \E q \in Nodes(L, Pa) : sz[q] = sz[c]
    BY <1>1 DEF NodesRight
  <2> QED
    BY <1>2, <2>1 DEF Nodes
<1>5. \A e \in 0..1 : C[c][e] = NULL
  BY DEF Son, Way
<1>6. /\ \A j \in Indices : tr[j] = c => j = i
      /\ tr[i] # c => Pa[c] \in Nodes(L, Pa) /\ w \in 0..1 /\ C[Pa[c]][w] = c
  <2> HIDE DEF L, C, Pa, Ix, tr, w
  <2>1. w = IF C[Pa[c]][0] = c THEN 0 ELSE 1
    BY DEF w
  <2> QED
    BY <1>3, <1>4, <2>1, Place DEF i
<1>7. i \in Indices /\ c # NULL /\ tr \in [Indices -> L \cup {NULL}]
  BY <1>3 DEF Trie, TrieType, NULL
<1>8. unlink_large_chunk(h, c) = Forgotten(b, c)
  BY <1>4, UnlinkIs
<1>9. /\ Record(b) /\ Heads(b, h) /\ b.SameMap = h.SameMap /\ b.Index = h.Index
      /\ b.pParent = h.pParent /\ b.pFreeNext = h.pFreeNext /\ b.pFreePrev = h.pFreePrev
      /\ tr[i] = c => /\ b.tree = [tr EXCEPT ![i] = NULL] /\ b.TreeMap = h.TreeMap \ {i}
                      /\ b.pChild = C
      /\ tr[i] # c => /\ b.tree = tr /\ b.TreeMap = h.TreeMap
                      /\ b.pChild = [C EXCEPT ![Pa[c]][w] = NULL]
  BY <1>1 DEF Above, Record, Fields, Heads
<1> HIDE DEF b
<1>10. Trie(L, Uses(sz), b.pChild, Pb, Ix, b.tree, dep)
  <2>1. CASE tr[i] = c
    <3>1. /\ i \in Indices /\ tr[i] = c /\ c # NULL /\ \A e \in 0..1 : C[c][e] = NULL
      BY <1>5, <1>7, <2>1
    <3>2. Trie(L, Uses(sz), C, Pb, Ix, [tr EXCEPT ![i] = NULL], dep)
      <4> HIDE DEF L, C, Ix, tr, i, Pa
      <4> QED
        BY <1>3, <3>1, TrieDetachRoot
    <3> QED
      BY <1>9, <2>1, <3>2
  <2>2. CASE tr[i] # c
    <3> DEFINE q == Pa[c]
    <3>1. /\ q \in L /\ w \in 0..1 /\ C[q][w] = c /\ c # NULL /\ \A e \in 0..1 : C[c][e] = NULL
      BY <1>5, <1>6, <1>7, <2>2 DEF Nodes
    <3>2. Trie(L, Uses(sz), [C EXCEPT ![q][w] = NULL], Pb, Ix, tr, dep)
      <4> HIDE DEF L, C, Ix, tr, i, Pa, w, q
      <4> QED
        BY <1>3, <3>1, TrieDetach
    <3> QED
      BY <1>9, <2>2, <3>2
  <2> QED
    BY <2>1, <2>2
<1>11. Drop(Pb, c) = Drop(Pa, c) /\ Pb[c] = NULL
  BY <1>1 DEF Drop
<1>12. \E d : Trie(L \ {c}, Drop(Uses(sz), c), Drop(b.pChild, c), Drop(Pa, c), Drop(Ix, c), b.tree, d)
  <2>1. Trie(L \ {c}, Drop(Uses(sz), c), Drop(b.pChild, c), Drop(Pb, c), Drop(Ix, c), b.tree,
             Drop(dep, c))
    <3>1. c \in L /\ Pb[c] = NULL
      BY <1>11
    <3> HIDE DEF L, Pb, Ix
    <3> QED
      BY <1>10, <3>1, TrieDrop
  <2> QED
    BY <1>11, <2>1
<1>13. b.TreeMap = {j \in Indices : b.tree[j] # NULL}
  <2>1. CASE tr[i] = c
    <3>1. \A j \in Indices : b.tree[j] = IF j = i THEN NULL ELSE tr[j]
      BY <1>7, <1>9, <2>1
    <3> QED
      BY <1>1, <1>9, <2>1, <3>1
  <2>2. CASE tr[i] # c
    BY <1>1, <1>9, <2>2
  <2> QED
    BY <2>1, <2>2
<1>14. /\ Drop(b.pParent, c) \in [L \ {c} -> Int]
       /\ NodesRight(Drop(b.pParent, c), Drop(sz, c))
  <2>1. Drop(Pa, c) \in [L \ {c} -> Int] /\ \A x \in L \ {c} : Drop(Pa, c)[x] = Pa[x]
    BY <1>1 DEF Drop
  <2>2. Nodes(L \ {c}, Drop(Pa, c)) = Nodes(L, Pa) \ {c}
    BY <2>1 DEF Nodes
  <2>3. NodesRight(Drop(Pa, c), Drop(sz, c))
    BY <1>1, <1>2, <2>2, NodesLeft
  <2> QED
    BY <1>9, <2>1, <2>3
<1>15. /\ Drop(b.pFreeNext, c) = Drop([h.pFreeNext EXCEPT ![h.pFreePrev[c]] = h.pFreeNext[c]], c)
       /\ Drop(b.pFreePrev, c) = Drop([h.pFreePrev EXCEPT ![h.pFreeNext[c]] = h.pFreePrev[c]], c)
  <2>1. /\ [h.pFreeNext EXCEPT ![c] = h.pFreeNext[c]] = h.pFreeNext
        /\ [h.pFreePrev EXCEPT ![c] = h.pFreePrev[c]] = h.pFreePrev
    BY DEF Listed, Ringed, Rings, Linking
  <2> QED
    BY <1>2, <1>9, <2>1
<1>16. \E d : Trie(Large(sz) \ {c}, Drop(Uses(sz), c), Drop(b.pChild, c), Drop(b.pParent, c),
                   Drop(h.Index, c), b.tree, d)
  BY <1>9, <1>12
<1> HIDE DEF L, Pa, tr, Ix, C, i
<1>17. Listed(Forgotten(b, c), Drop(sz, c)) /\ Heads(Forgotten(b, c), h)
  <2>1. Record(b) /\ Heads(b, h) /\ b.SameMap = h.SameMap /\ b.Index = h.Index
    BY <1>9
  <2>2. Drop(b.pParent, c) \in [Large(sz) \ {c} -> Int]
    BY <1>14 DEF L
  <2>3. NodesRight(Drop(b.pParent, c), Drop(sz, c))
    BY <1>14
  <2> QED
    BY <1>13, <1>15, <1>16, <2>1, <2>2, <2>3, Gone
<1> QED
  BY <1>8, <1>17

\* A node, the last of its size, leaves, and the last leaf below it takes its place.
LEMMA LeafOut ==
  ASSUME NEW h, NEW sz, Listed(h, sz), NEW c \in Large(sz), h.pFreePrev[c] = c, Son(h, c) # NULL
  PROVE  Listed(unlink_large_chunk(h, c), Drop(sz, c)) /\ Heads(unlink_large_chunk(h, c), h)
<1> DEFINE L == Large(sz)
           C == h.pChild
           Pa == h.pParent
           Ix == h.Index
           tr == h.tree
           q == last_leaf(h, c)
           w == Way(h, q)
           r == Son(h, q)
           g == [h EXCEPT !.pChild[q][w] = NULL]
           Pb == [Pa EXCEPT ![r] = NULL]
<1>1. Record(h) /\ Sized(sz) /\ Pa \in [L -> Int] /\ NodesRight(Pa, sz)
  BY DEF Listed, Treed
<1>2. h.pFreeNext[c] = c /\ \A x \in L : sz[x] = sz[c] => x = c
  BY Neighbour
<1>3. PICK dep : Trie(L, Uses(sz), C, Pa, Ix, tr, dep)
  BY DEF Listed, Treed
<1>4. c \in Nodes(L, Pa) /\ Pa[c] # NULL
  <2>1. \E x \in Nodes(L, Pa) : sz[x] = sz[c]
    BY <1>1 DEF NodesRight
  <2> QED
    BY <1>2, <2>1 DEF Nodes
<1>5. /\ q \in Nodes(L, Pa) /\ w \in 0..1 /\ r \in Nodes(L, Pa)
      /\ Under(L, Uses(sz), Pa, Ix, dep, c, r) /\ r # c
      /\ \A e \in 0..1 : C[r][e] = NULL
  <2> HIDE DEF L, Pa, Ix, tr
  <2>1. Trie(L, Uses(sz), h.pChild, Pa, Ix, tr, dep)
    BY <1>3
  <2>2. RightAbove(h, L, Uses(sz), Pa, Ix, dep, c, last_leaf(h, c))
    BY <1>4, <2>1, LeafOf
  <2> QED
    BY <2>2 DEF RightAbove
<1>6. C[q][w] = r /\ r # NULL /\ r \in L /\ q \in L /\ Pa[r] # NULL
  <2>1. C[q][w] = r
    BY DEF Son
  <2>2. r \in L /\ q \in L /\ Pa[r] # NULL
    BY <1>5 DEF Nodes
  <2>3. NULL \notin L
    BY <1>3 DEF Trie, TrieType, NULL
  <2> HIDE DEF r
  <2> QED
    BY <2>1, <2>2, <2>3
<1>7. unlink_large_chunk(h, c) = Forgotten(Below(g, h, c, r), c)
  BY <1>4, <1>6, UnlinkIs
<1>8. /\ Record(g) /\ Heads(g, h) /\ g.SameMap = h.SameMap /\ g.Index = h.Index
      /\ g.TreeMap = h.TreeMap /\ g.tree = h.tree /\ g.pParent = h.pParent
      /\ g.pFreeNext = h.pFreeNext /\ g.pFreePrev = h.pFreePrev
      /\ g.pChild = [C EXCEPT ![q][w] = NULL]
  BY <1>1 DEF Record, Fields, Heads
<1> HIDE DEF g, q, w, r
<1>9. Trie(L, Uses(sz), g.pChild, Pb, Ix, tr, dep)
  <2>1. Trie(L, Uses(sz), [C EXCEPT ![q][w] = NULL], Pb, Ix, tr, dep)
    <3> HIDE DEF L, C, Ix, tr, Pa
    <3> QED
      BY <1>3, <1>5, <1>6, TrieDetach
  <2> QED
    BY <1>8, <2>1
<1>10. /\ Pb[r] = NULL /\ \A x \in Large(sz) \ {r} : h.pParent[x] = Pb[x]
  BY <1>1, <1>6
<1>11. /\ Ix[r] = Ix[c]
       /\ Prefix(Uses(sz)[r], Ix[c], dep[c]) = Prefix(Uses(sz)[c], Ix[c], dep[c])
  BY <1>5 DEF Under
<1>12. /\ Drop(g.pFreeNext, c) = Drop([h.pFreeNext EXCEPT ![h.pFreePrev[c]] = h.pFreeNext[c]], c)
       /\ Drop(g.pFreePrev, c) = Drop([h.pFreePrev EXCEPT ![h.pFreeNext[c]] = h.pFreePrev[c]], c)
  <2>1. /\ [h.pFreeNext EXCEPT ![c] = h.pFreeNext[c]] = h.pFreeNext
        /\ [h.pFreePrev EXCEPT ![c] = h.pFreePrev[c]] = h.pFreePrev
    BY DEF Listed, Ringed, Rings, Linking
  <2> QED
    BY <1>2, <1>8, <2>1
<1>13. /\ r \in Large(sz) /\ h.pParent[c] # NULL
       /\ Trie(Large(sz), Uses(sz), g.pChild, Pb, h.Index, h.tree, dep)
       /\ (\A x \in Large(sz) : sz[x] = sz[c] => x = c) /\ h.pParent[r] # NULL
       /\ h.Index[r] = h.Index[c]
       /\ Prefix(Uses(sz)[r], h.Index[c], dep[c]) = Prefix(Uses(sz)[c], h.Index[c], dep[c])
  BY <1>2, <1>4, <1>6, <1>9, <1>11
<1> HIDE DEF Pb
<1> QED
  BY <1>5, <1>7, <1>8, <1>10, <1>12, <1>13, NodeOut

\* A large chunk leaves its tree.
LEMMA LargeOut ==
  ASSUME NEW h, NEW sz, Listed(h, sz), NEW c \in Large(sz)
  PROVE  Listed(unlink_large_chunk(h, c), Drop(sz, c)) /\ Heads(unlink_large_chunk(h, c), h)
BY ChainedOut, BareOut, LeafOut

-----------------------------------------------------------------------------
\* The operations on the free chunks.

\* Unsigned arithmetic that does not wrap around, and that does.
LEMMA SubIs ==
  ASSUME NEW a \in 0 .. Modulus - 1, NEW b \in 0 .. Modulus - 1
  PROVE  /\ b <= a => Sub(a, b) = a - b
         /\ a < b => Sub(a, b) = (a + Modulus) - b
         /\ Sub(a, b) \in 0 .. Modulus - 1
<1>1. Modulus \in Nat \ {0}
  BY HeapAssumption
<1>2. CASE b <= a
  <2> DEFINE d == a - b
  <2>1. d \in 0 .. Modulus - 1
    BY <1>1, <1>2
  <2> HIDE DEF d
  <2>2. d % Modulus = d
    BY <1>1, <2>1
  <2> QED
    BY <1>2, <2>1, <2>2 DEF Sub, d
<1>3. CASE a < b
  <2> DEFINE d == (a - b) + Modulus
  <2>1. d \in 0 .. Modulus - 1 /\ a - b = d - Modulus
    BY <1>1, <1>3
  <2> HIDE DEF d
  <2>2. (d - Modulus) % Modulus = d
    BY <1>1, <2>1
  <2>3. Sub(a, b) = d
    BY <2>1, <2>2 DEF Sub
  <2> QED
    BY <1>1, <1>3, <2>1, <2>3 DEF d
<1> QED
  BY <1>2, <1>3

\* A chunk with room for its links is larger than its head.
LEMMA UseIs ==
  ASSUME NEW n \in MIN_CHUNK_SIZE .. Modulus - 1
  PROVE  Sub(n, ChunkHead) = n - ChunkHead /\ n \in Nat /\ Modulus > 16
<1>1. Modulus \in Nat \ {0} /\ n \in 16 .. Modulus - 1
  BY HeapAssumption DEF MIN_CHUNK_SIZE
<1>2. 8 \in 0 .. Modulus - 1 /\ n \in 0 .. Modulus - 1 /\ 8 <= n
  BY <1>1
<1>3. Sub(n, 8) = n - 8
  BY <1>2, SubIs
<1> QED
  BY <1>1, <1>3 DEF ChunkHead

\* A chunk that was not free is taken in.
LEMMA CheckIn ==
  ASSUME NEW h, NEW sz, Listed(h, sz), Fits(h, sz), NEW c \in Nat \ {0}, c \notin DOMAIN sz,
         NEW n \in MIN_CHUNK_SIZE .. Modulus - 1
  PROVE  /\ Listed(checkin_free_chunk(h, c, n), Put(sz, c, n))
         /\ Heads(checkin_free_chunk(h, c, n), h)
<1>1. Sub(n, ChunkHead) = n - ChunkHead /\ c # NULL
  BY UseIs DEF NULL
<1>2. CASE is_small(n - ChunkHead)
  <2>1. checkin_free_chunk(h, c, n) = insert_small_chunk(h, c, n - ChunkHead)
    BY <1>1, <1>2 DEF checkin_free_chunk
  <2> QED
    BY <1>2, <2>1, SmallIn
<1>3. CASE ~is_small(n - ChunkHead)
  <2>1. checkin_free_chunk(h, c, n) = insert_large_chunk(h, c, n - ChunkHead)
    BY <1>1, <1>3 DEF checkin_free_chunk
  <2> QED
    BY <1>3, <2>1, LargeIn
<1> QED
  BY <1>2, <1>3

\* A free chunk is taken out by its address.
LEMMA Unlink ==
  ASSUME NEW h, NEW sz, Listed(h, sz), NEW c \in DOMAIN sz
  PROVE  /\ Listed(unlink_chunk(h, c, Sub(sz[c], ChunkHead)), Drop(sz, c))
         /\ Heads(unlink_chunk(h, c, Sub(sz[c], ChunkHead)), h)
<1>1. sz[c] \in MIN_CHUNK_SIZE .. Modulus - 1
  BY DEF Listed, Sized
<1>2. Sub(sz[c], ChunkHead) = sz[c] - ChunkHead
  BY <1>1, UseIs
<1>3. CASE is_small(sz[c] - ChunkHead)
  <2>1. c \in DOMAIN sz \ Large(sz)
    BY <1>3 DEF Large
  <2> QED
    BY <1>2, <1>3, <2>1, SmallOut DEF unlink_chunk
<1>4. CASE ~is_small(sz[c] - ChunkHead)
  <2>1. c \in Large(sz)
    BY <1>4 DEF Large
  <2> QED
    BY <1>2, <1>4, <2>1, LargeOut DEF unlink_chunk
<1> QED
  BY <1>3, <1>4

\* The search down the left side of a tree comes back with the chunk it started from or
\* one that is closer.
LEMMA ClosestType ==
  ASSUME NEW h, NEW sz, Listed(h, sz), NEW p \in Large(sz) \cup {NULL}, NEW c, NEW n, NEW S,
         S \subseteq Large(sz) \cup {NULL}, c \in S,
         \A x \in Large(sz), y \in S : Closer(h, x, y, n) \in S
  PROVE  Closest(h, p, c, n) \in S
<1> DEFINE L == Large(sz)
           All == DOMAIN h.pChild \cup {NULL}
           left == [x \in All \X All |->
                      IF x[1] = NULL THEN x
                      ELSE <<letfmost_child(h, x[1]), Closer(h, x[1], x[2], n)>>]
           G == (L \cup {NULL}) \X S
<1>1. PICK dep : TrieType(L, Uses(sz), h.pChild, h.pParent, h.Index, h.tree, dep)
  BY DEF Listed, Treed, Trie
<1>2. DOMAIN h.pChild = L /\ All = L \cup {NULL}
  BY <1>1 DEF TrieType
<1>3. \A x \in L : letfmost_child(h, x) \in L \cup {NULL}
  BY <1>1 DEF TrieType, letfmost_child
<1>4. \A y \in G : left[y] \in G
  <2> SUFFICES ASSUME NEW y \in G PROVE left[y] \in G
    OBVIOUS
  <2>1. y[1] \in L \cup {NULL} /\ y[2] \in S /\ y \in All \X All
    BY <1>2
  <2>2. left[y] = IF y[1] = NULL THEN y
                  ELSE <<letfmost_child(h, y[1]), Closer(h, y[1], y[2], n)>>
    BY <2>1
  <2>3. y[1] # NULL => letfmost_child(h, y[1]) \in L \cup {NULL} /\ Closer(h, y[1], y[2], n) \in S
    BY <1>3, <2>1
  <2> HIDE DEF left
  <2> QED
    BY <2>2, <2>3
<1>5. <<p, c>> \in G /\ Levels \in Nat
  BY DEF Levels
<1>6. Loop(left, <<p, c>>, Levels) \in G
  <2> HIDE DEF left, G
  <2> QED
    BY <1>4, <1>5, LoopKeeps
<1>7. Closest(h, p, c, n) = Loop(left, <<p, c>>, Levels)[2]
  BY DEF Closest
<1> QED
  BY <1>6, <1>7

-----------------------------------------------------------------------------
\* Larger sizes.

\* Powers of two grow.
LEMMA PowersUp ==
  ASSUME NEW k \in 0..32, NEW j \in k..33
  PROVE  2^k <= 2^j /\ 2^k \in Nat \ {0} /\ 2^j \in Nat
<1> DEFINE Bad == {i \in k..33 : ~(2^i \in Nat /\ 2^k <= 2^i)}
<1>1. 2^k \in Nat \ {0}
  BY Powers
<1>2. Bad = {}
  <2> SUFFICES ASSUME Bad # {} PROVE FALSE
    OBVIOUS
  <2>1. Bad \in SUBSET Nat
    OBVIOUS
  <2>2. PICK i \in Bad : \A r \in Bad : i <= r
    BY <2>1, Least
  <2>3. i # k
    BY <1>1, <2>2
  <2>4. i - 1 \in k..33 /\ i - 1 \in 0..32 /\ i - 1 \notin Bad /\ (i - 1) + 1 = i
    BY <2>2, <2>3
  <2>5. 2^i = 2 * 2^(i - 1)
    BY <2>4, Powers
  <2>6. 2^(i - 1) \in Nat /\ 2^k <= 2^(i - 1)
    BY <2>4
  <2>7. 2^i \in Nat /\ 2^k <= 2^i
    BY <1>1, <2>5, <2>6
  <2> QED
    BY <2>2, <2>7
<1> QED
  BY <1>1, <1>2

\* Shifting keeps the order.
LEMMA DivUp ==
  ASSUME NEW a \in Nat, NEW b \in Nat, a <= b, NEW k \in Nat \ {0}
  PROVE  a \div k <= b \div k
<1> SUFFICES ASSUME a \div k > b \div k PROVE FALSE
  OBVIOUS
<1> DEFINE p == a \div k
           q == b \div k
<1>1. p \in Nat /\ q \in Nat /\ k * p <= a /\ b < (k * q) + k
  OBVIOUS
<1> HIDE DEF p, q
<1>2. p \in Nat /\ q \in Nat /\ p >= q + 1
  BY <1>1 DEF p, q
<1>3. k * p >= k * (q + 1)
  BY <1>2
<1>4. k * (q + 1) = (k * q) + k
  BY <1>1
<1> QED
  BY <1>1, <1>3, <1>4

\* Of two sizes the one with the smaller bits in front is smaller.
LEMMA PrefixLess ==
  ASSUME NEW a \in Nat, NEW b \in Nat, NEW i \in Indices, NEW d \in 0 .. Top(i) + 1
  PROVE  Prefix(a, i, d) < Prefix(b, i, d) => a < b
<1> DEFINE j == (Top(i) + 1) - d
<1>1. j \in 0..32
  BY TopType
<1>2. 2^j \in Nat \ {0}
  BY <1>1, Powers
<1>3. ASSUME b <= a PROVE b \div 2^j <= a \div 2^j
  BY <1>2, <1>3, DivUp
<1>4. a \div 2^j \in Nat /\ b \div 2^j \in Nat
  BY <1>1, ShiftOne
<1> QED
  BY <1>3, <1>4 DEF Prefix

\* The tree of a size below 2^24, worked out from its highest bit and the next one.
LEMMA IndexIs ==
  ASSUME NEW n \in Nat, n >= 256, n < 2^24
  PROVE  \E k \in 0..15 : LET m == 2^(k + 7)
                          IN  /\ m \in Nat \ {0} /\ 2 * m <= n /\ n < 4 * m
                              /\ n \div m \in 2..3
                              /\ tree_size_to_index(n) = ((2 * k) + (n \div m)) - 2
<1> DEFINE Fit(k) == 2^(k + 8) <= n /\ n < 2^(k + 9)
           K == CHOOSE k \in 0..15 : Fit(k)
           m == 2^(K + 7)
<1>1. n < 2^32 /\ ~(n < 2^8)
  OBVIOUS
<1>2. \E k \in 0..15 : Fit(k)
  <2>1. CASE n < 2^16
    <3>1. \/ Fit(0) \/ Fit(1) \/ Fit(2) \/ Fit(3) \/ Fit(4) \/ Fit(5) \/ Fit(6)
          \/ Fit(7)
      BY <1>1, <2>1
    <3> QED
      BY <3>1
  <2>2. CASE n >= 2^16
    <3>1. \/ Fit(8) \/ Fit(9) \/ Fit(10) \/ Fit(11) \/ Fit(12) \/ Fit(13) \/ Fit(14)
          \/ Fit(15)
      BY <2>2
    <3> QED
      BY <3>1
  <2> QED
    BY <2>1, <2>2
<1>3. K \in 0..15 /\ Fit(K)
  BY <1>2
<1>4. tree_size_to_index(n) = (2 * K) + ((n \div 2^(K + 7)) % 2)
  <2>1. ~(n >= 2^24)
    OBVIOUS
  <2> QED
    BY <1>1, <2>1 DEF tree_size_to_index
<1> HIDE DEF K
<1>5. m \in Nat \ {0} /\ 2 * m <= n /\ n < 4 * m
  <2>1. K + 7 \in 0..32 /\ K + 8 \in 0..32 /\ (K + 7) + 1 = K + 8 /\ (K + 8) + 1 = K + 9
    BY <1>3
  <2>2. m \in Nat \ {0} /\ 2^(K + 8) = 2 * m
    BY <2>1, Powers
  <2>3. 2^(K + 9) = 2 * 2^(K + 8)
    BY <2>1, Powers
  <2> QED
    BY <1>3, <2>2, <2>3
<1> DEFINE q == n \div m
<1>6. q \in 2..3
  <2> HIDE DEF m
  <2> QED
    BY <1>5
<1>7. tree_size_to_index(n) = (2 * K) + (q % 2)
  BY <1>4
<1> HIDE DEF q
<1>8. q % 2 = q - 2
  BY <1>6
<1>9. tree_size_to_index(n) = ((2 * K) + q) - 2
  BY <1>3, <1>6, <1>7, <1>8
<1> QED
  BY <1>3, <1>5, <1>6, <1>9 DEF q, m

\* A larger size is not in a tree with a smaller number.
LEMMA IndexUp ==
  ASSUME NEW a \in Nat, NEW b \in Nat, b > 256, b <= a
  PROVE  tree_size_to_index(b) <= tree_size_to_index(a)
<1> DEFINE ia == tree_size_to_index(a)
           ib == tree_size_to_index(b)
<1>1. a > 256
  OBVIOUS
<1>2. \A n \in Nat : n >= 2^24 => tree_size_to_index(n) = 31
  <2> SUFFICES ASSUME NEW n \in Nat, n >= 2^24 PROVE tree_size_to_index(n) = 31
    OBVIOUS
  <2>1. ~(n < 2^8)
    OBVIOUS
  <2> QED
    BY <2>1 DEF tree_size_to_index
<1>3. CASE b >= 2^24
  BY <1>2, <1>3
<1>4. CASE b < 2^24 /\ a >= 2^24
  <2>1. PICK k \in 0..15 : b \div 2^(k + 7) \in 2..3 /\ ib = ((2 * k) + (b \div 2^(k + 7))) - 2
    BY <1>4, IndexIs
  <2> DEFINE q == b \div 2^(k + 7)
  <2> HIDE DEF q
  <2>2. q \in 2..3 /\ ib = ((2 * k) + q) - 2
    BY <2>1 DEF q
  <2>3. ib <= 31
    BY <2>2
  <2> QED
    BY <1>2, <1>4, <2>3
<1>5. CASE b < 2^24 /\ a < 2^24
  <2> HIDE DEF ia, ib
  <2>1. PICK k \in 0..15 : /\ 2^(k + 7) \in Nat \ {0} /\ 2 * 2^(k + 7) <= b /\ b < 4 * 2^(k + 7)
                           /\ b \div 2^(k + 7) \in 2..3 /\ ib = ((2 * k) + (b \div 2^(k + 7))) - 2
    BY <1>5, IndexIs DEF ib
  <2>2. PICK j \in 0..15 : /\ 2^(j + 7) \in Nat \ {0} /\ 2 * 2^(j + 7) <= a /\ a < 4 * 2^(j + 7)
                           /\ a \div 2^(j + 7) \in 2..3 /\ ia = ((2 * j) + (a \div 2^(j + 7))) - 2
    BY <1>1, <1>5, IndexIs DEF ia
  <2> DEFINE p == b \div 2^(k + 7)
             q == a \div 2^(j + 7)
  <2>3. p \in 2..3 /\ q \in 2..3 /\ ib = ((2 * k) + p) - 2 /\ ia = ((2 * j) + q) - 2
    BY <2>1, <2>2
  <2>4. k <= j
    <3> SUFFICES ASSUME j < k PROVE FALSE
      OBVIOUS
    <3> HIDE DEF p, q
    <3>1. /\ (j + 8) \in 0..32 /\ (k + 7) \in (j + 8)..33 /\ (j + 7) \in 0..32
          /\ (j + 7) + 1 = j + 8
      OBVIOUS
    <3>2. 2^(j + 8) <= 2^(k + 7)
      BY <3>1, PowersUp
    <3>3. 2^(j + 8) = 2 * 2^(j + 7)
      BY <3>1, Powers
    <3> QED
      BY <2>1, <2>2, <3>2, <3>3
  <2>5. CASE k = j
    <3>1. p <= q
      BY <2>1, <2>5, DivUp
    <3> HIDE DEF p, q
    <3> QED
      BY <2>3, <2>5, <3>1 DEF ia, ib
  <2>6. CASE k < j
    <3> HIDE DEF p, q
    <3>1. ib <= ia
      BY <2>3, <2>6
    <3> QED
      BY <3>1 DEF ia, ib
  <2> QED
    BY <2>4, <2>5, <2>6
<1> QED
  BY <1>3, <1>4, <1>5

-----------------------------------------------------------------------------
\* The best chunk of a tree.

\* Everything below the left son of a node is smaller than everything below the right one.
LEMMA SidesLess ==
  ASSUME NEW L, NEW use, NEW C, NEW Pa, NEW Ix, NEW tr, NEW dep,
         Trie(L, use, C, Pa, Ix, tr, dep), NEW p \in L, NEW x, NEW y,
         C[p][0] # NULL, C[p][1] # NULL,
         Under(L, use, Pa, Ix, dep, C[p][0], x), Under(L, use, Pa, Ix, dep, C[p][1], y)
  PROVE  use[x] < use[y]
<1> DEFINE s == C[p][0]
           t == C[p][1]
           i == Ix[p]
           d == dep[p]
<1>1. 0 \in 0..1 /\ 1 \in 0..1
  OBVIOUS
<1>2. /\ p \in Nodes(L, Pa) /\ Ix[s] = i /\ dep[s] = d + 1 /\ d \in 0..Top(i)
      /\ Prefix(use[s], i, d + 1) = 2 * Prefix(use[p], i, d) + 0
  BY <1>1, NodeBelow
<1>3. /\ Ix[t] = i /\ dep[t] = d + 1
      /\ Prefix(use[t], i, d + 1) = 2 * Prefix(use[p], i, d) + 1
  BY <1>1, NodeBelow
<1> HIDE DEF s, t
<1>4. /\ x \in Nodes(L, Pa) /\ y \in Nodes(L, Pa)
      /\ Prefix(use[x], i, d + 1) = Prefix(use[s], i, d + 1)
      /\ Prefix(use[y], i, d + 1) = Prefix(use[t], i, d + 1)
  BY <1>2, <1>3 DEF Under, s, t
<1>5. use[x] \in Nat /\ use[y] \in Nat /\ use[p] \in Nat /\ i \in Indices /\ Top(i) \in 6..31
  BY <1>2, <1>4, NodeType
<1> HIDE DEF i, d
<1>6. Prefix(use[p], i, d) \in Nat /\ d + 1 \in 0 .. Top(i) + 1
  BY <1>2, <1>5, PrefixType
<1>7. Prefix(use[x], i, d + 1) < Prefix(use[y], i, d + 1)
  BY <1>2, <1>3, <1>4, <1>6
<1> QED
  BY <1>5, <1>6, <1>7, PrefixLess

\* What is left of a chunk; too small a chunk leaves more than any that will do.
LEMMA MarginIs ==
  ASSUME NEW h, NEW p, NEW need \in 0 .. Modulus - 1,
         p # NULL => Size(h, p) \in 0 .. Modulus - 1
  PROVE  /\ p # NULL /\ Size(h, p) >= need => Margin(h, p, need) = Size(h, p) - need
         /\ p # NULL /\ Size(h, p) < need =>
              Margin(h, p, need) = (Size(h, p) + Modulus) - need
         /\ p = NULL /\ need > 0 => Margin(h, p, need) = Modulus - need
         /\ Margin(h, p, need) \in Nat
<1>1. Modulus \in Nat \ {0} /\ 0 \in 0 .. Modulus - 1
  BY HeapAssumption
<1>2. CASE p # NULL
  <2> DEFINE m == Size(h, p)
  <2>1. Margin(h, p, need) = Sub(m, need) /\ m \in 0 .. Modulus - 1
    BY <1>2 DEF Margin
  <2> HIDE DEF m
  <2>2. /\ need <= m => Sub(m, need) = m - need
        /\ m < need => Sub(m, need) = (m + Modulus) - need
        /\ Sub(m, need) \in 0 .. Modulus - 1
    BY <2>1, SubIs
  <2> QED
    BY <1>1, <1>2, <2>1, <2>2 DEF m
<1>3. CASE p = NULL
  <2>1. Margin(h, p, need) = Sub(0, need)
    BY <1>3 DEF Margin
  <2>2. Sub(0, need) \in 0 .. Modulus - 1 /\ (0 < need => Sub(0, need) = (0 + Modulus) - need)
    BY <1>1, SubIs
  <2> QED
    BY <1>1, <1>3, <2>1, <2>2
<1> QED
  BY <1>2, <1>3

\* Of two chunks, the second of which will do if there is one, the better is taken.
LEMMA CloserIs ==
  ASSUME NEW h, NEW need \in 0 .. Modulus - 1, NEW x, x # NULL,
         Size(h, x) \in 0 .. Modulus - 1, NEW y,
         y # NULL => Size(h, y) \in need .. Modulus - 1, y = NULL => need > 0
  PROVE  Closer(h, x, y, need) =
           IF Size(h, x) >= need /\ (y = NULL \/ Size(h, x) < Size(h, y)) THEN x ELSE y
<1>1. Modulus \in Nat \ {0}
  BY HeapAssumption
<1>2. y # NULL => Size(h, y) \in 0 .. Modulus - 1 /\ Size(h, y) >= need
  BY <1>1
<1>3. Margin(h, x, need) =
        IF Size(h, x) >= need THEN Size(h, x) - need ELSE (Size(h, x) + Modulus) - need
  BY <1>1, MarginIs
<1>4. Margin(h, y, need) = IF y = NULL THEN Modulus - need ELSE Size(h, y) - need
  BY <1>1, <1>2, MarginIs
<1>5. CASE Size(h, x) >= need
  BY <1>1, <1>2, <1>3, <1>4, <1>5 DEF Closer
<1>6. CASE Size(h, x) < need
  BY <1>1, <1>2, <1>3, <1>4, <1>6 DEF Closer
<1> QED
  BY <1>1, <1>5, <1>6

\* b is a or below it in the trees of the heap.
Beneath(h, sz, dep, a, b) == Under(Large(sz), Uses(sz), h.pParent, h.Index, dep, a, b)

\* On the way down the left side of p, at x, with y the best: what has been seen and what
\* is left to be seen.
Leftward(h, sz, dep, p, c, need, x, y) ==
  /\ x # NULL => Beneath(h, sz, dep, p, x)
  /\ y # NULL => y \in Large(sz) /\ sz[y] >= need
  /\ c # NULL => y # NULL /\ sz[y] <= sz[c]
  /\ \A z : Beneath(h, sz, dep, p, z) =>
       \/ y # NULL /\ sz[y] <= sz[z]
       \/ x # NULL /\ Beneath(h, sz, dep, x, z)
       \/ x # NULL /\ \A u : Beneath(h, sz, dep, x, u) => sz[u] <= sz[z]

\* The chunks in the trees of the heap.
Planted(h, sz, dep) ==
  Trie(Large(sz), Uses(sz), h.pChild, h.pParent, h.Index, h.tree, dep)

\* What is beneath a node is a chunk with a size.
LEMMA BeneathType ==
  ASSUME NEW h, NEW sz, Sized(sz), Fits(h, sz), NEW dep, NEW a, NEW b,
         Beneath(h, sz, dep, a, b)
  PROVE  /\ a \in Large(sz) /\ b \in Large(sz) /\ a # NULL /\ b # NULL
         /\ a \in Nodes(Large(sz), h.pParent) /\ b \in Nodes(Large(sz), h.pParent)
         /\ sz[a] \in 0 .. Modulus - 1 /\ sz[b] \in 0 .. Modulus - 1
         /\ Size(h, a) = sz[a] /\ Size(h, b) = sz[b]
         /\ Uses(sz)[a] = sz[a] - ChunkHead /\ Uses(sz)[b] = sz[b] - ChunkHead
<1>1. /\ a \in Nodes(Large(sz), h.pParent) /\ b \in Nodes(Large(sz), h.pParent)
      /\ a \in Large(sz) /\ b \in Large(sz)
  BY DEF Beneath, Under, Nodes
<1>2. \A x \in Large(sz) : /\ x \in DOMAIN sz /\ x # NULL /\ sz[x] \in 0 .. Modulus - 1
                           /\ Size(h, x) = sz[x] /\ Uses(sz)[x] = sz[x] - ChunkHead
  <2> SUFFICES ASSUME NEW x \in Large(sz)
               PROVE  /\ x \in DOMAIN sz /\ x # NULL /\ sz[x] \in 0 .. Modulus - 1
                      /\ Size(h, x) = sz[x] /\ Uses(sz)[x] = sz[x] - ChunkHead
    OBVIOUS
  <2>1. x \in DOMAIN sz
    BY DEF Large
  <2>2. sz[x] \in MIN_CHUNK_SIZE .. Modulus - 1 /\ x # NULL
    BY <2>1 DEF Sized, NULL
  <2> QED
    BY <2>1, <2>2 DEF Fits, Uses, MIN_CHUNK_SIZE
<1> QED
  BY <1>1, <1>2

\* One step down the left side.
LEMMA LeftStep ==
  ASSUME NEW h, NEW sz, Sized(sz), Fits(h, sz), NEW dep, Planted(h, sz, dep),
         NEW p, NEW c, NEW need \in 0 .. Modulus - 1, c = NULL => need > 0,
         c # NULL => sz[c] \in Nat, NEW x, x # NULL, NEW y, Leftward(h, sz, dep, p, c, need, x, y),
         \A z : Beneath(h, sz, dep, p, z) => sz[z] >= need
  PROVE  /\ Leftward(h, sz, dep, p, c, need, letfmost_child(h, x), Closer(h, x, y, need))
         /\ x \in Large(sz) /\ dep[x] \in 0..32
         /\ letfmost_child(h, x) # NULL =>
              letfmost_child(h, x) \in Large(sz) /\ dep[letfmost_child(h, x)] = dep[x] + 1
<1> DEFINE L == Large(sz)
           B(a, b) == Beneath(h, sz, dep, a, b)
           C == h.pChild
           s == letfmost_child(h, x)
           e == Closer(h, x, y, need)
<1>1. /\ B(p, x) /\ (y # NULL => y \in L /\ sz[y] >= need)
      /\ (c # NULL => y # NULL /\ sz[y] <= sz[c])
  BY DEF Leftward
<1>2. /\ x \in L /\ x \in Nodes(L, h.pParent) /\ Size(h, x) = sz[x]
      /\ sz[x] \in 0 .. Modulus - 1 /\ sz[x] >= need
  BY <1>1, BeneathType
<1>3. y # NULL => Size(h, y) = sz[y] /\ sz[y] \in 0 .. Modulus - 1
  <2> SUFFICES ASSUME y # NULL PROVE Size(h, y) = sz[y] /\ sz[y] \in 0 .. Modulus - 1
    OBVIOUS
  <2>1. y \in DOMAIN sz
    BY <1>1 DEF Large
  <2> QED
    BY <2>1 DEF Sized, Fits, MIN_CHUNK_SIZE
<1>4. e = IF y = NULL \/ sz[x] < sz[y] THEN x ELSE y
  <2>1. y # NULL => Size(h, y) \in need .. Modulus - 1
    BY <1>1, <1>3
  <2>2. y = NULL => need > 0
    BY <1>1
  <2>3. e = IF Size(h, x) >= need /\ (y = NULL \/ Size(h, x) < Size(h, y)) THEN x ELSE y
    BY <1>2, <2>1, <2>2, CloserIs
  <2> HIDE DEF e
  <2> QED
    BY <1>2, <1>3, <2>3
<1>5. /\ e # NULL /\ e \in L /\ sz[e] >= need /\ sz[e] <= sz[x] /\ sz[e] \in 0 .. Modulus - 1
      /\ (y # NULL => sz[e] <= sz[y])
  BY <1>1, <1>2, <1>3, <1>4
<1> HIDE DEF e
<1>6. s = IF C[x][0] # NULL THEN C[x][0] ELSE C[x][1]
  BY DEF letfmost_child
<1>7. dep[x] \in 0..32 /\ dep[x] \in Nat /\ \A b \in 0..1 : C[x][b] \in L \cup {NULL}
  <2>1. /\ dep[x] \in Nat /\ dep[x] \in 0 .. Top(h.Index[x]) + 1 /\ Top(h.Index[x]) \in 6..31
        /\ \A b \in 0..1 : C[x][b] \in L \cup {NULL}
    BY <1>2, NodeType DEF Planted
  <2> QED
    BY <2>1
<1>8. \A b \in 0..1 : C[x][b] # NULL => B(x, C[x][b]) /\ dep[C[x][b]] = dep[x] + 1
  BY <1>2, NodeBelow DEF Planted, Beneath
<1>9. \A z : B(x, z) => \/ z = x
                        \/ C[x][0] # NULL /\ B(C[x][0], z)
                        \/ C[x][1] # NULL /\ B(C[x][1], z)
  <2> SUFFICES ASSUME NEW z, B(x, z), z # x
               PROVE  \/ C[x][0] # NULL /\ B(C[x][0], z)
                      \/ C[x][1] # NULL /\ B(C[x][1], z)
    OBVIOUS
  <2> DEFINE b == Branch(Uses(sz)[z], h.Index[x], dep[x])
  <2>1. b \in 0..1 /\ C[x][b] # NULL /\ B(C[x][b], z)
    BY UnderSon DEF Planted, Beneath
  <2> HIDE DEF b
  <2>2. b = 0 \/ b = 1
    BY <2>1
  <2> QED
    BY <2>1, <2>2
<1>10. s # NULL => B(p, s) /\ s \in L /\ dep[s] = dep[x] + 1 /\ B(x, s)
  <2> SUFFICES ASSUME s # NULL PROVE B(p, s) /\ s \in L /\ dep[s] = dep[x] + 1 /\ B(x, s)
    OBVIOUS
  <2>1. B(x, s) /\ dep[s] = dep[x] + 1 /\ s \in L
    BY <1>6, <1>7, <1>8
  <2> HIDE DEF s
  <2>2. B(p, s)
    BY <1>1, <2>1, UnderTrans DEF Planted, Beneath
  <2> QED
    BY <2>1, <2>2
<1>11. ASSUME NEW z, B(x, z)
       PROVE  \/ sz[e] <= sz[z]
              \/ s # NULL /\ B(s, z)
              \/ s # NULL /\ \A u : B(s, u) => sz[u] <= sz[z]
  <2>1. CASE z = x
    BY <1>5, <2>1
  <2>2. CASE C[x][0] # NULL /\ B(C[x][0], z)
    BY <1>6, <2>2
  <2>3. CASE C[x][1] # NULL /\ B(C[x][1], z)
    <3>1. CASE C[x][0] = NULL
      BY <1>6, <2>3, <3>1
    <3>2. CASE C[x][0] # NULL
      <4> SUFFICES ASSUME NEW u, B(C[x][0], u) PROVE sz[u] <= sz[z]
        BY <1>6, <3>2
      <4>1. Uses(sz)[u] < Uses(sz)[z]
        BY <1>2, <2>3, <3>2, SidesLess DEF Planted, Beneath
      <4>2. /\ Uses(sz)[u] = sz[u] - ChunkHead /\ Uses(sz)[z] = sz[z] - ChunkHead
            /\ sz[u] \in 0 .. Modulus - 1 /\ sz[z] \in 0 .. Modulus - 1
        BY <1>11, BeneathType
      <4> QED
        BY <4>1, <4>2 DEF ChunkHead
    <3> QED
      BY <3>1, <3>2
  <2> QED
    BY <1>9, <1>11, <2>1, <2>2, <2>3
<1>12. ASSUME NEW z, B(p, z)
       PROVE  \/ e # NULL /\ sz[e] <= sz[z]
              \/ s # NULL /\ B(s, z)
              \/ s # NULL /\ \A u : B(s, u) => sz[u] <= sz[z]
  <2>0. sz[z] \in 0 .. Modulus - 1
    BY <1>12, BeneathType
  <2>1. \/ y # NULL /\ sz[y] <= sz[z]
        \/ B(x, z)
        \/ \A u : B(x, u) => sz[u] <= sz[z]
    BY <1>12 DEF Leftward
  <2>2. CASE y # NULL /\ sz[y] <= sz[z]
    BY <1>3, <1>5, <2>0, <2>2
  <2>3. CASE B(x, z)
    BY <1>5, <1>11, <2>3
  <2>4. CASE \A u : B(x, u) => sz[u] <= sz[z]
    <3>1. B(x, x)
      <4>1. dep[x] <= dep[x]
        BY <1>7
      <4> QED
        BY <1>2, <4>1 DEF Beneath, Under
    <3>2. sz[x] <= sz[z]
      BY <2>4, <3>1
    <3> QED
      BY <1>2, <1>5, <2>0, <3>2
  <2> QED
    BY <2>1, <2>2, <2>3, <2>4
<1>13. c # NULL => e # NULL /\ sz[e] <= sz[c]
  <2> SUFFICES ASSUME c # NULL PROVE sz[e] <= sz[c]
    BY <1>5
  <2>1. sz[y] <= sz[c] /\ sz[e] <= sz[y] /\ y # NULL
    BY <1>1, <1>5
  <2> QED
    BY <1>3, <1>5, <2>1
<1>14. Leftward(h, sz, dep, p, c, need, s, e)
  <2> HIDE DEF s
  <2> QED
    BY <1>5, <1>10, <1>12, <1>13 DEF Leftward
<1> QED
  BY <1>2, <1>7, <1>10, <1>14 DEF e

\* Down the left side of a tree whose chunks will all do, the search finds one that is not
\* larger than any of them, nor than the one it started with.
Nearest(h, sz, dep, p, c, need, e) ==
  /\ e \in Large(sz) \cup {NULL} /\ (e # NULL => sz[e] >= need)
  /\ p = NULL => e = c
  /\ c # NULL => e # NULL /\ sz[e] <= sz[c]
  /\ p # NULL => e # NULL
  /\ \A z : p # NULL /\ Beneath(h, sz, dep, p, z) => sz[e] <= sz[z]

\* The loop down the left side ends, and gives the nearest chunk.
LEMMA ClosestLeast ==
  ASSUME NEW h, NEW sz, Sized(sz), Fits(h, sz), NEW dep, Planted(h, sz, dep),
         NEW p, p # NULL => p \in Nodes(Large(sz), h.pParent),
         NEW c \in Large(sz) \cup {NULL}, NEW need \in 0 .. Modulus - 1, c = NULL => need > 0,
         c # NULL => sz[c] >= need,
         \A z : p # NULL /\ Beneath(h, sz, dep, p, z) => sz[z] >= need
  PROVE  Nearest(h, sz, dep, p, c, need, Closest(h, p, c, need))
<1> DEFINE L == Large(sz)
           All == DOMAIN h.pChild \cup {NULL}
           left == [x \in All \X All |->
                      IF x[1] = NULL THEN x
                      ELSE <<letfmost_child(h, x[1]), Closer(h, x[1], x[2], need)>>]
           end == Loop(left, <<p, c>>, Levels)
<1>1. DOMAIN h.pChild = L /\ All = L \cup {NULL} /\ Levels = 33
  BY DEF Planted, Trie, TrieType, Levels
<1>2. Closest(h, p, c, need) = end[2]
  BY DEF Closest
<1>3. \A x \in All \X All : left[x] = IF x[1] = NULL THEN x
                            ELSE <<letfmost_child(h, x[1]), Closer(h, x[1], x[2], need)>>
  OBVIOUS
<1>4. c # NULL => sz[c] \in Nat
  <2> SUFFICES ASSUME c # NULL PROVE sz[c] \in Nat
    OBVIOUS
  <2>1. c \in DOMAIN sz
    BY DEF Large
  <2> QED
    BY <2>1 DEF Sized, MIN_CHUNK_SIZE
<1> HIDE DEF left, end
<1>5. CASE p = NULL
  <2> DEFINE G == {<<p, c>>}
  <2>1. <<p, c>> \in All \X All
    BY <1>1, <1>5
  <2>2. left[<<p, c>>] = <<p, c>>
    BY <1>3, <1>5, <2>1
  <2>3. <<p, c>> \in G /\ \A y \in G : left[y] \in G
    BY <2>2
  <2>4. end \in G
    <3> HIDE DEF G
    <3>1. Levels \in Nat
      BY <1>1
    <3> QED
      BY <2>3, <3>1, LoopKeeps DEF end
  <2>5. end[2] = c
    BY <2>4
  <2> QED
    BY <1>2, <1>4, <1>5, <2>5 DEF Nearest
<1>6. CASE p # NULL
  <2> DEFINE G == {x \in All \X All : Leftward(h, sz, dep, p, c, need, x[1], x[2])}
             rank == [x \in G |-> IF x[1] = NULL THEN 33 ELSE dep[x[1]]]
  <2>1. <<p, c>> \in G
    <3>1. p \in L /\ p \in Nodes(L, h.pParent)
      BY <1>6 DEF Nodes
    <3>2. dep[p] \in Nat
      BY <3>1, NodeType DEF Planted
    <3>3. Beneath(h, sz, dep, p, p)
      BY <3>1, <3>2 DEF Beneath, Under
    <3>4. Leftward(h, sz, dep, p, c, need, p, c)
      BY <1>4, <1>6, <3>3 DEF Leftward
    <3> QED
      BY <1>1, <3>1, <3>4
  <2>2. ASSUME NEW x \in G, x[1] # NULL
        PROVE  /\ left[x] = <<letfmost_child(h, x[1]), Closer(h, x[1], x[2], need)>>
               /\ left[x] \in G /\ dep[x[1]] \in 0..32
               /\ letfmost_child(h, x[1]) # NULL => dep[letfmost_child(h, x[1])] = dep[x[1]] + 1
    <3> DEFINE s == letfmost_child(h, x[1])
               e == Closer(h, x[1], x[2], need)
    <3>1. x \in All \X All /\ Leftward(h, sz, dep, p, c, need, x[1], x[2])
      OBVIOUS
    <3>2. \A z : Beneath(h, sz, dep, p, z) => sz[z] >= need
      BY <1>6
    <3>3. /\ Leftward(h, sz, dep, p, c, need, s, e)
          /\ x[1] \in Large(sz) /\ dep[x[1]] \in 0..32
          /\ s # NULL => s \in Large(sz) /\ dep[s] = dep[x[1]] + 1
      BY <1>4, <2>2, <3>1, <3>2, LeftStep
    <3>4. left[x] = <<s, e>>
      BY <1>3, <2>2, <3>1
    <3> HIDE DEF s, e
    <3>5. s \in All /\ e \in All
      <4>1. e # NULL => e \in Large(sz)
        BY <3>3 DEF Leftward
      <4> QED
        BY <1>1, <3>3, <4>1
    <3>6. <<s, e>> \in G
      BY <3>3, <3>5
    <3> QED
      BY <3>3, <3>4, <3>6 DEF s, e
  <2>3. \A x \in G : x[1] = NULL => left[x] = x
    BY <1>3
  <2>4. \A x \in G : left[x] \in G
    BY <2>2, <2>3
  <2>5. \A x \in G : rank[x] \in 0..33
    BY <2>2
  <2>6. ASSUME NEW x \in G PROVE left[x] = x \/ rank[left[x]] > rank[x]
    <3>1. CASE x[1] = NULL
      BY <2>3, <3>1
    <3>2. CASE x[1] # NULL
      <4> DEFINE s == letfmost_child(h, x[1])
                 e == Closer(h, x[1], x[2], need)
      <4>1. /\ left[x] = <<s, e>> /\ left[x] \in G /\ dep[x[1]] \in 0..32
            /\ s # NULL => dep[s] = dep[x[1]] + 1
        BY <2>2, <3>2
      <4> HIDE DEF s, e, G
      <4>2. rank[left[x]] = IF s = NULL THEN 33 ELSE dep[s]
        BY <4>1
      <4>3. rank[x] = dep[x[1]]
        BY <3>2
      <4> QED
        BY <4>1, <4>2, <4>3
    <3> QED
      BY <3>1, <3>2
  <2>7. end \in G /\ left[end] = end
    <3> HIDE DEF G, rank
    <3>1. \A x \in G : rank[x] \in 0..Levels
      BY <1>1, <2>5
    <3>2. \A x \in G : left[x] = x \/ rank[left[x]] > rank[x]
      BY <2>6
    <3>3. Levels \in Nat
      BY <1>1
    <3> QED
      BY <2>1, <2>4, <3>1, <3>2, <3>3, LoopEnds DEF end
  <2>8. end[1] = NULL
    <3> SUFFICES ASSUME end[1] # NULL PROVE FALSE
      OBVIOUS
    <3>1. /\ left[end] = <<letfmost_child(h, end[1]), Closer(h, end[1], end[2], need)>>
          /\ dep[end[1]] \in 0..32
          /\ letfmost_child(h, end[1]) # NULL => dep[letfmost_child(h, end[1])] = dep[end[1]] + 1
      BY <2>2, <2>7
    <3>2. letfmost_child(h, end[1]) = end[1]
      BY <2>7, <3>1
    <3> QED
      BY <3>1, <3>2
  <2>9. Leftward(h, sz, dep, p, c, need, NULL, end[2]) /\ end[2] \in All
    BY <2>7, <2>8
  <2>10. Beneath(h, sz, dep, p, p)
    <3>1. dep[p] \in Nat
      BY <1>6, NodeType DEF Planted
    <3> QED
      BY <1>6, <3>1 DEF Beneath, Under
  <2> HIDE DEF G
  <2>11. end[2] # NULL /\ end[2] \in L
    BY <1>1, <2>9, <2>10 DEF Leftward
  <2> QED
    BY <1>2, <1>6, <2>9, <2>11 DEF Leftward, Nearest
<1> QED
  BY <1>5, <1>6

-----------------------------------------------------------------------------
\* The search for a large chunk.

\* out is the last node left out on the right of the way of n: the bits that lead to it are
\* those of n and then a one in the place of a zero.
Aside(h, sz, dep, n, out, d) ==
  LET i == tree_size_to_index(n)
  IN  /\ out \in Nodes(Large(sz), h.pParent) /\ h.Index[out] = i /\ dep[out] \in 1..d
      /\ Prefix(Uses(sz)[out], i, dep[out]) = Prefix(n, i, dep[out]) + 1

\* On the way of n, at t, with best the best: what has been seen, what is left to be seen,
\* and what is left out.
Searching(h, sz, dep, n, t, best, out, d) ==
  LET i    == tree_size_to_index(n)
      need == n + ChunkHead
      Wood == Nodes(Large(sz), h.pParent)
  IN  /\ d \in 0..Levels
      /\ t # NULL => /\ OnWay(Large(sz), Uses(sz), h.pParent, h.Index, dep, n, t)
                     /\ h.Index[t] = i /\ dep[t] = d
      /\ best # NULL => best \in Wood /\ h.Index[best] = i /\ sz[best] > need
      /\ out # NULL => Aside(h, sz, dep, n, out, d)
      /\ \A x \in Wood : h.Index[x] = i /\ sz[x] >= need =>
           \/ best # NULL /\ sz[best] <= sz[x]
           \/ t # NULL /\ Beneath(h, sz, dep, t, x)
           \/ out # NULL /\ Beneath(h, sz, dep, out, x)
           \/ out # NULL /\ \A u : Beneath(h, sz, dep, out, u) => sz[u] <= sz[x]

\* What is on the way is smaller than what was left out.
LEMMA AsideMore ==
  ASSUME NEW h, NEW sz, NEW dep, Planted(h, sz, dep), NEW n \in Nat, NEW out, NEW d,
         Aside(h, sz, dep, n, out, d), d \in 0 .. Top(tree_size_to_index(n)) + 1,
         NEW u \in Nodes(Large(sz), h.pParent), h.Index[u] = tree_size_to_index(n),
         Prefix(Uses(sz)[u], tree_size_to_index(n), d) = Prefix(n, tree_size_to_index(n), d),
         NEW x, Beneath(h, sz, dep, out, x)
  PROVE  Uses(sz)[u] < Uses(sz)[x]
<1> DEFINE i == tree_size_to_index(n)
           use == Uses(sz)
           e == dep[out]
<1>1. /\ out \in Nodes(Large(sz), h.pParent) /\ h.Index[out] = i /\ e \in 1..d
      /\ Prefix(use[out], i, e) = Prefix(n, i, e) + 1
  BY DEF Aside
<1>2. /\ x \in Nodes(Large(sz), h.pParent) /\ Prefix(use[x], i, e) = Prefix(use[out], i, e)
  BY <1>1 DEF Beneath, Under
<1>3. use[u] \in Nat /\ use[x] \in Nat /\ i \in Indices /\ Top(i) \in 6..31
  BY <1>1, <1>2, NodeType DEF Planted
<1> HIDE DEF use, i, e
<1>4. e \in 0..d /\ e \in 0 .. Top(i) + 1 /\ d \in 0 .. Top(i) + 1
  BY <1>1, <1>3 DEF i
<1>5. Prefix(use[u], i, e) = Prefix(n, i, e)
  <2>1. Prefix(use[u], i, d) = Prefix(n, i, d)
    BY DEF use, i
  <2> QED
    BY <1>3, <1>4, <2>1, PrefixUp
<1>6. Prefix(n, i, e) \in Nat
  BY <1>3, <1>4, PrefixType
<1>7. Prefix(use[u], i, e) < Prefix(use[x], i, e)
  BY <1>1, <1>2, <1>5, <1>6
<1>8. use[u] < use[x]
  BY <1>3, <1>4, <1>7, PrefixLess
<1> QED
  BY <1>8 DEF use

\* One step down the way of n.
LEMMA SearchStep ==
  ASSUME NEW h, NEW sz, Sized(sz), Fits(h, sz), NEW dep, Planted(h, sz, dep),
         NEW n \in Nat, n + ChunkHead \in 0 .. Modulus - 1,
         NEW t, t # NULL, NEW best, NEW out, NEW d,
         Searching(h, sz, dep, n, t, best, out, d),
         NEW b2, b2 = Closer(h, t, best, n + ChunkHead),
         NEW next, next = h.pChild[t][Branch(n, tree_size_to_index(n), d)],
         NEW right, right = h.pChild[t][1],
         ~(b2 = t /\ Margin(h, t, n + ChunkHead) = 0)
  PROVE  /\ Searching(h, sz, dep, n, next, b2,
                      IF right # NULL /\ right # next THEN right ELSE out, d + 1)
         /\ t \in Large(sz) /\ d \in 0..32 /\ next \in Large(sz) \cup {NULL}
<1> DEFINE L == Large(sz)
           use == Uses(sz)
           i == tree_size_to_index(n)
           need == n + ChunkHead
           C == h.pChild
           Wood == Nodes(L, h.pParent)
           B(x, y) == Beneath(h, sz, dep, x, y)
           bn == Branch(n, i, d)
           o2 == IF right # NULL /\ right # next THEN right ELSE out
<1>1. /\ t \in Wood /\ t \in L /\ h.Index[t] = i /\ dep[t] = d
      /\ Prefix(use[t], i, d) = Prefix(n, i, d)
      /\ OnWay(L, use, h.pParent, h.Index, dep, n, t)
  BY DEF Searching, OnWay, Nodes
<1>2. /\ (best # NULL => best \in Wood /\ h.Index[best] = i /\ sz[best] > need)
      /\ (out # NULL => Aside(h, sz, dep, n, out, d))
      /\ \A x \in Wood : h.Index[x] = i /\ sz[x] >= need =>
           \/ best # NULL /\ sz[best] <= sz[x]
           \/ B(t, x)
           \/ out # NULL /\ B(out, x)
           \/ out # NULL /\ \A u : B(out, u) => sz[u] <= sz[x]
  BY DEF Searching
<1>3. \A x \in Wood : /\ x \in L /\ x # NULL /\ sz[x] \in 0 .. Modulus - 1 /\ Size(h, x) = sz[x]
                      /\ use[x] = sz[x] - ChunkHead /\ use[x] \in Nat
                      /\ B(x, x)
  <2> SUFFICES ASSUME NEW x \in Wood
               PROVE  /\ x \in L /\ x # NULL /\ sz[x] \in 0 .. Modulus - 1 /\ Size(h, x) = sz[x]
                      /\ use[x] = sz[x] - ChunkHead /\ use[x] \in Nat /\ B(x, x)
    OBVIOUS
  <2>1. dep[x] \in Nat /\ use[x] \in Nat
    BY NodeType DEF Planted
  <2>2. B(x, x)
    BY <2>1 DEF Beneath, Under
  <2> QED
    BY <2>1, <2>2, BeneathType
<1>4. /\ i \in Indices /\ Top(i) \in 6..31 /\ d \in 0 .. Top(i) + 1 /\ d \in Nat
      /\ \A b \in 0..1 : C[t][b] \in L \cup {NULL}
  BY <1>1, NodeType DEF Planted
<1>5. /\ b2 = IF sz[t] >= need /\ (best = NULL \/ sz[t] < sz[best]) THEN t ELSE best
      /\ Margin(h, t, need) = 0 <=> sz[t] = need
  <2>0. Modulus \in Nat \ {0}
    BY HeapAssumption
  <2>1. /\ need \in 0 .. Modulus - 1 /\ Size(h, t) \in 0 .. Modulus - 1
        /\ best # NULL => Size(h, best) \in need .. Modulus - 1
        /\ best = NULL => need > 0 /\ t # NULL /\ Size(h, t) = sz[t]
    BY <1>1, <1>2, <1>3, <2>0 DEF ChunkHead
  <2>2. need > 0 /\ Size(h, t) = sz[t] /\ (best # NULL => Size(h, best) = sz[best])
    BY <1>1, <1>2, <1>3 DEF ChunkHead
  <2> HIDE DEF need
  <2>3. b2 = IF Size(h, t) >= need /\ (best = NULL \/ Size(h, t) < Size(h, best)) THEN t ELSE best
    <3>1. b2 = Closer(h, t, best, need)
      BY DEF need
    <3> QED
      BY <2>1, <2>2, <3>1, CloserIs
  <2>4. /\ Size(h, t) >= need => Margin(h, t, need) = Size(h, t) - need
        /\ Size(h, t) < need => Margin(h, t, need) = (Size(h, t) + Modulus) - need
    BY <2>1, MarginIs
  <2> QED
    BY <2>0, <2>1, <2>2, <2>3, <2>4
<1>6. sz[t] # need
  <2> SUFFICES ASSUME sz[t] = need PROVE FALSE
    OBVIOUS
  <2>1. b2 = t
    BY <1>1, <1>2, <1>3, <1>5
  <2> QED
    BY <1>5, <2>1
<1>7. /\ (b2 # NULL => b2 \in Wood /\ h.Index[b2] = i /\ sz[b2] > need)
      /\ (best # NULL => b2 # NULL /\ sz[b2] <= sz[best])
      /\ (sz[t] >= need => b2 # NULL /\ sz[b2] <= sz[t])
  BY <1>1, <1>2, <1>3, <1>5, <1>6
<1>8. /\ d \in 0..Top(i) /\ bn \in 0..1
      /\ (next # NULL => OnWay(L, use, h.pParent, h.Index, dep, n, next))
  <2>1. use[t] # n
    BY <1>1, <1>3, <1>6 DEF ChunkHead
  <2>2. /\ dep[t] \in 0..Top(h.Index[t]) /\ Branch(n, h.Index[t], dep[t]) \in 0..1
        /\ C[t][Branch(n, h.Index[t], dep[t])] # NULL =>
             OnWay(L, use, h.pParent, h.Index, dep, n, C[t][Branch(n, h.Index[t], dep[t])])
    BY <1>1, <2>1, WayDown DEF Planted
  <2> QED
    BY <1>1, <2>2
<1>9. next = C[t][bn] /\ right = C[t][1] /\ next \in L \cup {NULL}
  BY <1>4, <1>8
<1>10. \A b \in 0..1 : C[t][b] # NULL =>
         /\ B(t, C[t][b]) /\ C[t][b] \in Wood /\ h.Index[C[t][b]] = i /\ dep[C[t][b]] = d + 1
         /\ Prefix(use[C[t][b]], i, d + 1) = 2 * Prefix(n, i, d) + b
  <2> SUFFICES ASSUME NEW b \in 0..1, C[t][b] # NULL
               PROVE  /\ B(t, C[t][b]) /\ C[t][b] \in Wood /\ h.Index[C[t][b]] = i
                      /\ dep[C[t][b]] = d + 1
                      /\ Prefix(use[C[t][b]], i, d + 1) = 2 * Prefix(n, i, d) + b
    OBVIOUS
  <2>1. /\ C[t][b] \in Nodes(L, h.pParent) /\ h.Index[C[t][b]] = h.Index[t]
        /\ dep[C[t][b]] = dep[t] + 1
        /\ Prefix(use[C[t][b]], h.Index[t], dep[t] + 1) = 2 * Prefix(use[t], h.Index[t], dep[t]) + b
        /\ Under(L, use, h.pParent, h.Index, dep, t, C[t][b])
    BY <1>1, NodeBelow DEF Planted
  <2> QED
    BY <1>1, <2>1 DEF Beneath
<1>11. /\ Prefix(n, i, d) \in Nat /\ Prefix(n, i, d + 1) = 2 * Prefix(n, i, d) + bn
  BY <1>4, <1>8, OneDown
<1>12. ASSUME o2 = right, right # NULL, right # next
       PROVE  bn = 0 /\ Aside(h, sz, dep, n, right, d + 1)
  <2>1. bn # 1
    BY <1>9, <1>12
  <2>2. bn = 0
    BY <1>8, <2>1
  <2>3. 1 \in 0..1 /\ C[t][1] = right
    BY <1>9
  <2>4. /\ right \in Wood /\ h.Index[right] = i /\ dep[right] = d + 1
        /\ Prefix(use[right], i, d + 1) = 2 * Prefix(n, i, d) + 1
    BY <1>10, <1>12, <2>3
  <2>5. Prefix(use[right], i, d + 1) = Prefix(n, i, d + 1) + 1 /\ d + 1 \in 1..(d + 1)
    BY <1>4, <1>11, <2>2, <2>4
  <2> QED
    BY <2>2, <2>4, <2>5 DEF Aside
<1>13. o2 # NULL => Aside(h, sz, dep, n, o2, d + 1)
  <2>1. CASE right # NULL /\ right # next
    BY <1>12, <2>1
  <2>2. CASE ~(right # NULL /\ right # next)
    <3>1. o2 = out
      BY <2>2
    <3>2. \A e : e \in 1..d => e \in 1..(d + 1)
      BY <1>4
    <3> HIDE DEF o2
    <3> QED
      BY <1>2, <3>1, <3>2 DEF Aside
  <2> QED
    BY <2>1, <2>2
<1> HIDE DEF i, bn, need
<1>14. ASSUME NEW x \in Wood, h.Index[x] = i, sz[x] >= need, B(t, x)
       PROVE  \/ b2 # NULL /\ sz[b2] <= sz[x]
              \/ next # NULL /\ B(next, x)
              \/ o2 # NULL /\ B(o2, x)
  <2>1. CASE x = t
    BY <1>7, <1>14, <2>1
  <2>2. CASE x # t
    <3> DEFINE bx == Branch(use[x], i, d)
    <3>1. bx \in 0..1 /\ C[t][bx] # NULL /\ B(C[t][bx], x)
      <4>1. Under(L, use, h.pParent, h.Index, dep, t, x)
        BY <1>14 DEF Beneath
      <4>2. /\ Branch(use[x], h.Index[t], dep[t]) \in 0..1
            /\ C[t][Branch(use[x], h.Index[t], dep[t])] # NULL
            /\ Under(L, use, h.pParent, h.Index, dep, C[t][Branch(use[x], h.Index[t], dep[t])], x)
        BY <2>2, <4>1, UnderSon DEF Planted
      <4> QED
        BY <1>1, <4>2 DEF Beneath
    <3>2. CASE bx = bn
      BY <1>9, <3>1, <3>2
    <3>3. CASE bx = 1 /\ bn = 0
      <4>1. right # NULL /\ B(right, x)
        BY <1>9, <3>1, <3>3
      <4>2. right # next
        <5> SUFFICES ASSUME right = next PROVE FALSE
          OBVIOUS
        <5>1. 0 \in 0..1 /\ 1 \in 0..1 /\ C[t][0] # NULL /\ C[t][1] = C[t][0]
          BY <1>9, <3>3, <4>1
        <5> QED
          BY <1>1, <5>1, OneParent DEF Planted
      <4> QED
        BY <4>1, <4>2
    <3>4. CASE bx = 0 /\ bn = 1
      <4>1. Prefix(use[x], i, d + 1) = 2 * Prefix(use[x], i, d) + bx
        BY <1>3, <1>4, <1>8, OneDown DEF i
      <4>2. Prefix(use[x], i, d) = Prefix(n, i, d)
        BY <1>1, <1>14 DEF Beneath, Under
      <4>3. Prefix(use[x], i, d + 1) < Prefix(n, i, d + 1)
        BY <1>11, <3>4, <4>1, <4>2
      <4>4. d + 1 \in 0 .. Top(i) + 1
        BY <1>4, <1>8
      <4>5. use[x] < n
        BY <1>3, <1>4, <4>3, <4>4, PrefixLess
      <4> QED
        BY <1>3, <1>14, <4>5 DEF need, ChunkHead
    <3> HIDE DEF bx
    <3>5. (bx = 0 \/ bx = 1) /\ (bn = 0 \/ bn = 1)
      BY <1>8, <3>1
    <3> QED
      BY <3>2, <3>3, <3>4, <3>5
  <2> QED
    BY <2>1, <2>2
<1>15. ASSUME NEW x \in Wood, right # NULL, right # next, out # NULL,
              B(out, x) \/ \A u : B(out, u) => sz[u] <= sz[x]
       PROVE  \A u : B(right, u) => sz[u] <= sz[x]
  <2> SUFFICES ASSUME NEW u, B(right, u) PROVE sz[u] <= sz[x]
    OBVIOUS
  <2>1. PICK y \in Wood : B(out, y) /\ sz[y] <= sz[x]
    <3>1. out \in Wood
      BY <1>2, <1>15 DEF Aside
    <3>2. B(out, out)
      BY <1>3, <3>1
    <3> QED
      BY <1>3, <1>15, <3>1, <3>2
  <2>2. B(t, u)
    <3>1. B(t, right)
      <4>1. 1 \in 0..1 /\ C[t][1] = right
        BY <1>9
      <4> QED
        BY <1>10, <1>15, <4>1
    <3> QED
      BY <3>1, UnderTrans DEF Planted, Beneath
  <2>3. /\ u \in Wood /\ h.Index[u] = i /\ Prefix(use[u], i, d) = Prefix(n, i, d)
    BY <1>1, <2>2 DEF Beneath, Under
  <2>4. use[u] < use[y]
    <3>1. Aside(h, sz, dep, n, out, d)
      BY <1>2, <1>15
    <3> QED
      BY <1>4, <2>1, <2>3, <3>1, AsideMore DEF i
  <2> QED
    BY <1>3, <2>1, <2>3, <2>4 DEF ChunkHead
<1>16. ASSUME NEW x \in Wood, h.Index[x] = i, sz[x] >= need
       PROVE  \/ b2 # NULL /\ sz[b2] <= sz[x]
              \/ next # NULL /\ B(next, x)
              \/ o2 # NULL /\ B(o2, x)
              \/ o2 # NULL /\ \A u : B(o2, u) => sz[u] <= sz[x]
  <2>1. CASE best # NULL /\ sz[best] <= sz[x]
    BY <1>2, <1>3, <1>7, <2>1
  <2>2. CASE B(t, x)
    BY <1>14, <1>16, <2>2
  <2>3. CASE out # NULL /\ (B(out, x) \/ \A u : B(out, u) => sz[u] <= sz[x])
    <3>1. CASE right # NULL /\ right # next
      BY <1>15, <2>3, <3>1
    <3>2. CASE ~(right # NULL /\ right # next)
      BY <2>3, <3>2
    <3> QED
      BY <3>1, <3>2
  <2> QED
    BY <1>2, <1>16, <2>1, <2>2, <2>3 DEF i, need
<1>17. d + 1 \in 0..Levels /\ d \in 0..32
  BY <1>4, <1>8 DEF Levels
<1>18. next # NULL => h.Index[next] = i /\ dep[next] = d + 1
  BY <1>8, <1>9, <1>10
<1>19. Searching(h, sz, dep, n, next, b2, o2, d + 1)
  <2> HIDE DEF o2
  <2> QED
    BY <1>7, <1>8, <1>13, <1>16, <1>17, <1>18 DEF Searching, i, need
<1> QED
  BY <1>1, <1>9, <1>17, <1>19

\* The search that is over because it met a chunk of the very size.
Exact(h, sz, n, best, out) ==
  /\ best = out /\ best \in Nodes(Large(sz), h.pParent) /\ sz[best] = n + ChunkHead

\* How the search comes out.
Searched(h, sz, dep, n, found) ==
  /\ found[1] = NULL
  /\ \/ \E d : Searching(h, sz, dep, n, NULL, found[2], found[3], d)
     \/ Exact(h, sz, n, found[2], found[3])

\* What one turn of the search does.
Downward(h, n, All, down) ==
  \A x \in All \X All \X All \X (0..Levels) :
    down[x] =
      LET t     == x[1]
          best  == Closer(h, t, x[2], n + ChunkHead)
          right == h.pChild[t][1]
          next  == h.pChild[t][Branch(n, tree_size_to_index(n), x[4])]
          out   == IF right # NULL /\ right # next THEN right ELSE x[3]
      IN  CASE t = NULL                 -> x
            [] t # NULL /\ best = t /\ Margin(h, t, n + ChunkHead) = 0 -> <<NULL, t, t, x[4]>>
            [] OTHER                    -> <<next, best, out, x[4] + 1>>

\* The search ends, and it comes out so.
LEMMA SearchIs ==
  ASSUME NEW h, NEW sz, Sized(sz), Fits(h, sz), NEW dep, Planted(h, sz, dep),
         NEW n \in Nat, n + ChunkHead \in 0 .. Modulus - 1,
         tree_size_to_index(n) \in Indices,
         Prefix(n, tree_size_to_index(n), 0) = Rooted(tree_size_to_index(n)),
         NEW All, All = DOMAIN h.pChild \cup {NULL}, NEW down, Downward(h, n, All, down)
  PROVE  Searched(h, sz, dep, n,
                  Loop(down, <<h.tree[tree_size_to_index(n)], NULL, NULL, 0>>, Levels))
<1> DEFINE L == Large(sz)
           i == tree_size_to_index(n)
           need == n + ChunkHead
           Wood == Nodes(L, h.pParent)
           start == <<h.tree[i], NULL, NULL, 0>>
           Quads == All \X All \X All \X (0..Levels)
           Go(x) == \/ Searching(h, sz, dep, n, x[1], x[2], x[3], x[4])
                    \/ x[1] = NULL /\ Exact(h, sz, n, x[2], x[3])
           G == {x \in Quads : Go(x)}
           rank == [x \in G |-> IF x[1] = NULL THEN 33 ELSE x[4]]
<1>1. All = L \cup {NULL} /\ Levels = 33 /\ h.tree \in [Indices -> L \cup {NULL}]
  BY DEF Planted, Trie, TrieType, Levels
<1>2. \A x \in Wood : x \in L /\ x # NULL /\ h.Index[x] \in Indices
  BY DEF Planted, Trie, TrieType, Nodes, NULL
<1>3. start \in G
  <2> DEFINE t == h.tree[i]
  <2>1. t \in All /\ NULL \in All /\ 0 \in 0..Levels
    BY <1>1
  <2>2. t # NULL => OnWay(L, Uses(sz), h.pParent, h.Index, dep, n, t) /\ h.Index[t] = i /\ dep[t] = 0
    <3> SUFFICES ASSUME t # NULL
                 PROVE  OnWay(L, Uses(sz), h.pParent, h.Index, dep, n, t) /\ h.Index[t] = i
                        /\ dep[t] = 0
      OBVIOUS
    <3>1. /\ h.pParent[t] = Slot(i) /\ h.Index[t] = i /\ dep[t] = 0
      BY DEF Planted, Trie, RootsRight
    <3>2. Slot(i) # NULL
      BY DEF Slot, NULL, Indices
    <3>3. t \in L
      BY <1>1
    <3>4. Prefix(Uses(sz)[t], h.Index[t], 0) = Rooted(h.Index[t])
      BY <3>3 DEF Planted, Trie, TrieType
    <3>5. t \in Nodes(L, h.pParent)
      BY <3>1, <3>2, <3>3 DEF Nodes
    <3>6. Prefix(Uses(sz)[t], h.Index[t], dep[t]) = Prefix(n, h.Index[t], dep[t])
      BY <3>1, <3>4
    <3> HIDE DEF t
    <3> QED
      BY <3>1, <3>5, <3>6 DEF OnWay
  <2>3. \A x \in Wood : h.Index[x] = i => t # NULL /\ Beneath(h, sz, dep, t, x)
    <3> SUFFICES ASSUME NEW x \in Wood, h.Index[x] = i PROVE t # NULL /\ Beneath(h, sz, dep, t, x)
      OBVIOUS
    <3>1. Under(L, Uses(sz), h.pParent, h.Index, dep, h.tree[h.Index[x]], x)
      BY UnderRoot DEF Planted
    <3>2. t \in Wood
      BY <3>1 DEF Under
    <3> QED
      BY <1>2, <3>1, <3>2 DEF Beneath
  <2>4. Searching(h, sz, dep, n, t, NULL, NULL, 0)
    <3> HIDE DEF t
    <3> QED
      BY <2>1, <2>2, <2>3 DEF Searching
  <2>5. start \in Quads /\ start[1] = t /\ start[2] = NULL /\ start[3] = NULL /\ start[4] = 0
    BY <2>1
  <2> HIDE DEF start, t, Quads
  <2> QED
    BY <2>4, <2>5
<1>4. \A x \in Quads : x[1] = NULL => down[x] = x
  <2> SUFFICES ASSUME NEW x \in Quads, x[1] = NULL PROVE down[x] = x
    OBVIOUS
  <2> QED
    BY DEF Downward
<1>5. ASSUME NEW x \in G, x[1] # NULL
      PROVE  /\ down[x] \in G /\ x[4] \in 0..32
             /\ down[x][1] = NULL \/ down[x][4] = x[4] + 1
  <2> DEFINE t == x[1]
             best == Closer(h, t, x[2], need)
             right == h.pChild[t][1]
             next == h.pChild[t][Branch(n, i, x[4])]
             out == IF right # NULL /\ right # next THEN right ELSE x[3]
             hit == best = t /\ Margin(h, t, need) = 0
  <2>1. x \in Quads /\ Searching(h, sz, dep, n, t, x[2], x[3], x[4])
    BY <1>5
  <2>2. /\ hit => down[x] = <<NULL, t, t, x[4]>>
        /\ ~hit => down[x] = <<next, best, out, x[4] + 1>>
    BY <1>5, <2>1 DEF Downward
  <2>3. /\ x[2] \in All /\ x[3] \in All /\ x[4] \in 0..Levels /\ t \in All
    BY <2>1
  <2>4. /\ t \in Wood /\ x[4] \in 0..32 /\ t \in L
    <3>1. /\ OnWay(L, Uses(sz), h.pParent, h.Index, dep, n, t) /\ dep[t] = x[4]
      BY <1>5, <2>1 DEF Searching
    <3>2. t \in Wood
      BY <3>1 DEF OnWay
    <3>3. dep[t] \in 0 .. Top(h.Index[t]) + 1 /\ Top(h.Index[t]) \in 6..31
      BY <3>2, NodeType DEF Planted
    <3> QED
      BY <1>2, <3>1, <3>2, <3>3
  <2>5. CASE hit
    <3>1. sz[t] = need
      <4>1. OnWay(L, Uses(sz), h.pParent, h.Index, dep, n, t) /\ dep[t] \in Nat
        BY <1>5, <2>1, <2>4, NodeType DEF Searching, Planted
      <4>2. Beneath(h, sz, dep, t, t)
        BY <4>1 DEF OnWay, Under, Beneath
      <4>3. t # NULL /\ Size(h, t) = sz[t] /\ sz[t] \in 0 .. Modulus - 1
        BY <4>2, BeneathType
      <4>4. /\ sz[t] >= need => Margin(h, t, need) = sz[t] - need
            /\ sz[t] < need => Margin(h, t, need) = (sz[t] + Modulus) - need
        BY <4>3, MarginIs
      <4>5. Margin(h, t, need) = 0 /\ need \in Nat /\ need < Modulus /\ Modulus \in Nat
        <5>1. Modulus \in Nat
          BY HeapAssumption
        <5> QED
          BY <2>5, <5>1 DEF ChunkHead
      <4> HIDE DEF t, need
      <4> QED
        BY <4>3, <4>4, <4>5
    <3>2. Exact(h, sz, n, t, t)
      BY <2>4, <3>1 DEF Exact
    <3> DEFINE y == <<NULL, t, t, x[4]>>
    <3>3. y \in Quads /\ y[1] = NULL /\ y[2] = t /\ y[3] = t
      BY <1>1, <2>3
    <3>4. down[x] = y
      BY <2>2, <2>5
    <3> HIDE DEF y, t, Quads
    <3>5. y \in G
      BY <3>2, <3>3
    <3> QED
      BY <2>4, <3>3, <3>4, <3>5
  <2>6. CASE ~hit
    <3>1. /\ Searching(h, sz, dep, n, next, best, out, x[4] + 1)
          /\ x[4] \in 0..32 /\ next \in L \cup {NULL}
      BY <1>5, <2>1, <2>6, SearchStep
    <3> DEFINE y == <<next, best, out, x[4] + 1>>
    <3>2. best \in All /\ right \in All /\ out \in All
      <4>1. \A b \in 0..1 : h.pChild[t][b] \in L \cup {NULL}
        BY <2>4, NodeType DEF Planted
      <4> HIDE DEF t
      <4> QED
        BY <1>1, <2>3, <4>1 DEF Closer
    <3>3. y \in Quads /\ y[1] = next /\ y[2] = best /\ y[3] = out /\ y[4] = x[4] + 1
      <4>1. next \in All /\ x[4] + 1 \in 0..Levels
        BY <1>1, <3>1
      <4> HIDE DEF next, best, out
      <4> QED
        BY <3>2, <4>1
    <3>4. down[x] = y
      BY <2>2, <2>6
    <3> HIDE DEF y, next, best, out, Quads
    <3>5. y \in G
      BY <3>1, <3>3
    <3> QED
      BY <2>4, <3>3, <3>4, <3>5
  <2> QED
    BY <2>5, <2>6
<1>6. \A x \in G : down[x] \in G
  <2> SUFFICES ASSUME NEW x \in G PROVE down[x] \in G
    OBVIOUS
  <2>1. x \in Quads
    OBVIOUS
  <2> HIDE DEF G, Quads
  <2> QED
    BY <1>4, <1>5, <2>1
<1>7. \A x \in G : rank[x] \in 0..33
  BY <1>1
<1>8. \A x \in G : down[x] = x \/ rank[down[x]] > rank[x]
  <2> SUFFICES ASSUME NEW x \in G, down[x] # x PROVE rank[down[x]] > rank[x]
    OBVIOUS
  <2>1. x \in Quads
    OBVIOUS
  <2>2. x[1] # NULL
    BY <1>4, <2>1
  <2>3. /\ down[x] \in G /\ x[4] \in 0..32
        /\ down[x][1] = NULL \/ down[x][4] = x[4] + 1
    BY <1>5, <2>2
  <2>4. rank[x] = x[4]
    BY <2>2
  <2>5. rank[down[x]] = IF down[x][1] = NULL THEN 33 ELSE down[x][4]
    BY <2>3
  <2> HIDE DEF G, rank
  <2> QED
    BY <2>3, <2>4, <2>5
<1> DEFINE end == Loop(down, start, Levels)
<1>9. end \in G /\ down[end] = end
  <2>1. Levels \in Nat /\ \A x \in G : rank[x] \in 0..Levels
    BY <1>1, <1>7
  <2> HIDE DEF G, start, rank
  <2> QED
    BY <1>3, <1>6, <1>8, <2>1, LoopEnds
<1>10. end[1] = NULL
  <2> HIDE DEF G, end
  <2> SUFFICES ASSUME end[1] # NULL PROVE FALSE
    OBVIOUS
  <2>1. end[4] \in 0..32 /\ end[4] = end[4] + 1
    BY <1>5, <1>9
  <2> QED
    BY <2>1
<1> QED
  <2>1. Go(end)
    BY <1>9
  <2> HIDE DEF end
  <2>2. \/ Searching(h, sz, dep, n, NULL, end[2], end[3], end[4])
        \/ Exact(h, sz, n, end[2], end[3])
    BY <1>10, <2>1
  <2>3. Searched(h, sz, dep, n, end)
    BY <1>10, <2>2 DEF Searched
  <2> QED
    BY <2>3 DEF end

-----------------------------------------------------------------------------
\* The chunk for a request.

\* c is the closest fit for n bytes: the smallest that will do when it is large, one of the
\* smallest ring that will do when it is small; there is none when c is NULL.
Best(sz, n, c) ==
  IF c = NULL THEN \A d \in DOMAIN sz : sz[d] < n + ChunkHead
  ELSE /\ c \in DOMAIN sz /\ sz[c] >= n + ChunkHead
       /\ \A d \in DOMAIN sz : sz[d] >= n + ChunkHead =>
            IF c \in Large(sz) THEN sz[c] <= sz[d]
            ELSE (sz[c] - ChunkHead) \div 8 <= (sz[d] - ChunkHead) \div 8

\* The trees name their sizes.
Filed(h, sz) == /\ \A c \in Large(sz) : h.Index[c] = tree_size_to_index(sz[c] - ChunkHead)
                /\ h.TreeMap = {i \in Indices : h.tree[i] # NULL}
                /\ NodesRight(h.pParent, sz)

\* The chunks of a tree are larger than those of the trees with smaller numbers.
LEMMA Higher ==
  ASSUME NEW h, NEW sz, Sized(sz), Filed(h, sz),
         NEW n \in Nat, n > 256, tree_size_to_index(n) \in Indices
  PROVE  /\ \A x \in Large(sz), y \in Large(sz) : h.Index[y] < h.Index[x] => sz[y] < sz[x]
         /\ \A x \in Large(sz) : tree_size_to_index(n) < h.Index[x] => n + ChunkHead < sz[x]
         /\ \A x \in Large(sz) : n + ChunkHead <= sz[x] => tree_size_to_index(n) <= h.Index[x]
         /\ \A x \in Large(sz) : h.Index[x] \in Indices /\ sz[x] \in Nat /\ sz[x] > 264
<1>1. \A x \in Large(sz) : /\ sz[x] \in Nat /\ sz[x] > 264 /\ sz[x] - ChunkHead \in Nat
                           /\ sz[x] - ChunkHead > 256
                           /\ h.Index[x] = tree_size_to_index(sz[x] - ChunkHead)
                           /\ h.Index[x] \in Indices
  <2> SUFFICES ASSUME NEW x \in Large(sz)
               PROVE  /\ sz[x] \in Nat /\ sz[x] > 264 /\ sz[x] - ChunkHead \in Nat
                      /\ sz[x] - ChunkHead > 256
                      /\ h.Index[x] = tree_size_to_index(sz[x] - ChunkHead)
                      /\ h.Index[x] \in Indices
    OBVIOUS
  <2>1. sz[x] \in MIN_CHUNK_SIZE .. Modulus - 1 /\ ~is_small(sz[x] - ChunkHead)
    BY DEF Large, Sized
  <2>2. sz[x] - ChunkHead \in Nat /\ sz[x] > 264 /\ tree_size_to_index(sz[x] - ChunkHead) \in Indices
    BY <2>1, LargeTree
  <2>3. h.Index[x] = tree_size_to_index(sz[x] - ChunkHead)
    BY DEF Filed
  <2> QED
    BY <2>1, <2>2, <2>3 DEF ChunkHead, MIN_CHUNK_SIZE
<1>2. \A x \in Large(sz), y \in Large(sz) : sz[x] <= sz[y] => h.Index[x] <= h.Index[y]
  <2> SUFFICES ASSUME NEW x \in Large(sz), NEW y \in Large(sz), sz[x] <= sz[y]
               PROVE  h.Index[x] <= h.Index[y]
    OBVIOUS
  <2>1. tree_size_to_index(sz[x] - ChunkHead) <= tree_size_to_index(sz[y] - ChunkHead)
    BY <1>1, IndexUp DEF ChunkHead
  <2> QED
    BY <1>1, <2>1
<1>3. \A x \in Large(sz) : sz[x] <= n + ChunkHead => h.Index[x] <= tree_size_to_index(n)
  <2> SUFFICES ASSUME NEW x \in Large(sz), sz[x] <= n + ChunkHead
               PROVE  h.Index[x] <= tree_size_to_index(n)
    OBVIOUS
  <2>1. tree_size_to_index(sz[x] - ChunkHead) <= tree_size_to_index(n)
    BY <1>1, IndexUp DEF ChunkHead
  <2> QED
    BY <1>1, <2>1
<1>4. \A x \in Large(sz) : n + ChunkHead <= sz[x] => tree_size_to_index(n) <= h.Index[x]
  <2> SUFFICES ASSUME NEW x \in Large(sz), n + ChunkHead <= sz[x]
               PROVE  tree_size_to_index(n) <= h.Index[x]
    OBVIOUS
  <2>1. tree_size_to_index(n) <= tree_size_to_index(sz[x] - ChunkHead)
    BY <1>1, IndexUp DEF ChunkHead
  <2> QED
    BY <1>1, <2>1
<1>5. tree_size_to_index(n) \in Int /\ \A x \in Large(sz) : h.Index[x] \in Int
  BY <1>1 DEF Indices
<1> QED
  BY <1>1, <1>2, <1>3, <1>4, <1>5 DEF ChunkHead

\* A node is as good as its whole ring: what is best among the nodes is best.
LEMMA BestOfNodes ==
  ASSUME NEW sz, Sized(sz), NEW Pa, NodesRight(Pa, sz), NEW n \in Nat, n > 256,
         NEW c \in Large(sz) \cup {NULL}, c # NULL => sz[c] >= n + ChunkHead,
         \A x \in Nodes(Large(sz), Pa) : sz[x] >= n + ChunkHead => c # NULL /\ sz[c] <= sz[x]
  PROVE  Best(sz, n, c)
<1>1. \A d \in DOMAIN sz : sz[d] \in Nat
  BY DEF Sized, MIN_CHUNK_SIZE
<1>2. ASSUME NEW d \in DOMAIN sz, sz[d] >= n + ChunkHead PROVE c # NULL /\ sz[c] <= sz[d]
  <2>1. d \in Large(sz)
    BY <1>1, <1>2 DEF Large, is_small, ChunkHead
  <2>2. PICK q \in Nodes(Large(sz), Pa) : sz[q] = sz[d]
    BY <2>1 DEF NodesRight
  <2> QED
    BY <1>2, <2>2
<1>3. CASE c = NULL
  <2> SUFFICES ASSUME NEW d \in DOMAIN sz PROVE sz[d] < n + ChunkHead
    BY <1>3 DEF Best
  <2> QED
    BY <1>1, <1>2, <1>3 DEF ChunkHead
<1>4. CASE c # NULL
  <2>1. c \in Large(sz) /\ c \in DOMAIN sz
    BY <1>4 DEF Large
  <2> QED
    BY <1>2, <1>4, <2>1 DEF Best
<1> QED
  BY <1>3, <1>4

\* Where a large chunk is looked for when the way down the tree of its size is at its end.
Left(h, sz, n, best, out) ==
  LET i    == tree_size_to_index(n)
      left == {j \in h.TreeMap : j > i}
  IN  IF best = NULL /\ out = NULL /\ left # {}
      THEN h.tree[CHOOSE j \in left : \A k \in left : j <= k]
      ELSE out

\* Nothing was found on the way, and nothing left out: a tree of larger sizes is searched,
\* or there is none.
LEMMA OtherTree ==
  ASSUME NEW h, NEW sz, Sized(sz), Fits(h, sz), NEW dep, Planted(h, sz, dep), Filed(h, sz),
         NEW n \in Nat, n > 256, n + ChunkHead \in 0 .. Modulus - 1,
         tree_size_to_index(n) \in Indices,
         NEW d, Searching(h, sz, dep, n, NULL, NULL, NULL, d),
         NEW c, c = Closest(h, Left(h, sz, n, NULL, NULL), NULL, n + ChunkHead)
  PROVE  /\ c \in Large(sz) \cup {NULL} /\ (c # NULL => sz[c] >= n + ChunkHead)
         /\ \A x \in Nodes(Large(sz), h.pParent) :
              sz[x] >= n + ChunkHead => c # NULL /\ sz[c] <= sz[x]
<1> DEFINE L == Large(sz)
           i == tree_size_to_index(n)
           need == n + ChunkHead
           Wood == Nodes(L, h.pParent)
           left == {j \in h.TreeMap : j > i}
           B(a, b) == Beneath(h, sz, dep, a, b)
<1>1. /\ \A x \in L, y \in L : h.Index[y] < h.Index[x] => sz[y] < sz[x]
      /\ \A x \in L : i < h.Index[x] => need < sz[x]
      /\ \A x \in L : need <= sz[x] => i <= h.Index[x]
      /\ \A x \in L : h.Index[x] \in Indices /\ sz[x] \in Nat /\ sz[x] > 264
  <2> HIDE DEF i, need, L
  <2> QED
    BY Higher DEF i, need, L
<1>2. \A x \in Wood : x \in L
  BY DEF Nodes
<1>3. \A x \in Wood : ~(h.Index[x] = i /\ sz[x] >= need)
  BY DEF Searching
<1>4. \A x \in Wood : sz[x] >= need => h.Index[x] \in left
  <2> SUFFICES ASSUME NEW x \in Wood, sz[x] >= need PROVE h.Index[x] \in left
    OBVIOUS
  <2>1. need \in Nat /\ i \in Int
    BY DEF Indices
  <2>2. need <= sz[x]
    BY <1>1, <1>2, <2>1
  <2>3. i <= h.Index[x] /\ h.Index[x] # i /\ h.Index[x] \in Indices
    BY <1>1, <1>2, <1>3, <2>2
  <2>4. B(h.tree[h.Index[x]], x)
    BY UnderRoot DEF Planted, Beneath
  <2>5. h.tree[h.Index[x]] # NULL
    BY <2>4, BeneathType
  <2>6. h.Index[x] \in h.TreeMap
    BY <2>3, <2>5 DEF Filed
  <2> HIDE DEF i
  <2> QED
    BY <2>1, <2>3, <2>6 DEF Indices
<1>5. CASE left = {}
  <2>1. Left(h, sz, n, NULL, NULL) = NULL
    BY <1>5 DEF Left
  <2>2. need > 0 /\ need \in 0 .. Modulus - 1
    BY DEF ChunkHead
  <2>3. Nearest(h, sz, dep, NULL, NULL, need, Closest(h, NULL, NULL, need))
    <3> HIDE DEF need
    <3> QED
      BY <2>2, ClosestLeast
  <2>4. c = NULL
    BY <2>1, <2>3 DEF Nearest
  <2> QED
    BY <1>4, <1>5, <2>4
<1>6. CASE left # {}
  <2>1. left \subseteq Indices /\ left \subseteq Nat
    BY DEF Filed, Indices
  <2> DEFINE j == CHOOSE j \in left : \A k \in left : j <= k
             r == h.tree[j]
  <2>2. j \in left /\ \A k \in left : j <= k
    <3> HIDE DEF left
    <3>1. \E p \in left : \A k \in left : p <= k
      BY <1>6, <2>1, Least
    <3> QED
      BY <3>1
  <2>3. Left(h, sz, n, NULL, NULL) = r
    BY <1>6 DEF Left
  <2> HIDE DEF j
  <2>4. j \in Indices /\ j > i /\ r # NULL
    BY <2>1, <2>2 DEF Filed
  <2>5. r \in Wood /\ h.Index[r] = j /\ r \in L
    <3>1. h.pParent[r] = Slot(j) /\ h.Index[r] = j
      BY <2>4 DEF Planted, Trie, RootsRight
    <3>2. r \in L
      BY <2>4 DEF Planted, Trie, TrieType
    <3> HIDE DEF r
    <3> QED
      BY <2>4, <3>1, <3>2 DEF Nodes, Slot, NULL, Indices
  <2>6. \A z : B(r, z) => z \in L /\ h.Index[z] = j
    BY <2>5, BeneathType DEF Beneath, Under
  <2>7. \A z : B(r, z) => sz[z] >= need
    <3> SUFFICES ASSUME NEW z, B(r, z) PROVE sz[z] >= need
      OBVIOUS
    <3>1. i \in Int /\ j \in Int /\ need \in Nat
      BY <2>4 DEF Indices
    <3>2. z \in L /\ i < h.Index[z] /\ sz[z] \in Nat
      BY <1>1, <2>4, <2>6, <3>1
    <3>3. need < sz[z]
      BY <1>1, <3>2
    <3> HIDE DEF need
    <3> QED
      BY <3>1, <3>2, <3>3
  <2>8. need > 0 /\ need \in 0 .. Modulus - 1
    BY DEF ChunkHead
  <2>9. Nearest(h, sz, dep, r, NULL, need, Closest(h, r, NULL, need))
    <3> HIDE DEF need, r, L
    <3> QED
      BY <2>4, <2>5, <2>7, <2>8, ClosestLeast DEF L
  <2>10. /\ c \in L /\ c # NULL /\ sz[c] >= need /\ \A z : B(r, z) => sz[c] <= sz[z]
    BY <2>3, <2>4, <2>9 DEF Nearest
  <2>11. \A x \in Wood : sz[x] >= need => sz[c] <= sz[x]
    <3> SUFFICES ASSUME NEW x \in Wood, sz[x] >= need PROVE sz[c] <= sz[x]
      OBVIOUS
    <3>1. h.Index[x] \in left /\ j <= h.Index[x] /\ x \in L
      BY <1>2, <1>4, <2>2
    <3>2. h.Index[x] \in Nat /\ j \in Nat
      BY <2>1, <2>2, <3>1
    <3>3. CASE h.Index[x] = j
      <4>1. B(r, x)
        BY <3>3, UnderRoot DEF Planted, Beneath
      <4> QED
        BY <2>10, <4>1
    <3>4. CASE j < h.Index[x]
      <4>1. sz[r] < sz[x]
        BY <1>1, <2>5, <3>1, <3>4
      <4>2. B(r, r)
        <5>1. B(h.tree[h.Index[r]], r)
          BY <2>5, UnderRoot DEF Planted, Beneath
        <5> QED
          BY <2>5, <5>1
      <4>3. sz[c] <= sz[r]
        BY <2>10, <4>2
      <4>4. sz[c] \in Nat /\ sz[r] \in Nat /\ sz[x] \in Nat
        BY <1>1, <2>5, <2>10, <3>1
      <4> QED
        BY <4>1, <4>3, <4>4
    <3> QED
      BY <3>1, <3>2, <3>3, <3>4
  <2> QED
    BY <2>10, <2>11
<1> QED
  BY <1>5, <1>6

\* Something was found on the way, or left out on the right of it.
LEMMA SameTree ==
  ASSUME NEW h, NEW sz, Sized(sz), Fits(h, sz), NEW dep, Planted(h, sz, dep), Filed(h, sz),
         NEW n \in Nat, n > 256, n + ChunkHead \in 0 .. Modulus - 1,
         tree_size_to_index(n) \in Indices,
         NEW best, NEW out, NEW d, Searching(h, sz, dep, n, NULL, best, out, d),
         best # NULL \/ out # NULL,
         NEW c, c = Closest(h, out, best, n + ChunkHead)
  PROVE  /\ c \in Large(sz) \cup {NULL} /\ (c # NULL => sz[c] >= n + ChunkHead)
         /\ \A x \in Nodes(Large(sz), h.pParent) :
              sz[x] >= n + ChunkHead => c # NULL /\ sz[c] <= sz[x]
<1> DEFINE L == Large(sz)
           i == tree_size_to_index(n)
           need == n + ChunkHead
           Wood == Nodes(L, h.pParent)
           B(a, b) == Beneath(h, sz, dep, a, b)
<1>1. /\ \A x \in L, y \in L : h.Index[y] < h.Index[x] => sz[y] < sz[x]
      /\ \A x \in L : need <= sz[x] => i <= h.Index[x]
      /\ \A x \in L : h.Index[x] \in Indices /\ sz[x] \in Nat /\ sz[x] > 264
  <2> HIDE DEF i, need, L
  <2> QED
    BY Higher DEF i, need, L
<1>2. \A x \in Wood : x \in L
  BY DEF Nodes
<1>3. /\ best # NULL => best \in Wood /\ h.Index[best] = i /\ sz[best] > need
      /\ out # NULL => Aside(h, sz, dep, n, out, d)
      /\ \A x \in Wood : h.Index[x] = i /\ sz[x] >= need =>
           \/ best # NULL /\ sz[best] <= sz[x]
           \/ out # NULL /\ B(out, x)
           \/ out # NULL /\ \A u : B(out, u) => sz[u] <= sz[x]
  <2> HIDE DEF i, need
  <2> QED
    BY DEF Searching, i, need
<1>4. out # NULL => out \in Wood /\ h.Index[out] = i /\ B(out, out)
  <2> SUFFICES ASSUME out # NULL PROVE out \in Wood /\ h.Index[out] = i /\ B(out, out)
    OBVIOUS
  <2>1. out \in Wood /\ h.Index[out] = i
    BY <1>3 DEF Aside
  <2>2. dep[out] \in Nat
    BY <2>1, NodeType DEF Planted
  <2> QED
    BY <2>1, <2>2 DEF Beneath, Under
<1>5. \A z : out # NULL /\ B(out, z) => sz[z] >= need
  <2> SUFFICES ASSUME NEW z, out # NULL, B(out, z) PROVE sz[z] >= need
    OBVIOUS
  <2> DEFINE e == dep[out]
  <2>1. /\ e \in 1..d /\ Prefix(Uses(sz)[out], i, e) = Prefix(n, i, e) + 1
        /\ out \in Wood /\ h.Index[out] = i
    BY <1>3 DEF Aside
  <2>2. /\ Prefix(Uses(sz)[z], i, e) = Prefix(Uses(sz)[out], i, e)
    BY <2>1 DEF Beneath, Under
  <2>3. e \in 0 .. Top(i) + 1
    BY <2>1, NodeType DEF Planted
  <2>4. Uses(sz)[z] = sz[z] - ChunkHead /\ z \in L
    BY BeneathType
  <2>5. sz[z] - ChunkHead \in Nat
    BY <1>1, <2>4 DEF ChunkHead
  <2>6. Prefix(n, i, e) \in Nat
    BY <2>3, PrefixType
  <2> HIDE DEF e, i
  <2>7. Prefix(n, i, e) < Prefix(sz[z] - ChunkHead, i, e)
    BY <2>1, <2>2, <2>4, <2>6
  <2>8. n < sz[z] - ChunkHead
    BY <2>3, <2>5, <2>7, PrefixLess DEF i
  <2> QED
    BY <2>5, <2>8, <1>1, <2>4 DEF ChunkHead
<1>6. need > 0 /\ need \in 0 .. Modulus - 1 /\ need \in Nat
  BY DEF ChunkHead
<1>7. Nearest(h, sz, dep, out, best, need, c)
  <2>1. best \in L \cup {NULL} /\ (best # NULL => sz[best] >= need) /\ (out # NULL => out \in Wood)
    <3> SUFFICES ASSUME best # NULL PROVE best \in L /\ sz[best] >= need
      BY <1>4
    <3>1. best \in L /\ sz[best] > need /\ sz[best] \in Nat
      BY <1>1, <1>2, <1>3
    <3> HIDE DEF need, L
    <3> QED
      BY <1>6, <3>1
  <2> HIDE DEF need, L
  <2> QED
    BY <1>5, <1>6, <2>1, ClosestLeast DEF L, need
<1>8. /\ c \in L /\ c # NULL /\ sz[c] >= need
      /\ (best # NULL => sz[c] <= sz[best])
      /\ \A z : out # NULL /\ B(out, z) => sz[c] <= sz[z]
  BY <1>7 DEF Nearest
<1>9. ASSUME NEW x \in Wood, sz[x] >= need PROVE sz[c] <= sz[x]
  <2>1. x \in L /\ sz[c] \in Nat /\ sz[x] \in Nat /\ h.Index[x] \in Indices
    BY <1>1, <1>2, <1>8
  <2>2. need <= sz[x]
    BY <1>6, <1>9, <2>1
  <2>3. i <= h.Index[x]
    BY <1>1, <2>1, <2>2
  <2>4. PICK w \in L : sz[c] <= sz[w] /\ h.Index[w] = i
    <3>1. CASE best # NULL
      BY <1>2, <1>3, <1>8, <3>1
    <3>2. CASE out # NULL
      BY <1>2, <1>4, <1>8, <3>2
    <3> QED
      BY <3>1, <3>2
  <2>5. CASE h.Index[x] = i
    <3>1. \/ best # NULL /\ sz[best] <= sz[x]
          \/ out # NULL /\ B(out, x)
          \/ out # NULL /\ \A u : B(out, u) => sz[u] <= sz[x]
      BY <1>3, <1>9, <2>5
    <3>2. CASE best # NULL /\ sz[best] <= sz[x]
      <4>1. sz[c] <= sz[best] /\ sz[best] \in Nat
        BY <1>1, <1>2, <1>3, <1>8, <3>2
      <4> QED
        BY <2>1, <3>2, <4>1
    <3>3. CASE out # NULL /\ B(out, x)
      BY <1>8, <3>3
    <3>4. CASE out # NULL /\ \A u : B(out, u) => sz[u] <= sz[x]
      <4>1. sz[c] <= sz[out] /\ sz[out] <= sz[x] /\ sz[out] \in Nat
        BY <1>1, <1>2, <1>4, <1>8, <3>4
      <4> QED
        BY <2>1, <4>1
    <3> QED
      BY <3>1, <3>2, <3>3, <3>4
  <2>6. CASE h.Index[x] # i
    <3>1. h.Index[w] < h.Index[x]
      BY <2>1, <2>3, <2>4, <2>6 DEF Indices
    <3>2. sz[w] < sz[x] /\ sz[w] \in Nat
      BY <1>1, <2>1, <2>4, <3>1
    <3> QED
      BY <2>1, <2>4, <3>2
  <2> QED
    BY <2>5, <2>6
<1> QED
  BY <1>8, <1>9

\* The chunk found in the trees for a large request is the closest fit.
LEMMA LargeBest ==
  ASSUME NEW h, NEW sz, Listed(h, sz), Fits(h, sz),
         NEW n \in Nat, n > 256, n + ChunkHead \in 0 .. Modulus - 1
  PROVE  /\ Best(sz, n, checkout_large_chunk_in_tree(h, n)[1])
         /\ \/ checkout_large_chunk_in_tree(h, n) = <<NULL, h>>
            \/ /\ checkout_large_chunk_in_tree(h, n)[1] \in Large(sz)
               /\ checkout_large_chunk_in_tree(h, n)[2]
                    = unlink_large_chunk(h, checkout_large_chunk_in_tree(h, n)[1])
<1> DEFINE idx == tree_size_to_index(n)
           need == n + ChunkHead
           All == DOMAIN h.pChild \cup {NULL}
           down == [x \in All \X All \X All \X (0..Levels) |->
                      LET t     == x[1]
                          best  == Closer(h, t, x[2], need)
                          right == h.pChild[t][1]
                          next  == h.pChild[t][Branch(n, idx, x[4])]
                          out   == IF right # NULL /\ right # next THEN right ELSE x[3]
                      IN  CASE t = NULL                 -> x
                            [] t # NULL /\ best = t /\ Margin(h, t, need) = 0 -> <<NULL, t, t, x[4]>>
                            [] OTHER                    -> <<next, best, out, x[4] + 1>>]
           found == Loop(down, <<h.tree[idx], NULL, NULL, 0>>, Levels)
           pTree == Left(h, sz, n, found[2], found[3])
           c == Closest(h, pTree, found[2], need)
<1>1. checkout_large_chunk_in_tree(h, n)
        = IF c = NULL THEN <<NULL, h>> ELSE <<c, unlink_large_chunk(h, c)>>
  BY DEF checkout_large_chunk_in_tree, Left
<1>2. PICK dep : Planted(h, sz, dep)
  BY DEF Listed, Treed, Planted
<1>3. Sized(sz) /\ Filed(h, sz) /\ NodesRight(h.pParent, sz)
  BY DEF Listed, Treed, Filed
<1>4. Downward(h, n, All, down)
  BY DEF Downward
<1>5. idx \in Indices /\ Prefix(n, idx, 0) = Rooted(idx)
  <2>1. n \div 2^16 < 2^16
    BY Room, HeapAssumption DEF ChunkHead
  <2> QED
    BY <2>1, IndexRoot
<1>6. Searched(h, sz, dep, n, found)
  <2> HIDE DEF down, All
  <2>1. Searched(h, sz, dep, n, Loop(down, <<h.tree[tree_size_to_index(n)], NULL, NULL, 0>>, Levels))
    BY <1>2, <1>3, <1>4, <1>5, SearchIs DEF All
  <2> QED
    BY <2>1
<1> HIDE DEF down, found, All
<1>7. /\ c \in Large(sz) \cup {NULL} /\ (c # NULL => sz[c] >= need)
      /\ \A x \in Nodes(Large(sz), h.pParent) :
           sz[x] >= need => c # NULL /\ sz[c] <= sz[x]
  <2>1. CASE Exact(h, sz, n, found[2], found[3])
    <3> DEFINE b == found[2]
    <3>1. /\ found[3] = b /\ b \in Nodes(Large(sz), h.pParent) /\ b \in Large(sz) /\ sz[b] = need
      BY <2>1 DEF Exact, Nodes
    <3>2. b # NULL
      BY <1>3, <3>1, ClassIs
    <3>3. pTree = b
      BY <3>1, <3>2 DEF Left
    <3>4. b \in DOMAIN sz
      BY <3>1 DEF Large
    <3>5. Size(h, b) = need
      BY <3>1, <3>4 DEF Fits
    <3> HIDE DEF b, pTree
    <3>6. Margin(h, b, need) = 0
      <4>1. Size(h, b) \in 0 .. Modulus - 1 /\ Size(h, b) >= need
        BY <3>5 DEF ChunkHead
      <4>2. Margin(h, b, need) = Size(h, b) - need
        <5> HIDE DEF need
        <5> QED
          BY <3>2, <4>1, MarginIs DEF need
      <4> QED
        BY <3>5, <4>2 DEF ChunkHead
    <3>7. \A x \in Large(sz), y \in {b} : Closer(h, x, y, need) \in {b}
      <4> SUFFICES ASSUME NEW x \in Large(sz) PROVE Closer(h, x, b, need) = b
        OBVIOUS
      <4>1. x \in DOMAIN sz
        BY DEF Large
      <4>2. Size(h, x) \in 0 .. Modulus - 1
        BY <1>3, <4>1 DEF Fits, Sized, MIN_CHUNK_SIZE
      <4>3. Margin(h, x, need) \in Nat
        <5>1. need \in 0 .. Modulus - 1
          OBVIOUS
        <5> HIDE DEF need
        <5> QED
          BY <4>2, <5>1, MarginIs
      <4>4. ~(Margin(h, x, need) < Margin(h, b, need))
        BY <3>6, <4>3
      <4> QED
        BY <4>4 DEF Closer
    <3>8. Closest(h, b, b, need) \in {b}
      <4>1. {b} \subseteq Large(sz) \cup {NULL} /\ b \in {b} /\ b \in Large(sz) \cup {NULL}
        BY <3>1
      <4> DEFINE S == {b}
      <4> HIDE DEF S, need
      <4>2. S \subseteq Large(sz) \cup {NULL} /\ b \in S
        BY <4>1 DEF S
      <4>3. \A x \in Large(sz), y \in S : Closer(h, x, y, need) \in S
        BY <3>7 DEF S
      <4> QED
        BY <4>1, <4>2, <4>3, ClosestType DEF S
    <3>9. c = b
      BY <3>3, <3>8 DEF b
    <3> HIDE DEF c
    <3>10. \A x \in Nodes(Large(sz), h.pParent) : sz[x] >= need => need <= sz[x]
      <4> SUFFICES ASSUME NEW x \in Nodes(Large(sz), h.pParent), sz[x] >= need PROVE need <= sz[x]
        OBVIOUS
      <4>1. x \in DOMAIN sz
        BY DEF Nodes, Large
      <4>2. sz[x] \in Int /\ need \in Int
        BY <1>3, <4>1 DEF Sized, MIN_CHUNK_SIZE, ChunkHead
      <4> QED
        BY <4>2
    <3> QED
      BY <3>1, <3>2, <3>9, <3>10 DEF ChunkHead
  <2>2. ASSUME NEW d, Searching(h, sz, dep, n, NULL, found[2], found[3], d)
        PROVE  /\ c \in Large(sz) \cup {NULL} /\ (c # NULL => sz[c] >= need)
               /\ \A x \in Nodes(Large(sz), h.pParent) :
                    sz[x] >= need => c # NULL /\ sz[c] <= sz[x]
    <3>1. CASE found[2] = NULL /\ found[3] = NULL
      <4>1. Searching(h, sz, dep, n, NULL, NULL, NULL, d)
        BY <2>2, <3>1
      <4>2. c = Closest(h, Left(h, sz, n, NULL, NULL), NULL, n + ChunkHead)
        BY <3>1
      <4> HIDE DEF c
      <4> QED
        BY <1>2, <1>3, <1>5, <4>1, <4>2, OtherTree
    <3>2. CASE found[2] # NULL \/ found[3] # NULL
      <4>1. c = Closest(h, found[3], found[2], n + ChunkHead)
        BY <3>2 DEF Left
      <4> HIDE DEF c
      <4> QED
        BY <1>2, <1>3, <1>5, <2>2, <3>2, <4>1, SameTree
    <3> QED
      BY <3>1, <3>2
  <2> QED
    BY <1>6, <2>1, <2>2 DEF Searched
<1>8. Best(sz, n, c)
  <2> HIDE DEF c
  <2> QED
    BY <1>3, <1>7, BestOfNodes
<1> QED
  <2> HIDE DEF c
  <2> QED
    BY <1>1, <1>7, <1>8

\* When no small chunk will do, a small request gets the smallest of the large ones.
LEMMA SmallestLarge ==
  ASSUME NEW h, NEW sz, Listed(h, sz), Fits(h, sz), NEW n \in Nat, n <= 256,
         \A d \in DOMAIN sz \ Large(sz) : sz[d] < n + ChunkHead
  PROVE  /\ Best(sz, n, checkout_small_chunk_in_tree(h)[1])
         /\ \/ checkout_small_chunk_in_tree(h) = <<NULL, h>>
            \/ /\ checkout_small_chunk_in_tree(h)[1] \in Large(sz)
               /\ checkout_small_chunk_in_tree(h)[2]
                    = unlink_large_chunk(h, checkout_small_chunk_in_tree(h)[1])
<1> DEFINE L == Large(sz)
           B(dep, a, b) == Beneath(h, sz, dep, a, b)
           i == CHOOSE i \in h.TreeMap : \A j \in h.TreeMap : i <= j
           r == h.tree[i]
           c == Closest(h, r, r, 0)
<1>1. checkout_small_chunk_in_tree(h)
        = IF h.TreeMap = {} THEN <<NULL, h>> ELSE <<c, unlink_large_chunk(h, c)>>
  BY DEF checkout_small_chunk_in_tree
<1>2. PICK dep : Planted(h, sz, dep)
  BY DEF Listed, Treed, Planted
<1>3. Sized(sz) /\ Filed(h, sz) /\ NodesRight(h.pParent, sz)
  BY DEF Listed, Treed, Filed
<1>4. /\ \A x \in L, y \in L : h.Index[y] < h.Index[x] => sz[y] < sz[x]
      /\ \A x \in L : h.Index[x] \in Indices /\ sz[x] \in Nat /\ sz[x] > 264
  <2>1. 257 \in Nat /\ 257 > 256 /\ 257 \div 2^16 < 2^16
    OBVIOUS
  <2>2. tree_size_to_index(257) \in Indices
    BY <2>1, IndexRoot
  <2> HIDE DEF L
  <2> QED
    BY <1>3, <2>1, <2>2, Higher DEF L
<1>5. \A x \in Nodes(L, h.pParent) : /\ x \in L /\ h.Index[x] \in h.TreeMap
                                     /\ B(dep, h.tree[h.Index[x]], x)
  <2> SUFFICES ASSUME NEW x \in Nodes(L, h.pParent)
               PROVE  /\ x \in L /\ h.Index[x] \in h.TreeMap /\ B(dep, h.tree[h.Index[x]], x)
    OBVIOUS
  <2>1. x \in L /\ h.Index[x] \in Indices
    BY <1>4 DEF Nodes
  <2>2. B(dep, h.tree[h.Index[x]], x)
    BY <1>2, UnderRoot DEF Planted, Beneath
  <2>3. h.tree[h.Index[x]] # NULL
    BY <1>3, <2>2, BeneathType
  <2> QED
    BY <1>3, <2>1, <2>2, <2>3 DEF Filed
<1>6. CASE h.TreeMap = {}
  <2>1. L = {}
    <3> SUFFICES ASSUME NEW x \in L PROVE FALSE
      OBVIOUS
    <3>1. PICK q \in Nodes(L, h.pParent) : sz[q] = sz[x]
      BY <1>3 DEF NodesRight
    <3> QED
      BY <1>5, <1>6, <3>1
  <2>2. Best(sz, n, NULL)
    BY <2>1 DEF Best
  <2> QED
    BY <1>1, <1>6, <2>2
<1>7. CASE h.TreeMap # {}
  <2>1. h.TreeMap \subseteq Indices /\ h.TreeMap \subseteq Nat
    BY <1>3 DEF Filed, Indices
  <2>2. i \in h.TreeMap /\ \A j \in h.TreeMap : i <= j
    <3>1. \E p \in h.TreeMap : \A j \in h.TreeMap : p <= j
      BY <1>7, <2>1, Least
    <3> QED
      BY <3>1
  <2> HIDE DEF i
  <2>3. i \in Indices /\ r # NULL
    BY <1>3, <2>1, <2>2 DEF Filed
  <2>4. r \in Nodes(L, h.pParent) /\ r \in L /\ h.Index[r] = i
    <3>1. h.pParent[r] = Slot(i) /\ h.Index[r] = i
      BY <1>2, <2>3 DEF Planted, Trie, RootsRight
    <3>2. r \in L
      BY <1>2, <2>3 DEF Planted, Trie, TrieType
    <3> HIDE DEF r
    <3> QED
      BY <2>3, <3>1, <3>2 DEF Nodes, Slot, NULL, Indices
  <2>5. B(dep, r, r)
    BY <1>5, <2>4
  <2>6. \A z : B(dep, r, z) => sz[z] >= 0
    <3> SUFFICES ASSUME NEW z, B(dep, r, z) PROVE sz[z] >= 0
      OBVIOUS
    <3>1. z \in L
      BY <1>3, BeneathType
    <3> QED
      BY <1>4, <3>1
  <2>7. 0 \in 0 .. Modulus - 1
    BY HeapAssumption
  <2>8. Nearest(h, sz, dep, r, r, 0, c)
    <3>1. sz[r] >= 0
      BY <1>4, <2>4
    <3> HIDE DEF r
    <3> QED
      BY <1>2, <1>3, <2>3, <2>4, <2>6, <2>7, <3>1, ClosestLeast
  <2>9. c \in L /\ c # NULL /\ \A z : B(dep, r, z) => sz[c] <= sz[z]
    BY <2>3, <2>8 DEF Nearest
  <2> HIDE DEF c
  <2>10. \A x \in Nodes(L, h.pParent) : sz[c] <= sz[x]
    <3> SUFFICES ASSUME NEW x \in Nodes(L, h.pParent) PROVE sz[c] <= sz[x]
      OBVIOUS
    <3>1. x \in L /\ h.Index[x] \in h.TreeMap /\ i <= h.Index[x]
      BY <1>5, <2>2
    <3>2. h.Index[x] \in Nat /\ i \in Nat
      BY <2>1, <2>2, <3>1
    <3>3. CASE h.Index[x] = i
      BY <1>5, <2>9, <3>3
    <3>4. CASE i < h.Index[x]
      <4>1. sz[r] < sz[x] /\ sz[c] <= sz[r]
        BY <1>4, <2>4, <2>5, <2>9, <3>1, <3>4
      <4>2. sz[c] \in Nat /\ sz[r] \in Nat /\ sz[x] \in Nat
        BY <1>4, <2>4, <2>9, <3>1
      <4> QED
        BY <4>1, <4>2
    <3> QED
      BY <3>1, <3>2, <3>3, <3>4
  <2>11. \A d \in L : sz[c] <= sz[d]
    <3> SUFFICES ASSUME NEW d \in L PROVE sz[c] <= sz[d]
      OBVIOUS
    <3>1. PICK q \in Nodes(L, h.pParent) : sz[q] = sz[d]
      BY <1>3 DEF NodesRight
    <3> QED
      BY <2>10, <3>1
  <2>12. c \in DOMAIN sz /\ sz[c] >= n + ChunkHead
    BY <1>4, <2>9 DEF Large, ChunkHead
  <2>13. \A d \in DOMAIN sz : sz[d] >= n + ChunkHead => d \in L
    <3> SUFFICES ASSUME NEW d \in DOMAIN sz, sz[d] >= n + ChunkHead, d \notin L PROVE FALSE
      OBVIOUS
    <3>1. sz[d] < n + ChunkHead
      OBVIOUS
    <3>2. sz[d] \in Int
      BY <1>3 DEF Sized, MIN_CHUNK_SIZE
    <3> QED
      BY <3>1, <3>2 DEF ChunkHead
  <2>14. Best(sz, n, c)
    BY <2>9, <2>11, <2>12, <2>13 DEF Best
  <2> QED
    BY <1>1, <1>7, <2>9, <2>14
<1> QED
  BY <1>6, <1>7

\* The ring of the class of a small chunk is in the map.
LEMMA Mapped ==
  ASSUME NEW h, NEW sz, Listed(h, sz), NEW d \in DOMAIN sz \ Large(sz)
  PROVE  get_box_index(sz[d] - ChunkHead) \in h.SameMap
<1> DEFINE i == get_box_index(sz[d] - ChunkHead)
           D == DOMAIN sz \cup Boxes
<1>1. Sized(sz) /\ Ringed(h, sz)
  BY DEF Listed
<1>2. i \in Indices /\ Cls(sz)[d] = i /\ Box(i) \in Boxes /\ Cls(sz)[Box(i)] = i /\ d \notin Boxes
  BY <1>1, ClassIs
<1>3. h.pFreeNext[Box(i)] # Box(i)
  <2> SUFFICES ASSUME h.pFreeNext[Box(i)] = Box(i) PROVE FALSE
    OBVIOUS
  <2>1. Rings(D, h.pFreeNext, h.pFreePrev, Cls(sz))
    BY <1>1 DEF Ringed
  <2>2. Box(i) \in D /\ d \in D /\ Cls(sz)[d] = Cls(sz)[Box(i)]
    BY <1>2
  <2> HIDE DEF D, i
  <2>3. d = Box(i)
    BY <2>1, <2>2, RingSingle
  <2> QED
    BY <1>2, <2>3
<1> QED
  BY <1>1, <1>2, <1>3 DEF Ringed

\* What is taken out for a request of n bytes: the closest fit, or nothing.
Taken(h, sz, n, out) ==
  /\ Best(sz, n, out[1])
  /\ out[1] = NULL => out[2] = h
  /\ out[1] # NULL => Listed(out[2], Drop(sz, out[1])) /\ Heads(out[2], h)

\* Out of the trees.
LEMMA TakenLarge ==
  ASSUME NEW h, NEW sz, Listed(h, sz), NEW n, NEW out, Best(sz, n, out[1]),
         \/ out = <<NULL, h>>
         \/ out[1] \in Large(sz) /\ out[2] = unlink_large_chunk(h, out[1])
  PROVE  Taken(h, sz, n, out)
<1>1. CASE out = <<NULL, h>>
  BY <1>1 DEF Taken
<1>2. CASE out[1] \in Large(sz) /\ out[2] = unlink_large_chunk(h, out[1])
  <2>1. Listed(unlink_large_chunk(h, out[1]), Drop(sz, out[1]))
        /\ Heads(unlink_large_chunk(h, out[1]), h)
    BY <1>2, LargeOut
  <2>2. out[1] # NULL
    BY <1>2, ClassIs DEF Listed
  <2> QED
    BY <1>2, <2>1, <2>2 DEF Taken
<1> QED
  BY <1>1, <1>2

\* The chunk taken out for a request is the closest fit.
LEMMA CheckOut ==
  ASSUME NEW h, NEW sz, Listed(h, sz), Fits(h, sz),
         NEW n \in Nat, n >= 16, is_small(n) => n % 8 = 0, n + ChunkHead \in 0 .. Modulus - 1
  PROVE  Taken(h, sz, n, checkout(h, n))
<1> DEFINE fit == {i \in h.SameMap : i >= get_box_index(n)}
           i == IF fit = {} THEN 0 ELSE CHOOSE j \in fit : \A k \in fit : j <= k
           q == n \div 8
<1>1. Sized(sz) /\ h.SameMap \subseteq Indices
  BY DEF Listed, Ringed
<1>2. ~is_small(n) \/ n = 8 * q
  BY DEF is_small
<1>3. q \in Nat /\ q >= 2 /\ get_box_index(n) = q - 1
  <2>1. q \in Nat /\ q >= 2
    OBVIOUS
  <2> QED
    BY <2>1 DEF get_box_index
<1> HIDE DEF q
<1>4. CASE ~is_small(n)
  <2>1. checkout(h, n) = checkout_large_chunk_in_tree(h, n)
    BY <1>4 DEF checkout
  <2>2. n > 256
    BY <1>4 DEF is_small
  <2> QED
    BY <2>1, <2>2, LargeBest, TakenLarge
<1>5. CASE is_small(n) /\ fit = {}
  <2>1. checkout(h, n) = checkout_small_chunk_in_tree(h)
    BY <1>5 DEF checkout
  <2>2. n <= 256
    BY <1>5 DEF is_small
  <2>3. \A d \in DOMAIN sz \ Large(sz) : sz[d] < n + ChunkHead
    <3> SUFFICES ASSUME NEW d \in DOMAIN sz \ Large(sz), ~(sz[d] < n + ChunkHead) PROVE FALSE
      OBVIOUS
    <3> DEFINE m == (sz[d] - ChunkHead) \div 8
    <3>1. get_box_index(sz[d] - ChunkHead) \in h.SameMap
      BY Mapped
    <3>2. sz[d] - ChunkHead \in Nat /\ n <= sz[d] - ChunkHead
      BY <1>1 DEF Sized, MIN_CHUNK_SIZE, ChunkHead
    <3>3. q <= m /\ m \in Int
      BY <3>2, DivUp DEF q
    <3>4. get_box_index(sz[d] - ChunkHead) = m - 1
      BY DEF get_box_index
    <3> HIDE DEF m
    <3>5. m - 1 >= q - 1
      BY <1>3, <3>3
    <3>6. m - 1 \in fit
      BY <1>3, <3>1, <3>4, <3>5
    <3> QED
      BY <1>5, <3>6
  <2> QED
    BY <2>1, <2>2, <2>3, SmallestLarge, TakenLarge
<1>6. CASE is_small(n) /\ fit # {}
  <2>1. fit \subseteq Nat /\ fit \subseteq Indices
    BY <1>1 DEF Indices
  <2>2. i \in fit /\ \A k \in fit : i <= k
    <3>1. \E p \in fit : \A k \in fit : p <= k
      <4> HIDE DEF fit
      <4> QED
        BY <1>6, <2>1, Least
    <3> QED
      BY <1>6, <3>1
  <2>3. checkout(h, n) = checkout_small_chunk_in_group(h, i)
    <3>1. i # 0
      BY <1>3, <2>2
    <3> QED
      BY <1>6, <3>1 DEF checkout
  <2> HIDE DEF i
  <2> DEFINE out == checkout_small_chunk_in_group(h, i)
             c == out[1]
  <2>4. /\ c \in DOMAIN sz \ Large(sz)
        /\ get_box_index(sz[c] - ChunkHead) = i
        /\ Listed(out[2], Drop(sz, c)) /\ Heads(out[2], h)
    <3>1. i \in h.SameMap
      BY <2>2
    <3> QED
      BY <3>1, GroupOut
  <2> HIDE DEF out
  <2>5. c # NULL /\ sz[c] \in Nat /\ sz[c] - ChunkHead >= 8 * (i + 1)
    BY <1>1, <2>4, ClassIs
  <2>6. (sz[c] - ChunkHead) \div 8 = i + 1
    <3> DEFINE m == (sz[c] - ChunkHead) \div 8
    <3>1. m \in Int
      BY <2>5 DEF ChunkHead
    <3>2. m - 1 = i
      BY <2>4 DEF get_box_index
    <3> HIDE DEF m
    <3>3. m = i + 1
      BY <3>1, <3>2
    <3> QED
      BY <3>3 DEF m
  <2>7. i \in Nat /\ i >= q - 1 /\ i \in 0..31
    BY <1>3, <2>1, <2>2 DEF Indices
  <2>8. sz[c] >= n + ChunkHead
    BY <1>2, <1>3, <1>6, <2>5, <2>7 DEF ChunkHead
  <2>9. ASSUME NEW d \in DOMAIN sz, sz[d] >= n + ChunkHead
        PROVE  i + 1 <= (sz[d] - ChunkHead) \div 8
    <3> DEFINE m == (sz[d] - ChunkHead) \div 8
    <3>1. sz[d] - ChunkHead \in Nat /\ n <= sz[d] - ChunkHead /\ sz[d] \in Nat
      BY <1>1, <2>9 DEF Sized, MIN_CHUNK_SIZE, ChunkHead
    <3>2. q <= m /\ m \in Int
      BY <3>1, DivUp DEF q
    <3>3. CASE d \in Large(sz)
      <4>1. sz[d] > 264
        BY <1>1, <3>3, ClassIs
      <4>2. 256 \div 8 <= m
        BY <3>1, <4>1, DivUp DEF ChunkHead
      <4> HIDE DEF m
      <4>3. 32 <= m
        BY <4>2
      <4> QED
        BY <2>7, <3>2, <4>3 DEF m
    <3>4. CASE d \notin Large(sz)
      <4>1. get_box_index(sz[d] - ChunkHead) \in h.SameMap
        BY <3>4, Mapped
      <4>2. get_box_index(sz[d] - ChunkHead) = m - 1
        BY DEF get_box_index
      <4> HIDE DEF m
      <4>3. m - 1 >= q - 1
        BY <1>3, <3>2
      <4>4. m - 1 \in fit
        BY <1>3, <4>1, <4>2, <4>3
      <4>5. i <= m - 1
        BY <2>2, <4>4
      <4> QED
        BY <2>7, <3>2, <4>5 DEF m
    <3> QED
      BY <3>3, <3>4
  <2>10. Best(sz, n, c)
    BY <2>4, <2>5, <2>6, <2>8, <2>9 DEF Best
  <2> QED
    <3>1. Taken(h, sz, n, out)
      BY <2>4, <2>5, <2>10 DEF Taken
    <3> QED
      BY <2>3, <3>1 DEF out
<1> QED
  BY <1>4, <1>5, <1>6

-----------------------------------------------------------------------------
\* Requests.

\* Rounding up, where it does not wrap around.
LEMMA AlignUp ==
  ASSUME NEW x \in Nat, NEW k \in {4, 8}, x + 7 < Modulus
  PROVE  /\ align_upside(x, k) \in Nat /\ align_upside(x, k) % k = 0
         /\ x <= align_upside(x, k) /\ align_upside(x, k) <= x + (k - 1)
<1> DEFINE y == (x + k) - 1
           q == y \div k
<1>1. y \in Nat /\ y < Modulus /\ Modulus \in Nat
  BY HeapAssumption
<1>2. y % Modulus = y
  <2> HIDE DEF y
  <2> QED
    BY <1>1
<1>3. align_upside(x, k) = q * k
  BY <1>2 DEF align_upside
<1>4. CASE k = 4
  <2>1. q = y \div 4
    BY <1>4
  <2>2. q \in Nat /\ 4 * q <= y /\ y < (4 * q) + 4
    <3> HIDE DEF y
    <3> QED
      BY <1>1, <2>1
  <2> HIDE DEF q
  <2>3. q * k = 4 * q
    BY <1>4, <2>2
  <2>4. (4 * q) % 4 = 0
    BY <2>2
  <2> QED
    BY <1>3, <1>4, <2>2, <2>3, <2>4 DEF y
<1>5. CASE k = 8
  <2>1. q = y \div 8
    BY <1>5
  <2>2. q \in Nat /\ 8 * q <= y /\ y < (8 * q) + 8
    <3> HIDE DEF y
    <3> QED
      BY <1>1, <2>1
  <2> HIDE DEF q
  <2>3. q * k = 8 * q
    BY <1>5, <2>2
  <2>4. (8 * q) % 8 = 0
    BY <2>2
  <2> QED
    BY <1>3, <1>5, <2>2, <2>3, <2>4 DEF y
<1> QED
  BY <1>4, <1>5

\* The size a request is brought to.
LEMMA FormattedIs ==
  ASSUME NEW n \in 0 .. Modulus - 32
  PROVE  /\ Formatted(n) \in Nat /\ Formatted(n) >= 16 /\ Formatted(n) >= n
         /\ Formatted(n) % 4 = 0 /\ (is_small(Formatted(n)) => Formatted(n) % 8 = 0)
         /\ Formatted(n) + ChunkHead \in 0 .. Modulus - 1
<1> DEFINE x == (n + MIN_CHUNK_SIZE) % Modulus
           m == align_upside(x, 4)
           e == align_upside(m, 8)
<1>1. Modulus \in Nat /\ Modulus % 4 = 0
  BY HeapAssumption
<1>2. x = n + 16 /\ x \in Nat /\ x + 7 < Modulus
  BY <1>1 DEF MIN_CHUNK_SIZE
<1>3. Formatted(n) = IF is_small(m) THEN e ELSE m
  BY DEF Formatted
<1> HIDE DEF x
<1>4. m \in Nat /\ m % 4 = 0 /\ x <= m /\ m <= x + 3
  BY <1>2, AlignUp
<1> HIDE DEF m
<1>5. m + 7 < Modulus
  BY <1>1, <1>2, <1>4
<1>6. e \in Nat /\ e % 8 = 0 /\ m <= e /\ e <= m + 7
  BY <1>4, <1>5, AlignUp
<1> HIDE DEF e
<1>7. e % 4 = 0 /\ e <= m + 4
  BY <1>4, <1>6
<1>8. m <= Modulus - 16
  BY <1>1, <1>2, <1>4
<1> QED
  BY <1>1, <1>2, <1>3, <1>4, <1>6, <1>7, <1>8 DEF is_small, ChunkHead

-----------------------------------------------------------------------------
\* The heads.

\* The lists do not see the heads.
LEMMA ListedSame ==
  ASSUME NEW h, NEW sz, Listed(h, sz), NEW g, Record(g),
         g.pFreeNext = h.pFreeNext, g.pFreePrev = h.pFreePrev, g.pChild = h.pChild,
         g.pParent = h.pParent, g.Index = h.Index, g.SameMap = h.SameMap,
         g.TreeMap = h.TreeMap, g.tree = h.tree
  PROVE  Listed(g, sz)
<1>1. Sized(sz) /\ Ringed(g, sz)
  BY DEF Listed, Ringed
<1>2. Treed(g, sz)
  BY DEF Listed, Treed
<1> QED
  BY <1>1, <1>2 DEF Listed

\* The heads T and P of the banks J that are registered: the chunks tile them.
Infos == [size : Nat, used : BOOLEAN]
Firsts(banks, J) == {align_upside(banks[i].StartAddr, 4) : i \in J}
Banked(banks, J) ==
  /\ \A i \in J : /\ banks[i].StartAddr \in 1 .. Modulus - 1
                 /\ banks[i].EndAddr \in 1 .. Modulus - 1
                 /\ banks[i].StartAddr + 11 <= banks[i].EndAddr
  /\ \A i, j \in J : \/ i = j
                    \/ banks[i].EndAddr <= banks[j].StartAddr
                    \/ banks[j].EndAddr <= banks[i].StartAddr
ChunkAt(T, P, banks, J, c) ==
  /\ T[c].size >= MIN_CHUNK_SIZE /\ c + T[c].size \in DOMAIN T /\ P[c + T[c].size] = T[c]
  /\ \A d \in DOMAIN T : d <= c \/ d >= c + T[c].size
  /\ \E i \in J : /\ banks[i].StartAddr <= c
                  /\ c + T[c].size + ChunkHead <= banks[i].EndAddr
Preceded(T, c) == \E b \in DOMAIN T : T[b].size # 0 /\ b + T[b].size = c
Headed(T, P, banks, J) ==
  /\ Banked(banks, J)
  /\ T \in [DOMAIN T -> Infos] /\ P \in [DOMAIN T -> Infos]
  /\ \A c \in DOMAIN T : c \in 1 .. Modulus - 1 /\ c % 4 = 0 /\ (T[c].size = 0 => T[c].used)
  /\ \A c \in DOMAIN T : T[c].size # 0 => ChunkAt(T, P, banks, J, c)
  /\ \A c \in DOMAIN T : P[c] = Used(0) <=> c \in Firsts(banks, J)
  /\ \A c \in DOMAIN T : P[c] # Used(0) => Preceded(T, c)

\* Where a bank is taken into use.
LEMMA FirstIs ==
  ASSUME NEW banks, NEW J, Banked(banks, J), NEW i \in J
  PROVE  LET a == align_upside(banks[i].StartAddr, 4)
         IN  /\ a \in Nat /\ a % 4 = 0 /\ banks[i].StartAddr <= a /\ a <= banks[i].StartAddr + 3
             /\ a + ChunkHead <= banks[i].EndAddr /\ a \in 1 .. Modulus - 1
             /\ banks[i].StartAddr \in Nat /\ banks[i].EndAddr \in Nat
<1> DEFINE s == banks[i].StartAddr
           a == align_upside(s, 4)
<1>1. s \in Nat /\ s > 0 /\ banks[i].EndAddr \in Nat /\ s + 11 <= banks[i].EndAddr
      /\ banks[i].EndAddr < Modulus /\ Modulus \in Nat
  BY SMTT(20), HeapAssumption DEF Banked
<1> HIDE DEF s
<1>2. s + 7 < Modulus
  BY <1>1
<1>3. a \in Nat /\ a % 4 = 0 /\ s <= a /\ a <= s + 3
  BY <1>1, <1>2, AlignUp
<1> HIDE DEF a
<1>4. a + ChunkHead <= banks[i].EndAddr /\ a \in 1 .. Modulus - 1
  BY <1>1, <1>3 DEF ChunkHead
<1> QED
  BY <1>1, <1>3, <1>4 DEF s, a

\* Inside a bank, behind another word, no bank is taken into use.
LEMMA NotFirst ==
  ASSUME NEW banks, NEW J, Banked(banks, J), NEW i \in J, NEW c \in Nat, NEW e \in Nat,
         c % 4 = 0, e % 4 = 0, c < e, banks[i].StartAddr <= c, e + ChunkHead <= banks[i].EndAddr
  PROVE  e \notin Firsts(banks, J)
<1> SUFFICES ASSUME NEW j \in J, e = align_upside(banks[j].StartAddr, 4) PROVE FALSE
  BY DEF Firsts
<1> DEFINE s == banks[j].StartAddr
<1>1. /\ s <= e /\ e <= s + 3 /\ e + ChunkHead <= banks[j].EndAddr /\ s \in Nat
      /\ banks[j].EndAddr \in Nat
  BY FirstIs
<1>2. banks[i].StartAddr \in Nat /\ banks[i].EndAddr \in Nat
  BY FirstIs
<1>3. i = j \/ banks[i].EndAddr <= s \/ banks[j].EndAddr <= banks[i].StartAddr
  BY DEF Banked
<1>4. i = j
  BY <1>1, <1>2, <1>3 DEF ChunkHead
<1>5. s <= c
  BY <1>4
<1> HIDE DEF s
<1> QED
  BY <1>1, <1>5

\* What the heads say of a chunk and of what follows it.
LEMMA ChunkIs ==
  ASSUME NEW T, NEW P, NEW banks, NEW J, Headed(T, P, banks, J), NEW c \in DOMAIN T, T[c].size # 0
  PROVE  /\ T[c].size \in Nat /\ T[c].size >= 16 /\ T[c].used \in BOOLEAN /\ c \in Nat /\ c > 0
         /\ c + T[c].size \in DOMAIN T /\ P[c + T[c].size] = T[c] /\ c # c + T[c].size
         /\ \A d \in DOMAIN T : d \in Nat /\ (d <= c \/ d >= c + T[c].size)
         /\ \A d \in DOMAIN T : T[d].size # 0 /\ d + T[d].size = c + T[c].size => d = c
         /\ c + T[c].size \notin Firsts(banks, J)
<1>1. T[c] \in Infos /\ c \in 1 .. Modulus - 1 /\ ChunkAt(T, P, banks, J, c)
  BY DEF Headed
<1>2. T[c].size \in Nat /\ T[c].used \in BOOLEAN /\ T[c].size >= 16 /\ c \in Nat /\ c > 0
  BY <1>1 DEF Infos, ChunkAt, MIN_CHUNK_SIZE
<1>3. c + T[c].size \in DOMAIN T /\ P[c + T[c].size] = T[c] /\ c # c + T[c].size
  BY <1>1, <1>2 DEF ChunkAt
<1>4. \A d \in DOMAIN T : d \in Nat /\ (d <= c \/ d >= c + T[c].size)
  BY <1>1 DEF ChunkAt, Headed
<1>5. ASSUME NEW d \in DOMAIN T, T[d].size # 0, d + T[d].size = c + T[c].size PROVE d = c
  <2>1. ChunkAt(T, P, banks, J, d) /\ T[d] \in Infos
    BY <1>5 DEF Headed
  <2>2. T[d].size \in Nat /\ T[d].size >= 16 /\ (c <= d \/ c >= d + T[d].size) /\ d \in Nat
    BY <1>4, <2>1 DEF ChunkAt, Infos, MIN_CHUNK_SIZE
  <2>3. d <= c \/ d >= c + T[c].size
    BY <1>4
  <2> QED
    BY <1>2, <1>5, <2>2, <2>3
<1>6. c + T[c].size \notin Firsts(banks, J)
  <2>1. P[c + T[c].size] # Used(0)
    BY <1>2, <1>3 DEF Used
  <2> QED
    BY <1>3, <2>1 DEF Headed
<1> QED
  BY <1>2, <1>3, <1>4, <1>5, <1>6

\* A chunk becomes used, or free.
LEMMA HeadMarked ==
  ASSUME NEW T, NEW P, NEW banks, NEW J, Headed(T, P, banks, J), NEW c \in DOMAIN T, T[c].size # 0,
         NEW v \in Infos, v.size = T[c].size,
         NEW T2, T2 = [T EXCEPT ![c] = v], NEW P2, P2 = [P EXCEPT ![c + T[c].size] = v]
  PROVE  Headed(T2, P2, banks, J)
<1> DEFINE n == c + T[c].size
<1>1. /\ T[c].size \in Nat /\ T[c].size >= 16 /\ n \in DOMAIN T /\ P[n] = T[c]
      /\ \A d \in DOMAIN T : d \in Nat
      /\ \A d \in DOMAIN T : T[d].size # 0 /\ d + T[d].size = n => d = c
      /\ n \notin Firsts(banks, J)
  BY ChunkIs
<1>2. /\ DOMAIN T2 = DOMAIN T /\ T2 \in [DOMAIN T2 -> Infos] /\ P2 \in [DOMAIN T2 -> Infos]
      /\ DOMAIN P = DOMAIN T
  BY DEF Headed
<1>3. \A d \in DOMAIN T : T2[d].size = T[d].size /\ T2[d] = (IF d = c THEN v ELSE T[d])
  OBVIOUS
<1>4. \A d \in DOMAIN T : P2[d] = (IF d = n THEN v ELSE P[d])
  BY <1>2
<1> HIDE DEF n
<1>5. \A d \in DOMAIN T2 : d \in 1 .. Modulus - 1 /\ d % 4 = 0 /\ (T2[d].size = 0 => T2[d].used)
  <2> SUFFICES ASSUME NEW d \in DOMAIN T
               PROVE  d \in 1 .. Modulus - 1 /\ d % 4 = 0 /\ (T2[d].size = 0 => T2[d].used)
    BY <1>2
  <2>1. d \in 1 .. Modulus - 1 /\ d % 4 = 0 /\ (T[d].size = 0 => T[d].used)
    BY DEF Headed
  <2> QED
    BY <1>1, <1>3, <2>1
<1>6. \A d \in DOMAIN T2 : T2[d].size # 0 => ChunkAt(T2, P2, banks, J, d)
  <2> SUFFICES ASSUME NEW d \in DOMAIN T, T[d].size # 0 PROVE ChunkAt(T2, P2, banks, J, d)
    BY <1>2, <1>3
  <2>1. ChunkAt(T, P, banks, J, d)
    BY DEF Headed
  <2>2. T2[d].size = T[d].size /\ d + T[d].size \in DOMAIN T
    BY <1>3, <2>1 DEF ChunkAt
  <2>3. P2[d + T[d].size] = T2[d]
    <3>1. CASE d = c
      BY <1>3, <1>4, <2>2, <3>1 DEF n
    <3>2. CASE d # c
      <4>1. d + T[d].size # n
        BY <1>1, <3>2
      <4>2. P[d + T[d].size] = T[d]
        BY <2>1 DEF ChunkAt
      <4> QED
        BY <1>3, <1>4, <2>2, <3>2, <4>1, <4>2
    <3> QED
      BY <3>1, <3>2
  <2> QED
    BY <1>2, <2>1, <2>2, <2>3 DEF ChunkAt
<1>7. \A d \in DOMAIN T2 : P2[d] = Used(0) <=> d \in Firsts(banks, J)
  <2> SUFFICES ASSUME NEW d \in DOMAIN T PROVE P2[d] = Used(0) <=> d \in Firsts(banks, J)
    BY <1>2
  <2>1. CASE d = n
    <3>1. v # Used(0)
      BY <1>1 DEF Used
    <3> QED
      BY <1>1, <1>4, <2>1, <3>1
  <2>2. CASE d # n
    BY <1>4, <2>2 DEF Headed
  <2> QED
    BY <2>1, <2>2
<1>8. \A d \in DOMAIN T2 : P2[d] # Used(0) => Preceded(T2, d)
  <2> SUFFICES ASSUME NEW d \in DOMAIN T, P2[d] # Used(0) PROVE Preceded(T2, d)
    BY <1>2
  <2>1. Preceded(T, d)
    <3>1. CASE d = n
      BY <3>1 DEF Preceded, n
    <3>2. CASE d # n
      BY <1>4, <3>2 DEF Headed
    <3> QED
      BY <3>1, <3>2
  <2>2. PICK b \in DOMAIN T : T[b].size # 0 /\ b + T[b].size = d
    BY <2>1 DEF Preceded
  <2> QED
    BY <1>2, <1>3, <2>2 DEF Preceded
<1> QED
  BY <1>2, <1>5, <1>6, <1>7, <1>8 DEF Headed

\* The heads after a split.
Split(T, P, c, k, r, T2, P2) ==
  /\ T2 = Put([T EXCEPT ![c] = Used(k)], c + k, Free(r))
  /\ P2 = Put([P EXCEPT ![c + T[c].size] = Free(r)], c + k, Used(k))

\* A chunk is split.
LEMMA HeadSplit ==
  ASSUME NEW T, NEW P, NEW banks, NEW J, Headed(T, P, banks, J), NEW c \in DOMAIN T, T[c].size # 0,
         NEW k \in Nat, k >= 16, k % 4 = 0, NEW r \in Nat, r >= 16, k + r = T[c].size,
         NEW T2, NEW P2, Split(T, P, c, k, r, T2, P2)
  PROVE  Headed(T2, P2, banks, J) /\ c + k \notin DOMAIN T
<1> DEFINE n == c + T[c].size
           e == c + k
<1>1. /\ T[c].size \in Nat /\ n \in DOMAIN T /\ P[n] = T[c] /\ c \in Nat
      /\ \A d \in DOMAIN T : d \in Nat /\ (d <= c \/ d >= n)
      /\ \A d \in DOMAIN T : T[d].size # 0 /\ d + T[d].size = n => d = c
      /\ n \notin Firsts(banks, J)
  BY ChunkIs
<1>2. n = e + r /\ e \in Nat /\ e > c /\ e < n /\ e \notin DOMAIN T
  <2>1. n = e + r /\ e \in Nat /\ e > c /\ e < n
    BY <1>1
  <2> HIDE DEF n, e
  <2> QED
    BY <1>1, <2>1
<1>3. Used(k) \in Infos /\ Free(r) \in Infos /\ DOMAIN P = DOMAIN T
  BY DEF Used, Free, Infos, Headed
<1>4. /\ [T EXCEPT ![c] = Used(k)] \in [DOMAIN T -> Infos]
      /\ [P EXCEPT ![n] = Free(r)] \in [DOMAIN T -> Infos]
  BY <1>3 DEF Headed
<1> DEFINE A == [T EXCEPT ![c] = Used(k)]
           B == [P EXCEPT ![n] = Free(r)]
<1>5. /\ T2 = Put(A, e, Free(r)) /\ P2 = Put(B, e, Used(k))
      /\ \A d \in DOMAIN T : /\ A[d] = (IF d = c THEN Used(k) ELSE T[d])
                           /\ B[d] = (IF d = n THEN Free(r) ELSE P[d])
  BY <1>3 DEF Split
<1>19. A \in [DOMAIN T -> Infos] /\ B \in [DOMAIN T -> Infos]
  BY <1>4
<1> HIDE DEF A, B, n, e
<1>6. DOMAIN T2 = DOMAIN T \cup {e} /\ T2 \in [DOMAIN T2 -> Infos] /\ P2 \in [DOMAIN T2 -> Infos]
  <2>1. T2 \in [DOMAIN T \cup {e} -> Infos]
    BY <1>3, <1>5, <1>19, PutType
  <2>2. P2 \in [DOMAIN T \cup {e} -> Infos]
    BY <1>3, <1>5, <1>19, PutType
  <2> QED
    BY <2>1, <2>2
<1>7. /\ \A d \in DOMAIN T : T2[d] = (IF d = c THEN Used(k) ELSE T[d])
      /\ T2[e] = Free(r)
      /\ \A d \in DOMAIN T : P2[d] = (IF d = n THEN Free(r) ELSE P[d])
      /\ P2[e] = Used(k)
  <2>1. \A d \in DOMAIN T : d # e
    BY <1>2
  <2>2. DOMAIN A = DOMAIN T /\ DOMAIN B = DOMAIN T
    BY <1>19
  <2>3. \A d \in DOMAIN T : T2[d] = A[d] /\ P2[d] = B[d]
    <3> SUFFICES ASSUME NEW d \in DOMAIN T PROVE T2[d] = A[d] /\ P2[d] = B[d]
      OBVIOUS
    <3>1. d \in DOMAIN A /\ d \in DOMAIN B /\ d # e
      BY <2>1, <2>2
    <3>2. Put(A, e, Free(r))[d] = A[d]
      BY <3>1, PutElse
    <3>3. Put(B, e, Used(k))[d] = B[d]
      BY <3>1, PutElse
    <3> QED
      BY <1>5, <3>2, <3>3
  <2>4. T2[e] = Free(r) /\ P2[e] = Used(k)
    BY <1>5, PutHere
  <2> QED
    BY <1>5, <2>3, <2>4
<1>8. /\ T2[c] = Used(k) /\ T2[c].size = k /\ T2[e].size = r
      /\ \A d \in DOMAIN T : d # c => T2[d].size = T[d].size
  <2>1. Used(k).size = k /\ Free(r).size = r
    BY DEF Used, Free
  <2> QED
    BY <1>7, <2>1
<1>9. PICK i \in J : banks[i].StartAddr <= c /\ n + ChunkHead <= banks[i].EndAddr
  BY DEF Headed, ChunkAt, n
<1>10. /\ c \in 1 .. Modulus - 1 /\ c % 4 = 0 /\ n \in 1 .. Modulus - 1
       /\ banks[i].StartAddr \in Nat /\ banks[i].EndAddr \in Nat /\ Modulus \in Nat
  <2>1. Modulus \in Nat
    BY HeapAssumption
  <2> QED
    BY <1>1, <2>1 DEF Headed, Banked
<1>11. e \in 1 .. Modulus - 1 /\ e % 4 = 0
  <2>1. e \in 1 .. Modulus - 1
    BY <1>1, <1>2, <1>10
  <2>2. (c + k) % 4 = 0
    BY <1>1, <1>10
  <2> QED
    BY <2>1, <2>2 DEF e
<1>12. \A d \in DOMAIN T2 : d \in 1 .. Modulus - 1 /\ d % 4 = 0 /\ (T2[d].size = 0 => T2[d].used)
  <2> SUFFICES ASSUME NEW d \in DOMAIN T2
               PROVE  d \in 1 .. Modulus - 1 /\ d % 4 = 0 /\ (T2[d].size = 0 => T2[d].used)
    OBVIOUS
  <2>1. CASE d = e
    BY <1>8, <1>11, <2>1
  <2>2. CASE d # e
    <3>1. d \in DOMAIN T
      BY <1>6, <2>2
    <3>2. d \in 1 .. Modulus - 1 /\ d % 4 = 0 /\ (T[d].size = 0 => T[d].used)
      BY <3>1 DEF Headed
    <3>3. d = c => T2[d].size # 0
      BY <1>8
    <3>4. d # c => T2[d] = T[d]
      BY <1>7, <3>1
    <3> QED
      BY <3>2, <3>3, <3>4
  <2> QED
    BY <2>1, <2>2
<1>13. ChunkAt(T2, P2, banks, J, c)
  <2>1. c + T2[c].size = e /\ T2[c].size >= MIN_CHUNK_SIZE
    BY <1>8 DEF e, MIN_CHUNK_SIZE
  <2>2. P2[e] = T2[c] /\ e \in DOMAIN T2
    BY <1>6, <1>7, <1>8
  <2>3. \A d \in DOMAIN T2 : d <= c \/ d >= e
    BY <1>1, <1>2, <1>6
  <2>4. e + ChunkHead <= banks[i].EndAddr
    BY <1>1, <1>2, <1>9, <1>10 DEF ChunkHead
  <2> QED
    BY <1>9, <2>1, <2>2, <2>3, <2>4 DEF ChunkAt
<1>14. ChunkAt(T2, P2, banks, J, e)
  <2>1. e + T2[e].size = n /\ T2[e].size >= MIN_CHUNK_SIZE
    BY <1>2, <1>8 DEF MIN_CHUNK_SIZE
  <2>2. P2[n] = T2[e] /\ n \in DOMAIN T2
    BY <1>1, <1>6, <1>7
  <2>3. \A d \in DOMAIN T2 : d <= e \/ d >= n
    BY <1>1, <1>2, <1>6
  <2>4. banks[i].StartAddr <= e
    BY <1>1, <1>2, <1>9, <1>10
  <2> QED
    BY <1>9, <2>1, <2>2, <2>3, <2>4 DEF ChunkAt
<1>15. ASSUME NEW d \in DOMAIN T, d # c, T[d].size # 0 PROVE ChunkAt(T2, P2, banks, J, d)
  <2>1. ChunkAt(T, P, banks, J, d)
    BY <1>15 DEF Headed
  <2>2. T2[d] = T[d] /\ d + T[d].size \in DOMAIN T /\ d + T[d].size # n
    BY <1>1, <1>7, <1>15, <2>1 DEF ChunkAt
  <2>3. P2[d + T[d].size] = T2[d]
    BY <1>7, <2>1, <2>2 DEF ChunkAt
  <2>4. \A x \in DOMAIN T2 : x <= d \/ x >= d + T[d].size
    <3> SUFFICES ASSUME NEW x \in DOMAIN T2 PROVE x <= d \/ x >= d + T[d].size
      OBVIOUS
    <3>1. \A y \in DOMAIN T : y <= d \/ y >= d + T[d].size
      BY <2>1 DEF ChunkAt
    <3>2. CASE x = e
      <4>1. c <= d \/ c >= d + T[d].size
        BY <3>1
      <4>2. d <= c \/ d >= n
        BY <1>1
      <4>3. d \in Nat /\ T[d].size \in Nat
        BY <1>1, <1>15 DEF Headed, Infos
      <4> QED
        BY <1>1, <1>2, <1>15, <3>2, <4>1, <4>2, <4>3
    <3> QED
      BY <1>6, <3>1, <3>2
  <2> QED
    BY <1>6, <2>1, <2>2, <2>3, <2>4 DEF ChunkAt
<1>16. \A d \in DOMAIN T2 : T2[d].size # 0 => ChunkAt(T2, P2, banks, J, d)
  <2> SUFFICES ASSUME NEW d \in DOMAIN T2, T2[d].size # 0 PROVE ChunkAt(T2, P2, banks, J, d)
    OBVIOUS
  <2>1. CASE d = c \/ d = e
    BY <1>13, <1>14, <2>1
  <2>2. CASE d # c /\ d # e
    BY <1>6, <1>8, <1>15, <2>2
  <2> QED
    BY <2>1, <2>2
<1>17. \A d \in DOMAIN T2 : P2[d] = Used(0) <=> d \in Firsts(banks, J)
  <2>1. Used(k) # Used(0) /\ Free(r) # Used(0)
    BY DEF Used, Free
  <2>2. e \notin Firsts(banks, J)
    <3>1. Banked(banks, J) /\ e \in Nat /\ c < e /\ e + ChunkHead <= banks[i].EndAddr
      BY <1>1, <1>2, <1>9, <1>10 DEF Headed, ChunkHead
    <3> QED
      BY <1>1, <1>9, <1>10, <1>11, <3>1, NotFirst
  <2> SUFFICES ASSUME NEW d \in DOMAIN T2 PROVE P2[d] = Used(0) <=> d \in Firsts(banks, J)
    OBVIOUS
  <2>3. CASE d = e
    BY <1>7, <2>1, <2>2, <2>3
  <2>4. CASE d = n
    BY <1>1, <1>7, <2>1, <2>4
  <2>5. CASE d # e /\ d # n
    <3>1. d \in DOMAIN T /\ P2[d] = P[d]
      BY <1>6, <1>7, <2>5
    <3> QED
      BY <3>1 DEF Headed
  <2> QED
    BY <2>3, <2>4, <2>5
<1>18. \A d \in DOMAIN T2 : P2[d] # Used(0) => Preceded(T2, d)
  <2> SUFFICES ASSUME NEW d \in DOMAIN T2, P2[d] # Used(0) PROVE Preceded(T2, d)
    OBVIOUS
  <2>1. CASE d = e
    <3>1. c \in DOMAIN T2 /\ T2[c].size # 0 /\ c + T2[c].size = d
      BY <1>6, <1>8, <2>1 DEF e
    <3> QED
      BY <3>1 DEF Preceded
  <2>2. CASE d = n
    <3>1. e \in DOMAIN T2 /\ T2[e].size # 0 /\ e + T2[e].size = d
      BY <1>2, <1>6, <1>8, <2>2
    <3> QED
      BY <3>1 DEF Preceded
  <2>3. CASE d # e /\ d # n
    <3>1. d \in DOMAIN T /\ P2[d] = P[d]
      BY <1>6, <1>7, <2>3
    <3>2. Preceded(T, d)
      BY <3>1 DEF Headed
    <3>3. PICK b \in DOMAIN T : T[b].size # 0 /\ b + T[b].size = d
      BY <3>2 DEF Preceded
    <3>4. b # c
      BY <2>3, <3>3 DEF n
    <3>5. b \in DOMAIN T2 /\ T2[b].size = T[b].size
      BY <1>6, <1>8, <3>4
    <3> QED
      BY <3>3, <3>5 DEF Preceded
  <2> QED
    BY <2>1, <2>2, <2>3
<1> QED
  BY <1>2, <1>6, <1>12, <1>16, <1>17, <1>18 DEF Headed, e

\* The heads after two chunks become one.
Joined(T, P, c, gone, n, T2, P2) ==
  /\ T2 = [Drop(T, gone) EXCEPT ![c] = Free(n)]
  /\ P2 = [Drop(P, gone) EXCEPT ![c + n] = Free(n)]

Combined(T, P, c, gone, n, T2, P2) ==
  /\ n \in Nat /\ DOMAIN T2 = DOMAIN T \ {gone}
  /\ \A d \in DOMAIN T \ {gone} : T2[d] = (IF d = c THEN Free(n) ELSE T[d])
  /\ \A d \in DOMAIN T \ {gone} : P2[d] = (IF d = c + n THEN Free(n) ELSE P[d])
  /\ c \in DOMAIN T \ {gone} /\ c + n \in DOMAIN T \ {gone} /\ gone \in DOMAIN T

\* A chunk takes in the one behind it.
LEMMA HeadJoined ==
  ASSUME NEW T, NEW P, NEW banks, NEW J, Headed(T, P, banks, J), NEW c \in DOMAIN T, T[c].size # 0,
         NEW gone, gone = c + T[c].size, T[gone].size # 0,
         NEW n, n = T[c].size + T[gone].size, NEW T2, NEW P2, Joined(T, P, c, gone, n, T2, P2)
  PROVE  Headed(T2, P2, banks, J) /\ Combined(T, P, c, gone, n, T2, P2)
<1> DEFINE e == c + n
<1>1. /\ T[c].size \in Nat /\ T[c].size >= 16 /\ c \in Nat /\ gone \in DOMAIN T /\ gone # c
      /\ \A d \in DOMAIN T : d \in Nat /\ (d <= c \/ d >= gone)
      /\ \A d \in DOMAIN T : T[d].size # 0 /\ d + T[d].size = gone => d = c
  BY ChunkIs
<1>2. /\ T[gone].size \in Nat /\ T[gone].size >= 16 /\ gone \in Nat
      /\ gone + T[gone].size \in DOMAIN T
      /\ \A d \in DOMAIN T : d <= gone \/ d >= gone + T[gone].size
      /\ \A d \in DOMAIN T : T[d].size # 0 /\ d + T[d].size = gone + T[gone].size => d = gone
      /\ gone + T[gone].size \notin Firsts(banks, J)
  BY <1>1, ChunkIs
<1>3. gone + T[gone].size = e /\ n \in Nat /\ n >= 16 /\ e # gone /\ e # c /\ e \in Nat
  BY <1>1, <1>2
<1>4. Free(n) \in Infos /\ DOMAIN P = DOMAIN T /\ Free(n).size = n /\ Free(n) # Used(0)
  BY <1>3 DEF Free, Used, Infos, Headed
<1> HIDE DEF e
<1> DEFINE A == Drop(T, gone)
           B == Drop(P, gone)
<1>5. /\ DOMAIN A = DOMAIN T \ {gone} /\ \A d \in DOMAIN T \ {gone} : A[d] = T[d]
      /\ DOMAIN B = DOMAIN T \ {gone} /\ \A d \in DOMAIN T \ {gone} : B[d] = P[d]
  BY <1>4 DEF Drop
<1>6. T2 = [A EXCEPT ![c] = Free(n)] /\ P2 = [B EXCEPT ![e] = Free(n)]
  BY DEF Joined, e
<1> HIDE DEF A, B
<1>7. /\ DOMAIN T2 = DOMAIN T \ {gone} /\ DOMAIN P2 = DOMAIN T \ {gone}
      /\ \A d \in DOMAIN T \ {gone} : T2[d] = (IF d = c THEN Free(n) ELSE T[d])
      /\ \A d \in DOMAIN T \ {gone} : P2[d] = (IF d = e THEN Free(n) ELSE P[d])
      /\ c \in DOMAIN T \ {gone} /\ e \in DOMAIN T \ {gone}
  <2>1. c \in DOMAIN T \ {gone} /\ e \in DOMAIN T \ {gone}
    BY <1>1, <1>2, <1>3
  <2>2. DOMAIN T2 = DOMAIN A /\ DOMAIN P2 = DOMAIN B
    BY <1>6
  <2>3. \A d \in DOMAIN A : T2[d] = (IF d = c THEN Free(n) ELSE A[d])
    BY <1>6
  <2>4. \A d \in DOMAIN B : P2[d] = (IF d = e THEN Free(n) ELSE B[d])
    BY <1>6
  <2> QED
    BY <1>5, <2>1, <2>2, <2>3, <2>4
<1>8. T2 \in [DOMAIN T2 -> Infos] /\ P2 \in [DOMAIN T2 -> Infos]
  <2>1. T \in [DOMAIN T -> Infos] /\ P \in [DOMAIN T -> Infos]
    BY DEF Headed
  <2>2. \A d \in DOMAIN T2 : T2[d] \in Infos /\ P2[d] \in Infos
    BY <1>4, <1>7, <2>1
  <2>3. T2 = [d \in DOMAIN T2 |-> T2[d]] /\ P2 = [d \in DOMAIN T2 |-> P2[d]]
    BY <1>6, <1>7
  <2> QED
    BY <2>2, <2>3
<1>9. \A d \in DOMAIN T2 : d \in 1 .. Modulus - 1 /\ d % 4 = 0 /\ (T2[d].size = 0 => T2[d].used)
  <2> SUFFICES ASSUME NEW d \in DOMAIN T2
               PROVE  d \in 1 .. Modulus - 1 /\ d % 4 = 0 /\ (T2[d].size = 0 => T2[d].used)
    OBVIOUS
  <2>1. d \in DOMAIN T /\ d # gone
    BY <1>7
  <2>2. d \in 1 .. Modulus - 1 /\ d % 4 = 0 /\ (T[d].size = 0 => T[d].used)
    BY <2>1 DEF Headed
  <2>3. d = c => T2[d].size # 0
    BY <1>3, <1>4, <1>7
  <2>4. d # c => T2[d] = T[d]
    BY <1>7, <2>1
  <2> QED
    BY <2>2, <2>3, <2>4
<1>10. ChunkAt(T2, P2, banks, J, c)
  <2>1. T2[c] = Free(n) /\ T2[c].size = n /\ c + T2[c].size = e /\ e \in DOMAIN T2 /\ P2[e] = T2[c]
    BY <1>4, <1>7 DEF e
  <2>2. \A d \in DOMAIN T2 : d <= c \/ d >= e
    <3> SUFFICES ASSUME NEW d \in DOMAIN T2 PROVE d <= c \/ d >= e
      OBVIOUS
    <3>1. d \in DOMAIN T /\ d # gone
      BY <1>7
    <3>2. d \in Nat /\ (d <= c \/ d >= gone) /\ (d <= gone \/ d >= e)
      BY <1>1, <1>2, <1>3, <3>1
    <3> QED
      BY <1>1, <1>2, <3>1, <3>2
  <2>3. /\ ChunkAt(T, P, banks, J, c) /\ ChunkAt(T, P, banks, J, gone)
    BY <1>1 DEF Headed
  <2>4. PICK i \in J : banks[i].StartAddr <= c /\ gone + ChunkHead <= banks[i].EndAddr
    BY <2>3 DEF ChunkAt
  <2>5. PICK j \in J : banks[j].StartAddr <= gone /\ e + ChunkHead <= banks[j].EndAddr
    BY <1>3, <2>3 DEF ChunkAt
  <2>6. /\ banks[i].StartAddr \in Nat /\ banks[i].EndAddr \in Nat
        /\ banks[j].StartAddr \in Nat /\ banks[j].EndAddr \in Nat
        /\ i = j \/ banks[i].EndAddr <= banks[j].StartAddr \/ banks[j].EndAddr <= banks[i].StartAddr
    <3>1. Banked(banks, J)
      BY DEF Headed
    <3>2. /\ banks[i].StartAddr \in Nat /\ banks[i].EndAddr \in Nat
          /\ banks[j].StartAddr \in Nat /\ banks[j].EndAddr \in Nat
      BY <3>1, FirstIs
    <3> QED
      BY <3>1, <3>2 DEF Banked
  <2>7. i = j
    <3>1. c < gone /\ gone < e
      BY <1>1, <1>2, <1>3
    <3> QED
      BY <1>1, <1>2, <1>3, <2>4, <2>5, <2>6, <3>1 DEF ChunkHead
  <2> QED
    BY <1>3, <2>1, <2>2, <2>4, <2>5, <2>7 DEF ChunkAt, MIN_CHUNK_SIZE
<1>11. ASSUME NEW d \in DOMAIN T, d # c, d # gone, T[d].size # 0 PROVE ChunkAt(T2, P2, banks, J, d)
  <2>1. ChunkAt(T, P, banks, J, d)
    BY <1>11 DEF Headed
  <2>2. T2[d] = T[d] /\ d + T[d].size \in DOMAIN T /\ d + T[d].size # gone /\ d + T[d].size # e
    BY <1>1, <1>2, <1>3, <1>7, <1>11, <2>1 DEF ChunkAt
  <2>3. P2[d + T[d].size] = T2[d]
    BY <1>7, <2>1, <2>2 DEF ChunkAt
  <2> QED
    BY <1>7, <2>1, <2>2, <2>3 DEF ChunkAt
<1>12. \A d \in DOMAIN T2 : T2[d].size # 0 => ChunkAt(T2, P2, banks, J, d)
  <2> SUFFICES ASSUME NEW d \in DOMAIN T2, T2[d].size # 0 PROVE ChunkAt(T2, P2, banks, J, d)
    OBVIOUS
  <2>1. CASE d = c
    BY <1>10, <2>1
  <2>2. CASE d # c
    BY <1>7, <1>11, <2>2
  <2> QED
    BY <2>1, <2>2
<1>13. \A d \in DOMAIN T2 : P2[d] = Used(0) <=> d \in Firsts(banks, J)
  <2> SUFFICES ASSUME NEW d \in DOMAIN T2 PROVE P2[d] = Used(0) <=> d \in Firsts(banks, J)
    OBVIOUS
  <2>1. CASE d = e
    BY <1>2, <1>3, <1>4, <1>7, <2>1
  <2>2. CASE d # e
    <3>1. d \in DOMAIN T /\ P2[d] = P[d]
      BY <1>7, <2>2
    <3> QED
      BY <3>1 DEF Headed
  <2> QED
    BY <2>1, <2>2
<1>14. \A d \in DOMAIN T2 : P2[d] # Used(0) => Preceded(T2, d)
  <2> SUFFICES ASSUME NEW d \in DOMAIN T2, P2[d] # Used(0) PROVE Preceded(T2, d)
    OBVIOUS
  <2>1. CASE d = e
    <3>1. c \in DOMAIN T2 /\ T2[c].size = n /\ n # 0 /\ c + n = d
      BY <1>3, <1>4, <1>7, <2>1 DEF e
    <3> QED
      BY <3>1 DEF Preceded
  <2>2. CASE d # e
    <3>1. d \in DOMAIN T /\ d # gone /\ P2[d] = P[d]
      BY <1>7, <2>2
    <3>2. Preceded(T, d)
      BY <2>2, <3>1 DEF Headed
    <3>3. PICK b \in DOMAIN T : T[b].size # 0 /\ b + T[b].size = d
      BY <3>2 DEF Preceded
    <3>4. b # c /\ b # gone
      BY <1>3, <2>2, <3>1, <3>3
    <3>5. b \in DOMAIN T2 /\ T2[b] = T[b]
      BY <1>7, <3>4
    <3> QED
      BY <3>3, <3>5 DEF Preceded
  <2> QED
    BY <2>1, <2>2
<1> QED
  <2>1. Headed(T2, P2, banks, J)
    <3>1. Banked(banks, J)
      BY DEF Headed
    <3> QED
      BY <1>8, <1>9, <1>12, <1>13, <1>14, <3>1 DEF Headed
  <2> QED
    BY <1>1, <1>3, <1>7, <2>1 DEF e, Combined

-----------------------------------------------------------------------------
\* The free chunks by their heads, and the used ones.

Loose(T)  == {c \in DOMAIN T : T[c].size # 0 /\ ~T[c].used}
Frees(T)  == [c \in Loose(T) |-> T[c].size]
UsedOf(T) == {c \in DOMAIN T : T[c].size # 0 /\ T[c].used}
CoalAt(T) == \A c \in Loose(T) : T[c + T[c].size].used

\* The allocator at rest.
Good(h, banks) ==
  /\ Headed(h.ThisInfo, h.PrevInfo, banks, DOMAIN banks)
  /\ CoalAt(h.ThisInfo)
  /\ Listed(h, Frees(h.ThisInfo))

\* The size of a chunk.
LEMMA SizeIs ==
  ASSUME NEW T, NEW P, NEW banks, NEW J, Headed(T, P, banks, J), NEW c \in DOMAIN T, T[c].size # 0
  PROVE  /\ T[c].size \in MIN_CHUNK_SIZE .. Modulus - 1 /\ c \in Nat \ {0} /\ c # NULL
         /\ c + T[c].size \in 1 .. Modulus - 1
<1>1. T[c].size \in Nat /\ T[c].size >= 16 /\ c \in Nat /\ c > 0 /\ c + T[c].size \in DOMAIN T
  BY ChunkIs
<1>2. c + T[c].size \in 1 .. Modulus - 1 /\ Modulus \in Nat
  <2>1. Modulus \in Nat
    BY HeapAssumption
  <2> QED
    BY <1>1, <2>1 DEF Headed
<1> QED
  BY <1>1, <1>2 DEF MIN_CHUNK_SIZE, NULL

\* All of the free chunk c is used; the used chunk c is free; k bytes of the free chunk c
\* are used, and the rest is the free chunk e of r bytes.
Spent(T, T2, c) ==
  /\ Frees(T2) = Drop(Frees(T), c) /\ UsedOf(T2) = UsedOf(T) \cup {c}
  /\ \A d \in DOMAIN T : d # c => T2[d] = T[d]
  /\ T2[c] = Used(T[c].size) /\ DOMAIN T2 = DOMAIN T
Freed(T, T2, c) ==
  /\ Drop(Frees(T2), c) = Frees(T) /\ c \in Loose(T2) /\ UsedOf(T2) = UsedOf(T) \ {c}
  /\ \A d \in DOMAIN T : d # c => T2[d] = T[d]
  /\ T2[c] = Free(T[c].size) /\ DOMAIN T2 = DOMAIN T
Shared(T, T2, c, k, e, r) ==
  /\ Frees(T2) = Put(Drop(Frees(T), c), e, r) /\ DOMAIN T2 = DOMAIN T \cup {e}
  /\ UsedOf(T2) = UsedOf(T) \cup {c} /\ \A d \in DOMAIN T : d # c => T2[d] = T[d]
  /\ T2[c] = Used(k) /\ T2[e] = Free(r)

\* A free chunk becomes used.
LEMMA FreesUsed ==
  ASSUME NEW T, NEW c \in Loose(T), NEW T2, T2 = [T EXCEPT ![c] = Used(T[c].size)]
  PROVE  Spent(T, T2, c)
<1>1. /\ DOMAIN T2 = DOMAIN T /\ c \in DOMAIN T /\ T[c].size # 0
      /\ \A d \in DOMAIN T : T2[d] = (IF d = c THEN Used(T[c].size) ELSE T[d])
  BY DEF Loose
<1>2. Used(T[c].size).size = T[c].size /\ Used(T[c].size).used = TRUE
  BY DEF Used
<1>3. Loose(T2) = Loose(T) \ {c} /\ UsedOf(T2) = UsedOf(T) \cup {c}
  <2>1. ASSUME NEW d \in DOMAIN T
        PROVE  (d \in Loose(T2) <=> d \in Loose(T) \ {c}) /\ (d \in UsedOf(T2) <=> d \in UsedOf(T) \cup {c})
    <3>1. CASE d = c
      BY <1>1, <1>2, <3>1 DEF Loose, UsedOf
    <3>2. CASE d # c
      BY <1>1, <3>2 DEF Loose, UsedOf
    <3> QED
      BY <3>1, <3>2
  <2>2. Loose(T2) \subseteq DOMAIN T /\ Loose(T) \subseteq DOMAIN T /\ UsedOf(T2) \subseteq DOMAIN T
        /\ UsedOf(T) \subseteq DOMAIN T
    BY <1>1 DEF Loose, UsedOf
  <2> QED
    BY <1>1, <2>1, <2>2
<1>4. Frees(T2) = Drop(Frees(T), c)
  <2> DEFINE f == Frees(T2)
             g == Drop(Frees(T), c)
  <2>1. f = [x \in DOMAIN f |-> f[x]] /\ DOMAIN f = Loose(T2) /\ \A x \in Loose(T2) : f[x] = T2[x].size
    BY DEF Frees
  <2>2. g = [x \in DOMAIN g |-> g[x]] /\ DOMAIN g = Loose(T) \ {c}
        /\ \A x \in Loose(T) \ {c} : g[x] = T[x].size
    BY DEF Frees, Drop
  <2>3. \A x \in Loose(T) \ {c} : T2[x] = T[x]
    BY <1>1 DEF Loose
  <2> HIDE DEF f, g
  <2>4. DOMAIN f = DOMAIN g
    BY <1>3, <2>1, <2>2
  <2>5. \A x \in DOMAIN f : f[x] = g[x]
    BY ZenonT(40), <1>3, <2>1, <2>2, <2>3
  <2>6. f = [x \in DOMAIN f |-> f[x]] /\ g = [x \in DOMAIN g |-> g[x]]
    BY <2>1, <2>2
  <2>7. f = g
    BY <2>4, <2>5, <2>6
  <2> QED
    BY <2>7 DEF f, g
<1> QED
  BY <1>1, <1>3, <1>4 DEF Spent

\* A used chunk becomes free.
LEMMA FreesFreed ==
  ASSUME NEW T, NEW c \in UsedOf(T), NEW T2, T2 = [T EXCEPT ![c] = Free(T[c].size)]
  PROVE  Freed(T, T2, c)
<1>1. /\ DOMAIN T2 = DOMAIN T /\ c \in DOMAIN T /\ T[c].size # 0
      /\ \A d \in DOMAIN T : T2[d] = (IF d = c THEN Free(T[c].size) ELSE T[d])
  BY DEF UsedOf
<1>2. Free(T[c].size).size = T[c].size /\ Free(T[c].size).used = FALSE
  BY DEF Free
<1>3. Loose(T2) = Loose(T) \cup {c} /\ UsedOf(T2) = UsedOf(T) \ {c} /\ c \notin Loose(T)
  <2>1. ASSUME NEW d \in DOMAIN T
        PROVE  (d \in Loose(T2) <=> d \in Loose(T) \cup {c}) /\ (d \in UsedOf(T2) <=> d \in UsedOf(T) \ {c})
    <3>1. CASE d = c
      BY <1>1, <1>2, <3>1 DEF Loose, UsedOf
    <3>2. CASE d # c
      BY <1>1, <3>2 DEF Loose, UsedOf
    <3> QED
      BY <3>1, <3>2
  <2>2. Loose(T2) \subseteq DOMAIN T /\ Loose(T) \subseteq DOMAIN T /\ UsedOf(T2) \subseteq DOMAIN T
        /\ UsedOf(T) \subseteq DOMAIN T /\ c \notin Loose(T)
    BY <1>1 DEF Loose, UsedOf
  <2> QED
    BY <1>1, <2>1, <2>2
<1>4. Drop(Frees(T2), c) = Frees(T)
  <2> DEFINE f == Frees(T)
             g == Drop(Frees(T2), c)
  <2>1. f = [x \in DOMAIN f |-> f[x]] /\ DOMAIN f = Loose(T) /\ \A x \in Loose(T) : f[x] = T[x].size
    BY DEF Frees
  <2>2. g = [x \in DOMAIN g |-> g[x]] /\ DOMAIN g = Loose(T2) \ {c}
        /\ \A x \in Loose(T2) \ {c} : g[x] = T2[x].size
    BY DEF Frees, Drop
  <2>3. \A x \in Loose(T) : T2[x] = T[x]
    BY <1>1, <1>3 DEF Loose
  <2>4. Loose(T2) \ {c} = Loose(T)
    BY <1>3
  <2> HIDE DEF f, g
  <2>5. DOMAIN f = DOMAIN g
    BY <2>1, <2>2, <2>4
  <2>6. \A x \in DOMAIN f : f[x] = g[x]
    <3> SUFFICES ASSUME NEW x \in DOMAIN f PROVE f[x] = g[x]
      OBVIOUS
    <3>1. x \in Loose(T) /\ x \in Loose(T2) \ {c}
      BY <2>1, <2>4
    <3>2. f[x] = T[x].size /\ g[x] = T2[x].size /\ T2[x] = T[x]
      BY <2>1, <2>2, <2>3, <3>1
    <3> QED
      BY <3>2
  <2>7. f = [x \in DOMAIN f |-> f[x]] /\ g = [x \in DOMAIN g |-> g[x]]
    BY <2>1, <2>2
  <2>8. f = g
    BY <2>5, <2>6, <2>7
  <2> QED
    BY <2>8 DEF f, g
<1> QED
  BY <1>1, <1>3, <1>4 DEF Freed

\* A free chunk is split: the front is used, the rest free.
LEMMA FreesSplit ==
  ASSUME NEW T, NEW c \in Loose(T), NEW k \in Nat, k # 0, NEW r \in Nat, r # 0, NEW e, e \notin DOMAIN T,
         NEW T2, T2 = Put([T EXCEPT ![c] = Used(k)], e, Free(r))
  PROVE  Shared(T, T2, c, k, e, r)
<1> DEFINE A == [T EXCEPT ![c] = Used(k)]
<1>1. /\ DOMAIN A = DOMAIN T /\ c \in DOMAIN T /\ T[c].size # 0 /\ c # e
      /\ \A d \in DOMAIN T : A[d] = (IF d = c THEN Used(k) ELSE T[d])
      /\ T2 = Put(A, e, Free(r))
  BY DEF Loose
<1> HIDE DEF A
<1>2. /\ DOMAIN T2 = DOMAIN T \cup {e} /\ T2[e] = Free(r)
      /\ \A d \in DOMAIN T : T2[d] = (IF d = c THEN Used(k) ELSE T[d])
  <2>1. DOMAIN T2 = DOMAIN T \cup {e}
    BY <1>1 DEF Put
  <2>2. T2[e] = Free(r)
    BY <1>1, PutHere
  <2>3. \A d \in DOMAIN T : T2[d] = A[d]
    BY <1>1, PutElse
  <2> QED
    BY <1>1, <2>1, <2>2, <2>3
<1>3. /\ Used(k).size = k /\ Used(k).used = TRUE
      /\ Free(r).size = r /\ Free(r).used = FALSE
  BY DEF Used, Free
<1>4. Loose(T2) = (Loose(T) \ {c}) \cup {e} /\ UsedOf(T2) = UsedOf(T) \cup {c}
  <2>1. ASSUME NEW d \in DOMAIN T2
        PROVE  /\ d \in Loose(T2) <=> d \in (Loose(T) \ {c}) \cup {e}
               /\ d \in UsedOf(T2) <=> d \in UsedOf(T) \cup {c}
    <3>1. CASE d = c
      BY <1>1, <1>2, <1>3, <3>1 DEF Loose, UsedOf
    <3>2. CASE d = e
      BY <1>1, <1>2, <1>3, <3>2 DEF Loose, UsedOf
    <3>3. CASE d # c /\ d # e
      BY <1>1, <1>2, <3>3 DEF Loose, UsedOf
    <3> QED
      BY <3>1, <3>2, <3>3
  <2>2. Loose(T2) \subseteq DOMAIN T2 /\ Loose(T) \subseteq DOMAIN T /\ UsedOf(T2) \subseteq DOMAIN T2
        /\ UsedOf(T) \subseteq DOMAIN T
    BY DEF Loose, UsedOf
  <2> QED
    BY <1>1, <1>2, <2>1, <2>2
<1>5. Frees(T2) = Put(Drop(Frees(T), c), e, r)
  <2> DEFINE f == Frees(T2)
             g == Put(Drop(Frees(T), c), e, r)
  <2>1. f = [x \in DOMAIN f |-> f[x]] /\ DOMAIN f = Loose(T2) /\ \A x \in Loose(T2) : f[x] = T2[x].size
    BY DEF Frees
  <2>2. /\ g = [x \in DOMAIN g |-> g[x]] /\ DOMAIN g = (Loose(T) \ {c}) \cup {e}
        /\ g[e] = r
    BY DEF Frees, Drop, Put
  <2>3. \A x \in Loose(T) \ {c} : x # e => g[x] = T[x].size
    BY DEF Frees, Drop, Put
  <2>4. \A x \in Loose(T) \ {c} : T2[x] = T[x] /\ x # e
    BY <1>2 DEF Loose
  <2> HIDE DEF f, g
  <2>5. DOMAIN f = DOMAIN g
    BY <1>4, <2>1, <2>2
  <2>6. \A x \in DOMAIN f : f[x] = g[x]
    <3>1. f[e] = g[e]
      BY <1>2, <1>3, <1>4, <2>1, <2>2
    <3>2. \A x \in Loose(T) \ {c} : f[x] = g[x]
      BY ZenonT(40), <1>4, <2>1, <2>3, <2>4
    <3> QED
      BY <1>4, <2>1, <3>1, <3>2
  <2>7. f = [x \in DOMAIN f |-> f[x]] /\ g = [x \in DOMAIN g |-> g[x]]
    BY <2>1, <2>2
  <2>8. f = g
    BY <2>5, <2>6, <2>7
  <2> QED
    BY <2>8 DEF f, g
<1> QED
  BY <1>1, <1>2, <1>4, <1>5 DEF Shared

-----------------------------------------------------------------------------
\* A request.

\* Another head of the chunk c and in front of the one at e; the lists stay.
Relabelled(g, h, T2, P2) ==
  /\ Record(g) /\ g.ThisInfo = T2 /\ g.PrevInfo = P2
  /\ g.pFreeNext = h.pFreeNext /\ g.pFreePrev = h.pFreePrev /\ g.pChild = h.pChild
  /\ g.pParent = h.pParent /\ g.Index = h.Index /\ g.SameMap = h.SameMap
  /\ g.TreeMap = h.TreeMap /\ g.tree = h.tree

\* The lists stay right.
LEMMA RelabelledListed ==
  ASSUME NEW h, NEW sz, Listed(h, sz), NEW g, NEW T2, NEW P2, Relabelled(g, h, T2, P2)
  PROVE  Listed(g, sz) /\ g.ThisInfo = T2 /\ g.PrevInfo = P2
BY ListedSame DEF Relabelled

\* The split of c, of s bytes, into k bytes and the rest.
Cutting(cut, g, c, k, s) ==
  /\ s - k < 16 =>
       /\ cut[1] = NULL
       /\ Relabelled(cut[2], g, [g.ThisInfo EXCEPT ![c] = Used(s)],
                     [g.PrevInfo EXCEPT ![c + s] = Used(s)])
  /\ s - k >= 16 =>
       /\ cut[1] = c + k
       /\ Relabelled(cut[2], g,
                     Put([g.ThisInfo EXCEPT ![c] = Used(k)], c + k, Free(s - k)),
                     Put([g.PrevInfo EXCEPT ![c + s] = Free(s - k)], c + k, Used(k)))

\* What splitting a chunk does to the heads.
LEMMA SpliteIs ==
  ASSUME NEW g, Record(g), NEW c, NEW k \in 0 .. Modulus - 1, NEW s \in 0 .. Modulus - 1,
         g.ThisInfo[c].size = s, k <= s
  PROVE  Cutting(splite_free_chunk(g, c, k), g, c, k, s)
<1> DEFINE T == g.ThisInfo
           P == g.PrevInfo
           r == s - k
           cut == splite_free_chunk(g, c, k)
<1>1. Sub(s, k) = r /\ r \in Int
  BY SubIs
<1>2. Size(g, c) = s
  BY DEF Size
<1>3. r < 16 => cut = <<NULL, [g EXCEPT !.ThisInfo[c] = Used(s), !.PrevInfo[c + s] = Used(s)]>>
  <2> SUFFICES ASSUME r < 16
               PROVE  cut = <<NULL, [g EXCEPT !.ThisInfo[c] = Used(s), !.PrevInfo[c + s] = Used(s)]>>
    OBVIOUS
  <2> HIDE DEF r
  <2> QED
    BY <1>1, <1>2 DEF splite_free_chunk, MIN_CHUNK_SIZE
<1>4. r >= 16 => cut = <<c + k, [g EXCEPT !.ThisInfo = Put([T EXCEPT ![c] = Used(k)], c + k, Free(r)),
                                          !.PrevInfo = Put([P EXCEPT ![c + s] = Free(r)], c + k, Used(k))]>>
  <2> SUFFICES ASSUME r >= 16
               PROVE  cut = <<c + k, [g EXCEPT !.ThisInfo = Put([T EXCEPT ![c] = Used(k)], c + k, Free(r)),
                                          !.PrevInfo = Put([P EXCEPT ![c + s] = Free(r)], c + k, Used(k))]>>
    OBVIOUS
  <2>1. ~(Sub(s, k) < MIN_CHUNK_SIZE)
    BY <1>1 DEF MIN_CHUNK_SIZE
  <2> HIDE DEF r
  <2> QED
    BY <1>1, <1>2, <2>1 DEF splite_free_chunk
<1> HIDE DEF cut
<1>5. CASE r < 16
  <2> DEFINE T2 == [T EXCEPT ![c] = Used(s)]
             P2 == [P EXCEPT ![c + s] = Used(s)]
  <2>1. cut = <<NULL, [g EXCEPT !.ThisInfo = T2, !.PrevInfo = P2]>>
    BY <1>3, <1>5
  <2> HIDE DEF T2, P2
  <2>2. cut[1] = NULL /\ Relabelled(cut[2], g, T2, P2)
    BY <2>1 DEF Relabelled, Record, Fields
  <2>3. ~(s - k >= 16)
    BY <1>1, <1>5
  <2> QED
    BY <2>2, <2>3 DEF T2, P2, cut, Cutting
<1>6. CASE r >= 16
  <2> DEFINE T2 == Put([T EXCEPT ![c] = Used(k)], c + k, Free(r))
             P2 == Put([P EXCEPT ![c + s] = Free(r)], c + k, Used(k))
  <2>1. cut = <<c + k, [g EXCEPT !.ThisInfo = T2, !.PrevInfo = P2]>>
    BY <1>4, <1>6
  <2> HIDE DEF T2, P2
  <2>2. cut[1] = c + k /\ Relabelled(cut[2], g, T2, P2)
    BY <2>1 DEF Relabelled, Record, Fields
  <2>3. ~(s - k < 16)
    BY <1>1, <1>6
  <2> QED
    BY <2>2, <2>3 DEF T2, P2, cut, Cutting
<1> QED
  BY <1>1, <1>5, <1>6

\* What a request changes for the callers: c is used, has room for m bytes, and no other
\* chunk that is used is touched.
Handed(T, T2, c, m) ==
  /\ c \in UsedOf(T2) /\ c \notin UsedOf(T) /\ UsedOf(T2) = UsedOf(T) \cup {c}
  /\ \A d \in UsedOf(T) : T2[d] = T[d]
  /\ T2[c].size >= m + ChunkHead

\* The sizes of the free chunks are those in their heads.
LEMMA FreesFit ==
  ASSUME NEW h, NEW banks, Good(h, banks)
  PROVE  /\ Fits(h, Frees(h.ThisInfo)) /\ Record(h)
         /\ DOMAIN Frees(h.ThisInfo) = Loose(h.ThisInfo)
         /\ \A c \in Loose(h.ThisInfo) : Frees(h.ThisInfo)[c] = h.ThisInfo[c].size
BY DEF Good, Fits, Frees, Size, Listed

\* A chunk that is found is cut to size, and what is over goes back.
LEMMA MallocGood ==
  ASSUME NEW h, NEW banks, Good(h, banks),
         NEW m \in Nat, m >= 16, m % 4 = 0, is_small(m) => m % 8 = 0, m + ChunkHead \in 0 .. Modulus - 1,
         NEW out, out = checkout(h, m), out[1] # NULL,
         NEW cut, cut = splite_free_chunk(out[2], out[1], m + ChunkHead),
         NEW h2, h2 = checkin_free_chunk(cut[2], cut[1],
                                         IF cut[1] = NULL THEN 0 ELSE Size(cut[2], cut[1]))
  PROVE  Good(h2, banks) /\ Handed(h.ThisInfo, h2.ThisInfo, out[1], m)
<1> DEFINE T == h.ThisInfo
           P == h.PrevInfo
           sz == Frees(T)
           J == DOMAIN banks
           c == out[1]
           g == out[2]
           s == T[c].size
           k == m + ChunkHead
<1>1. Headed(T, P, banks, J) /\ CoalAt(T) /\ Listed(h, sz) /\ Fits(h, sz)
  BY FreesFit DEF Good
<1>2. Taken(h, sz, m, out)
  <2> HIDE DEF sz
  <2> QED
    BY <1>1, CheckOut
<1>3. c \in Loose(T) /\ s >= k /\ Listed(g, Drop(sz, c)) /\ g.ThisInfo = T /\ g.PrevInfo = P
  <2>1. c \in DOMAIN sz /\ sz[c] >= k /\ Listed(g, Drop(sz, c)) /\ Heads(g, h)
    <3> HIDE DEF sz
    <3> QED
      BY <1>2 DEF Taken, Best
  <2> QED
    BY <2>1 DEF Frees, Heads
<1>4. c \in DOMAIN T /\ s # 0 /\ ~T[c].used
  BY <1>3 DEF Loose
<1> HIDE DEF sz
<1>5. /\ s \in MIN_CHUNK_SIZE .. Modulus - 1 /\ c \in Nat \ {0} /\ c + s \in 1 .. Modulus - 1
      /\ c + s \in DOMAIN T /\ c + s # c
  BY <1>1, <1>4, SizeIs, ChunkIs
<1>6. k \in 0 .. Modulus - 1 /\ k \in Nat /\ k >= 16 /\ k % 4 = 0 /\ s \in 0 .. Modulus - 1
  BY <1>5 DEF ChunkHead, MIN_CHUNK_SIZE
<1>7. Record(g) /\ g.ThisInfo[c].size = s
  BY <1>3 DEF Listed
<1>8. c \notin UsedOf(T) /\ \A d \in UsedOf(T) : d \in DOMAIN T /\ d # c
  BY <1>4 DEF UsedOf
<1> HIDE DEF c, g, k
<1>9. CASE s - k < 16
  <2> DEFINE T2 == [T EXCEPT ![c] = Used(s)]
             P2 == [P EXCEPT ![c + s] = Used(s)]
  <2>1. cut[1] = NULL /\ Relabelled(cut[2], g, T2, P2)
    <3>1. cut = splite_free_chunk(g, c, k)
      BY DEF c, g, k
    <3>2. s - k >= 0 /\ k <= s
      BY <1>3, <1>6 DEF k
    <3>3. Cutting(cut, g, c, k, s)
      BY <1>6, <1>7, <3>1, <3>2, SpliteIs
    <3> QED
      BY <1>3, <1>9, <3>3 DEF Cutting
  <2>2. h2 = cut[2]
    BY <2>1 DEF checkin_free_chunk
  <2>3. Listed(h2, Drop(sz, c)) /\ h2.ThisInfo = T2 /\ h2.PrevInfo = P2
    <3> HIDE DEF T2, P2
    <3> QED
      BY <1>3, <2>1, <2>2, RelabelledListed
  <2>4. Headed(T2, P2, banks, J)
    <3>1. Used(s) \in Infos /\ Used(s).size = s
      BY <1>5 DEF Used, Infos, MIN_CHUNK_SIZE
    <3> QED
      BY <1>1, <1>4, <3>1, HeadMarked
  <2>5. /\ Frees(T2) = Drop(sz, c) /\ UsedOf(T2) = UsedOf(T) \cup {c}
        /\ \A d \in DOMAIN T : d # c => T2[d] = T[d]
        /\ T2[c] = Used(s) /\ DOMAIN T2 = DOMAIN T
    <3>1. Spent(T, T2, c)
      BY <1>3, FreesUsed
    <3> HIDE DEF T2
    <3> QED
      BY <3>1 DEF Spent, sz
  <2> HIDE DEF T2, P2
  <2>6. Used(s).size = s /\ Used(s).used
    BY DEF Used
  <2>7. CoalAt(T2)
    <3> SUFFICES ASSUME NEW d \in Loose(T2) PROVE T2[d + T2[d].size].used
      BY DEF CoalAt
    <3>1. d \in DOMAIN T /\ d # c
      BY <2>5, <2>6 DEF Loose
    <3>2. T2[d] = T[d] /\ d \in Loose(T)
      BY <2>5, <3>1 DEF Loose
    <3>3. T[d + T[d].size].used /\ d + T[d].size \in DOMAIN T
      <4>1. T[d + T[d].size].used
        BY <1>1, <3>2 DEF CoalAt
      <4>2. T[d].size # 0
        BY <3>2 DEF Loose
      <4>3. d + T[d].size \in DOMAIN T
        BY <1>1, <3>1, <4>2, ChunkIs
      <4> QED
        BY <4>1, <4>3
    <3> QED
      BY <2>5, <2>6, <3>2, <3>3
  <2>8. Good(h2, banks)
    BY <2>3, <2>4, <2>5, <2>7 DEF Good
  <2>9. Handed(T, T2, c, m)
    BY <1>3, <1>8, <2>5, <2>6 DEF Handed, k
  <2> QED
    BY <2>3, <2>8, <2>9 DEF c
<1>10. CASE ~(s - k < 16)
  <2> DEFINE e == c + k
             r == s - k
             T2 == Put([T EXCEPT ![c] = Used(k)], e, Free(r))
             P2 == Put([P EXCEPT ![c + s] = Free(r)], e, Used(k))
  <2>1. r \in Nat /\ r >= 16 /\ k + r = s /\ r \in MIN_CHUNK_SIZE .. Modulus - 1
    <3>1. Modulus \in Nat
      BY HeapAssumption
    <3> QED
      BY <1>5, <1>6, <1>10, <3>1 DEF MIN_CHUNK_SIZE
  <2>2. cut[1] = e /\ Relabelled(cut[2], g, T2, P2)
    <3>1. cut = splite_free_chunk(g, c, k)
      BY DEF c, g, k
    <3>2. s - k >= 16 /\ k <= s
      BY <1>6, <2>1
    <3>3. Cutting(cut, g, c, k, s)
      BY <1>6, <1>7, <3>1, <3>2, SpliteIs
    <3> QED
      BY <1>3, <3>2, <3>3 DEF Cutting
  <2>3. Split(T, P, c, k, r, T2, P2)
    BY DEF Split
  <2> HIDE DEF T2, P2, r
  <2>4. Headed(T2, P2, banks, J) /\ e \notin DOMAIN T
    BY <1>1, <1>4, <1>6, <2>1, <2>3, HeadSplit
  <2>5. /\ Frees(T2) = Put(Drop(sz, c), e, r) /\ DOMAIN T2 = DOMAIN T \cup {e}
        /\ UsedOf(T2) = UsedOf(T) \cup {c} /\ \A d \in DOMAIN T : d # c => T2[d] = T[d]
        /\ T2[c] = Used(k) /\ T2[e] = Free(r)
    <3>1. T2 = Put([T EXCEPT ![c] = Used(k)], e, Free(r))
      BY DEF T2
    <3> HIDE DEF e
    <3>2. k # 0 /\ r # 0
      BY <1>6, <2>1
    <3>3. Shared(T, T2, c, k, e, r)
      BY <1>3, <1>6, <2>1, <2>4, <3>1, <3>2, FreesSplit
    <3> QED
      BY <3>3 DEF Shared, sz
  <2>6. e \in Nat \ {0} /\ e # NULL
    BY <1>5, <1>6 DEF NULL
  <2> HIDE DEF e
  <2>7. Listed(cut[2], Drop(sz, c)) /\ cut[2].ThisInfo = T2 /\ cut[2].PrevInfo = P2
    BY <1>3, <2>2, RelabelledListed
  <2>8. DOMAIN Drop(sz, c) = Loose(T) \ {c} /\ \A x \in Loose(T) \ {c} : Drop(sz, c)[x] = T[x].size
    BY DEF sz, Frees, Drop
  <2>9. Fits(cut[2], Drop(sz, c))
    <3> SUFFICES ASSUME NEW x \in Loose(T) \ {c} PROVE Size(cut[2], x) = Drop(sz, c)[x]
      BY <2>8 DEF Fits
    <3>1. x \in DOMAIN T
      BY DEF Loose
    <3>2. T2[x] = T[x]
      BY <2>5, <3>1
    <3> QED
      BY <2>7, <2>8, <3>2 DEF Size
  <2>10. Used(k).size = k /\ Used(k).used /\ Free(r).size = r
    BY DEF Used, Free
  <2>11. h2 = checkin_free_chunk(cut[2], e, r)
    <3>1. Size(cut[2], e) = r
      BY <2>5, <2>7, <2>10 DEF Size
    <3> QED
      BY <2>2, <2>6, <3>1
  <2>12. e \notin DOMAIN Drop(sz, c)
    BY <2>4, <2>8 DEF Loose
  <2>13. Listed(h2, Put(Drop(sz, c), e, r)) /\ Heads(h2, cut[2])
    BY <2>1, <2>6, <2>7, <2>9, <2>11, <2>12, CheckIn
  <2>14. h2.ThisInfo = T2 /\ h2.PrevInfo = P2
    BY <2>7, <2>13 DEF Heads
  <2>15. CoalAt(T2)
    <3> SUFFICES ASSUME NEW d \in Loose(T2) PROVE T2[d + T2[d].size].used
      BY DEF CoalAt
    <3>1. d # c
      BY <2>5, <2>10 DEF Loose
    <3>2. CASE d = e
      <4>1. d + T2[d].size = c + s
        BY <1>5, <1>6, <2>1, <2>5, <2>10, <3>2 DEF e
      <4>2. T[c + s].used
        BY <1>1, <1>3 DEF CoalAt
      <4> QED
        BY <1>5, <2>5, <4>1, <4>2
    <3>3. CASE d # e
      <4>1. d \in DOMAIN T
        BY <2>5, <3>3 DEF Loose
      <4>2. T2[d] = T[d] /\ d \in Loose(T)
        BY <2>5, <3>1, <4>1 DEF Loose
      <4>3. T[d + T[d].size].used
        BY <1>1, <4>2 DEF CoalAt
      <4>4. T[d].size # 0
        BY <4>2 DEF Loose
      <4>5. d + T[d].size \in DOMAIN T
        BY <1>1, <4>1, <4>4, ChunkIs
      <4> QED
        BY <2>5, <2>10, <4>2, <4>3, <4>5
    <3> QED
      BY <3>2, <3>3
  <2>16. Good(h2, banks)
    BY <2>4, <2>5, <2>13, <2>14, <2>15 DEF Good
  <2>17. Handed(T, T2, c, m)
    <3>1. T2[c].size >= m + ChunkHead
      BY <1>6, <2>5, <2>10 DEF k
    <3> QED
      BY <1>8, <2>5, <3>1 DEF Handed
  <2> QED
    BY <2>14, <2>16, <2>17 DEF c
<1> QED
  BY <1>9, <1>10

-----------------------------------------------------------------------------
\* A piece is given back.

\* The free chunk x is in no list yet, and it alone may touch another free chunk.
Afoot(g, banks, x) ==
  /\ Headed(g.ThisInfo, g.PrevInfo, banks, DOMAIN banks)
  /\ x \in Loose(g.ThisInfo)
  /\ \A d \in Loose(g.ThisInfo) :
       d # x => LET next == d + g.ThisInfo[d].size IN g.ThisInfo[next].used \/ next = x
  /\ Listed(g, Drop(Frees(g.ThisInfo), x))

\* No chunk that is used is touched.
Kept(T, T2) == UsedOf(T2) = UsedOf(T) /\ \A d \in UsedOf(T) : T2[d] = T[d]

\* The free chunks and the used ones after c took in another free chunk.
Grouped(T, T2, c, gone, n) ==
  /\ Drop(Frees(T2), c) = Drop(Drop(Frees(T), gone), c)
  /\ Drop(Frees(T2), c) = Drop(Drop(Frees(T), c), gone)
  /\ Loose(T2) = Loose(T) \ {gone} /\ Kept(T, T2)

\* What joining two free chunks does to the free chunks and the used ones.
LEMMA FreesJoined ==
  ASSUME NEW T, NEW T2, NEW P, NEW P2, NEW c \in Loose(T), NEW gone \in Loose(T), c # gone, NEW n, n # 0,
         Combined(T, P, c, gone, n, T2, P2)
  PROVE  Grouped(T, T2, c, gone, n)
<1>0. /\ n \in Nat /\ DOMAIN T2 = DOMAIN T \ {gone}
      /\ \A d \in DOMAIN T \ {gone} : T2[d] = (IF d = c THEN Free(n) ELSE T[d])
  BY DEF Combined
<1>1. /\ c \in DOMAIN T /\ gone \in DOMAIN T /\ T[c].size # 0 /\ T[gone].size # 0
      /\ ~T[c].used /\ ~T[gone].used
  BY DEF Loose
<1>2. Free(n).size = n /\ Free(n).used = FALSE
  BY DEF Free
<1>3. ASSUME NEW d \in DOMAIN T
      PROVE  /\ d \in Loose(T2) <=> d \in Loose(T) \ {gone}
             /\ d \in UsedOf(T2) <=> d \in UsedOf(T)
  <2>1. CASE d = gone
    BY <1>0, <1>1, <2>1 DEF Loose, UsedOf
  <2>2. CASE d = c
    BY <1>0, <1>1, <1>2, <2>2 DEF Loose, UsedOf
  <2>3. CASE d # c /\ d # gone
    BY <1>0, <1>1, <2>3 DEF Loose, UsedOf
  <2> QED
    BY <2>1, <2>2, <2>3
<1>4. Loose(T2) = Loose(T) \ {gone} /\ UsedOf(T2) = UsedOf(T)
  <2>1. Loose(T2) \subseteq DOMAIN T /\ Loose(T) \subseteq DOMAIN T /\ UsedOf(T2) \subseteq DOMAIN T
        /\ UsedOf(T) \subseteq DOMAIN T
    BY <1>0 DEF Loose, UsedOf
  <2> QED
    BY <1>3, <2>1
<1>5. \A d \in UsedOf(T) : T2[d] = T[d]
  BY <1>0, <1>1 DEF UsedOf
<1> DEFINE f == Drop(Frees(T2), c)
           g == Drop(Drop(Frees(T), gone), c)
           e == Drop(Drop(Frees(T), c), gone)
           S == (Loose(T) \ {gone}) \ {c}
<1>6. /\ f = [x \in DOMAIN f |-> f[x]] /\ DOMAIN f = Loose(T2) \ {c}
      /\ \A x \in Loose(T2) \ {c} : f[x] = T2[x].size
  BY DEF Frees, Drop
<1>7. /\ g = [x \in DOMAIN g |-> g[x]] /\ DOMAIN g = S /\ \A x \in S : g[x] = T[x].size
  BY DEF Frees, Drop
<1>8. /\ e = [x \in DOMAIN e |-> e[x]] /\ DOMAIN e = (Loose(T) \ {c}) \ {gone}
      /\ \A x \in (Loose(T) \ {c}) \ {gone} : e[x] = T[x].size
  BY DEF Frees, Drop
<1>9. \A x \in S : T2[x] = T[x]
  BY <1>0 DEF Loose
<1>10. Loose(T2) \ {c} = S /\ (Loose(T) \ {c}) \ {gone} = S
  BY <1>4
<1> HIDE DEF f, g, e, S
<1>11. f = g
  <2>1. DOMAIN f = DOMAIN g
    BY <1>6, <1>7, <1>10
  <2>2. \A x \in DOMAIN f : f[x] = g[x]
    <3> SUFFICES ASSUME NEW x \in DOMAIN f PROVE f[x] = g[x]
      OBVIOUS
    <3>1. x \in S /\ x \in Loose(T2) \ {c}
      BY <1>6, <1>10
    <3> QED
      BY <1>6, <1>7, <1>9, <3>1
  <2>3. f = [x \in DOMAIN f |-> f[x]] /\ g = [x \in DOMAIN g |-> g[x]]
    BY <1>6, <1>7
  <2> QED
    BY <2>1, <2>2, <2>3
<1>12. f = e
  <2>1. DOMAIN f = DOMAIN e
    BY <1>6, <1>8, <1>10
  <2>2. \A x \in DOMAIN f : f[x] = e[x]
    <3> SUFFICES ASSUME NEW x \in DOMAIN f PROVE f[x] = e[x]
      OBVIOUS
    <3>1. x \in S /\ x \in Loose(T2) \ {c} /\ x \in (Loose(T) \ {c}) \ {gone}
      BY <1>6, <1>10
    <3> QED
      BY <1>6, <1>8, <1>9, <3>1
  <2>3. f = [x \in DOMAIN f |-> f[x]] /\ e = [x \in DOMAIN e |-> e[x]]
    BY <1>6, <1>8
  <2> QED
    BY <2>1, <2>2, <2>3
<1> QED
  BY <1>4, <1>5, <1>11, <1>12 DEF Grouped, Kept, f, g, e

\* Out of the lists and into one chunk.
LEMMA MergedIs ==
  ASSUME NEW g, NEW s, Listed(g, s), NEW T, T = g.ThisInfo, NEW P, P = g.PrevInfo,
         NEW c, NEW gone, NEW n, NEW T2, NEW P2, Joined(T, P, c, gone, n, T2, P2),
         NEW h, h = Merged(g, c, gone, n)
  PROVE  Listed(h, s) /\ h.ThisInfo = T2 /\ h.PrevInfo = P2
<1>1. Merged(g, c, gone, n) = [g EXCEPT !.ThisInfo = T2, !.PrevInfo = P2]
  BY DEF Merged, Joined
<1>2. Record(g)
  BY DEF Listed
<1>3. Relabelled(h, g, T2, P2)
  BY <1>1, <1>2 DEF Relabelled, Record, Fields
<1> QED
  BY <1>3, RelabelledListed

\* The chunk at out leaves the lists, and c takes in the one at gone.
MergedAt(g, out, c, gone) ==
  Merged(unlink_chunk(g, out, Sub(g.ThisInfo[out].size, ChunkHead)), c, gone,
         g.ThisInfo[c].size + g.ThisInfo[gone].size)

\* x or the chunk behind it is taken out of the lists and the two become one.
LEMMA Merging ==
  ASSUME NEW g, NEW banks, NEW x, Afoot(g, banks, x), NEW T, T = g.ThisInfo, NEW P, P = g.PrevInfo,
         NEW c \in Loose(T), NEW gone, gone = c + T[c].size, gone \in Loose(T),
         NEW out, (x = c /\ out = gone) \/ (x = gone /\ out = c),
         NEW h, h = MergedAt(g, out, c, gone)
  PROVE  /\ Afoot(h, banks, c) /\ Kept(T, h.ThisInfo)
         /\ h.ThisInfo[c].size = T[c].size + T[gone].size
         /\ h.PrevInfo[c] = P[c] /\ gone + T[gone].size \in DOMAIN T
         /\ h.ThisInfo[gone + T[gone].size] = T[gone + T[gone].size]
<1> DEFINE J == DOMAIN banks
           n == T[c].size + T[gone].size
           g1 == unlink_chunk(g, out, Sub(T[out].size, ChunkHead))
           sz == Drop(Frees(T), x)
           T2 == [Drop(T, gone) EXCEPT ![c] = Free(n)]
           P2 == [Drop(P, gone) EXCEPT ![c + n] = Free(n)]
<1>1. /\ Headed(T, P, banks, J) /\ x \in Loose(T) /\ Listed(g, sz)
      /\ \A d \in Loose(T) : d # x => T[d + T[d].size].used \/ d + T[d].size = x
  BY DEF Afoot
<1>2. c \in DOMAIN T /\ T[c].size # 0 /\ ~T[c].used /\ gone \in DOMAIN T /\ T[gone].size # 0 /\ ~T[gone].used
  BY DEF Loose
<1>3. /\ T[c].size \in Nat /\ c \in Nat /\ c # gone
      /\ \A d \in DOMAIN T : T[d].size # 0 /\ d + T[d].size = gone => d = c
  BY <1>1, <1>2, ChunkIs
<1>4. /\ T[gone].size \in Nat /\ gone + T[gone].size \in DOMAIN T /\ gone # gone + T[gone].size
      /\ gone \in Nat /\ T[gone].size >= 16 /\ T[c].size >= 16
  BY <1>1, <1>2, ChunkIs
<1>5. out \in DOMAIN sz /\ sz[out] = T[out].size
  BY <1>3 DEF Frees, Drop
<1> HIDE DEF sz
<1>6. Listed(g1, Drop(sz, out)) /\ Heads(g1, g)
  BY <1>1, <1>5, Unlink
<1> HIDE DEF g1
<1>7. Record(g1) /\ g1.ThisInfo = T /\ g1.PrevInfo = P
  BY <1>6 DEF Listed, Heads
<1>8. h = Merged(g1, c, gone, n)
  BY DEF g1, MergedAt
<1>20. Joined(T, P, c, gone, n, T2, P2)
  BY DEF Joined
<1> HIDE DEF T2, P2
<1>10. Listed(h, Drop(sz, out)) /\ h.ThisInfo = T2 /\ h.PrevInfo = P2
  <2> DEFINE s2 == Drop(sz, out)
  <2>1. Listed(g1, s2)
    BY <1>6
  <2> HIDE DEF J, n, s2
  <2>2. Listed(h, s2) /\ h.ThisInfo = T2 /\ h.PrevInfo = P2
    BY ONLY <1>7, <1>8, <1>20, <2>1, MergedIs
  <2> QED
    BY <2>2 DEF s2
<1>21. Headed(T2, P2, banks, J) /\ Combined(T, P, c, gone, n, T2, P2)
  <2>1. n = T[c].size + T[gone].size
    OBVIOUS
  <2> HIDE DEF J, n
  <2> QED
    BY <1>1, <1>2, <1>20, <2>1, HeadJoined
<1>11. /\ Headed(T2, P2, banks, J) /\ n \in Nat /\ DOMAIN T2 = DOMAIN T \ {gone}
       /\ \A d \in DOMAIN T \ {gone} : T2[d] = (IF d = c THEN Free(n) ELSE T[d])
       /\ \A d \in DOMAIN T \ {gone} : P2[d] = (IF d = c + n THEN Free(n) ELSE P[d])
       /\ c \in DOMAIN T \ {gone} /\ c + n \in DOMAIN T \ {gone}
  BY <1>21 DEF Combined
<1>12. n >= 32 /\ c + n # c /\ c + n = gone + T[gone].size
  BY <1>3, <1>4
<1>13. Grouped(T, T2, c, gone, n)
  <2>1. n # 0
    BY <1>12
  <2> HIDE DEF n
  <2> QED
    BY <1>3, <1>21, <2>1, FreesJoined
<1> HIDE DEF n
<1>14. Free(n).size = n /\ Free(n).used = FALSE
  BY DEF Free
<1>15. T2[c] = Free(n) /\ P2[c] = P[c] /\ c \in Loose(T2)
  BY <1>3, <1>11, <1>12, <1>13 DEF Grouped
<1>16. ASSUME NEW d \in Loose(T2), d # c PROVE T2[d + T2[d].size].used \/ d + T2[d].size = c
  <2>1. d \in Loose(T) /\ d \in DOMAIN T /\ d # gone /\ T2[d] = T[d] /\ T[d].size # 0
    BY <1>11, <1>13, <1>16 DEF Grouped, Loose
  <2>2. T[d + T[d].size].used \/ d + T[d].size = x
    BY <1>1, <1>16, <2>1
  <2>3. d + T[d].size # gone /\ d + T[d].size \in DOMAIN T
    BY <1>1, <1>3, <1>16, <2>1, ChunkIs
  <2> QED
    BY <1>11, <2>1, <2>2, <2>3
<1>17. Drop(Frees(T2), c) = Drop(sz, out)
  <2>1. CASE x = c
    BY <1>13, <2>1 DEF Grouped, sz
  <2>2. CASE x # c
    BY <1>13, <2>2 DEF Grouped, sz
  <2> QED
    BY <2>1, <2>2
<1>18. Afoot(h, banks, c)
  <2>1. Listed(h, Drop(Frees(T2), c))
    BY <1>10, <1>17
  <2>2. \A d \in Loose(T2) : d # c => T2[d + T2[d].size].used \/ d + T2[d].size = c
    BY <1>16
  <2>3. h.ThisInfo = T2 /\ h.PrevInfo = P2 /\ Headed(T2, P2, banks, J) /\ c \in Loose(T2)
    BY <1>10, <1>11, <1>15
  <2> QED
    BY <2>1, <2>2, <2>3 DEF Afoot
<1>19. T2[gone + T[gone].size] = T[gone + T[gone].size]
  <2>1. gone + T[gone].size \in DOMAIN T \ {gone} /\ gone + T[gone].size # c
    BY <1>11, <1>12
  <2> QED
    BY <1>11, <2>1
<1> QED
  BY <1>4, <1>10, <1>13, <1>14, <1>15, <1>18, <1>19 DEF Grouped, n

\* What stands at the head of a chunk.
LEMMA InfoIs ==
  ASSUME NEW T, NEW P, NEW banks, NEW J, Headed(T, P, banks, J), NEW c \in DOMAIN T
  PROVE  /\ P[c].used \in BOOLEAN /\ T[c].used \in BOOLEAN /\ (~T[c].used => c \in Loose(T))
         /\ ~P[c].used => Preceded(T, c)
<1>1. T \in [DOMAIN T -> Infos] /\ P \in [DOMAIN T -> Infos]
  BY DEF Headed
<1>2. T[c] \in Infos /\ P[c] \in Infos
  BY <1>1
<1>3. P[c].used \in BOOLEAN /\ T[c].used \in BOOLEAN
  BY <1>2 DEF Infos
<1>4. T[c].size = 0 => T[c].used
  BY DEF Headed
<1>5. ~T[c].used => c \in Loose(T)
  BY <1>4 DEF Loose
<1>6. Used(0).used
  BY DEF Used
<1>7. ~P[c].used => P[c] # Used(0)
  BY <1>6
<1>8. P[c] # Used(0) => Preceded(T, c)
  BY DEF Headed
<1> QED
  BY <1>3, <1>5, <1>7, <1>8

\* The chunk in front of a free chunk, by the head of the latter.
LEMMA InFront ==
  ASSUME NEW T, NEW P, NEW banks, NEW J, Headed(T, P, banks, J), NEW c \in DOMAIN T, ~P[c].used
  PROVE  /\ c - P[c].size \in Loose(T) /\ P[c] = T[c - P[c].size] /\ c - P[c].size # c
         /\ c = (c - P[c].size) + T[c - P[c].size].size /\ c - P[c].size < c
<1>1. PICK b \in DOMAIN T : T[b].size # 0 /\ b + T[b].size = c
  BY InfoIs DEF Preceded
<1>2. /\ T[b].size \in Nat /\ T[b].size >= 16 /\ b \in Nat /\ P[c] = T[b]
  BY <1>1, ChunkIs
<1>3. c - P[c].size = b /\ b < c /\ b # c
  BY <1>1, <1>2
<1>4. b \in Loose(T)
  BY <1>1, <1>2 DEF Loose
<1> QED
  BY <1>1, <1>2, <1>3, <1>4

\* The chunk behind a chunk that was joined with the one in front of it.
LEMMA FreeBack ==
  ASSUME NEW g, NEW banks, NEW c, Afoot(g, banks, c), NEW back, back = MergedPrev(g, c)
  PROVE  /\ Afoot(back[2], banks, back[1]) /\ back[2].PrevInfo[back[1]].used
         /\ Kept(g.ThisInfo, back[2].ThisInfo)
<1> DEFINE T == g.ThisInfo
           P == g.PrevInfo
           J == DOMAIN banks
<1>1. /\ Headed(T, P, banks, J) /\ c \in Loose(T) /\ c \in DOMAIN T /\ T[c].size # 0
      /\ \A d \in Loose(T) : d # c => T[d + T[d].size].used \/ d + T[d].size = c
  BY DEF Afoot, Loose
<1>2. CASE P[c].used
  <2>1. back = <<c, g>>
    BY <1>2 DEF MergedPrev
  <2>2. back[1] = c /\ back[2] = g
    BY <2>1
  <2> QED
    BY <1>2, <2>2 DEF Kept
<1>3. CASE ~P[c].used
  <2> DEFINE b == c - P[c].size
             h == MergedAt(g, b, b, c)
  <2>1. b \in Loose(T) /\ P[c] = T[b] /\ b # c /\ c = b + T[b].size /\ b < c
    <3> HIDE DEF T, P, J
    <3> QED
      BY <1>1, <1>3, InFront
  <2>2. back = <<b, h>>
    BY <1>3, <2>1 DEF MergedPrev, Size, MergedAt
  <2>3. b \in DOMAIN T /\ T[b].size # 0
    BY <2>1 DEF Loose
  <2>4. back[1] = b /\ back[2] = h
    BY <2>2
  <2>5. T = g.ThisInfo /\ P = g.PrevInfo /\ h = h
    BY <2>1
  <2>6. Afoot(h, banks, b) /\ Kept(T, h.ThisInfo) /\ h.PrevInfo[b] = P[b]
    <3> HIDE DEF T, P, b
    <3> QED
      BY <1>1, <2>1, <2>5, Merging
  <2>7. P[b].used
    <3> SUFFICES ASSUME ~P[b].used PROVE FALSE
      OBVIOUS
    <3> DEFINE a == b - P[b].size
    <3> HIDE DEF T, P, b, J
    <3>1. a \in Loose(T) /\ P[b] = T[a] /\ a # b /\ b = a + T[a].size /\ a < b
      BY <1>1, <2>3, InFront
    <3>2. a # c
      BY <1>1, <2>1, <2>3, <3>1, ChunkIs
    <3>3. T[b].used \/ b = c
      BY <1>1, <3>1, <3>2
    <3> QED
      BY <2>1, <3>3 DEF Loose
  <2> QED
    BY <2>4, <2>6, <2>7
<1> QED
  BY <1>2, <1>3

\* The chunk behind is taken in.
LEMMA FreeOn ==
  ASSUME NEW g, NEW banks, NEW c, Afoot(g, banks, c), g.PrevInfo[c].used,
         NEW h, h = MergedNext(g, c)
  PROVE  /\ Afoot(h, banks, c) /\ h.PrevInfo[c].used /\ Kept(g.ThisInfo, h.ThisInfo)
         /\ h.ThisInfo[c + h.ThisInfo[c].size].used
<1> DEFINE T == g.ThisInfo
           P == g.PrevInfo
           J == DOMAIN banks
           next == c + T[c].size
<1>1. /\ Headed(T, P, banks, J) /\ c \in Loose(T) /\ c \in DOMAIN T /\ T[c].size # 0
      /\ \A d \in Loose(T) : d # c => T[d + T[d].size].used \/ d + T[d].size = c
  BY DEF Afoot, Loose
<1>2. c \in Nat /\ T[c].size \in Nat /\ next \in DOMAIN T /\ next # c /\ T[c].size >= 16
  <2> HIDE DEF T, P, J
  <2> QED
    BY <1>1, ChunkIs
<1>3. CASE T[next].used
  <2>1. h = g
    BY <1>3 DEF MergedNext, Size
  <2> QED
    BY <1>3, <2>1 DEF Kept
<1>4. CASE ~T[next].used
  <2>1. h = MergedAt(g, next, c, next)
    BY <1>4 DEF MergedNext, Size, MergedAt
  <2>2. next \in Loose(T)
    <3> HIDE DEF T, P, J, next
    <3> QED
      BY <1>1, <1>2, <1>4, InfoIs
  <2>3. next \in DOMAIN T /\ T[next].size # 0
    BY <2>2 DEF Loose
  <2>4. T = g.ThisInfo /\ P = g.PrevInfo /\ next = c + T[c].size    OBVIOUS
  <2> HIDE DEF T, P, J, next
  <2>5. next + T[next].size # c
    BY <1>1, <1>2, <2>3, <2>4, ChunkIs
  <2>6. /\ Afoot(h, banks, c) /\ Kept(T, h.ThisInfo)
        /\ h.ThisInfo[c].size = T[c].size + T[next].size
        /\ h.PrevInfo[c] = P[c]
        /\ h.ThisInfo[next + T[next].size] = T[next + T[next].size]
    BY SMTT(20), <1>1, <2>1, <2>2, <2>4, Merging
  <2>7. T[next + T[next].size].used
    BY <1>1, <1>2, <2>2, <2>5
  <2>8. c + h.ThisInfo[c].size = next + T[next].size
    <3>1. T[next].size \in Nat
      BY <1>1, <2>3, ChunkIs
    <3> QED
      BY <1>2, <2>4, <2>6, <3>1
  <2> QED
    BY <2>4, <2>6, <2>7, <2>8
<1> QED
  BY <1>3, <1>4

\* The chunk goes into the lists.
LEMMA FreeEnd ==
  ASSUME NEW g, NEW banks, NEW c, Afoot(g, banks, c), g.PrevInfo[c].used,
         g.ThisInfo[c + g.ThisInfo[c].size].used,
         NEW h, h = checkin_free_chunk(g, c, Size(g, c))
  PROVE  Good(h, banks) /\ h.ThisInfo = g.ThisInfo
<1> DEFINE T == g.ThisInfo
           P == g.PrevInfo
           J == DOMAIN banks
           sz == Frees(T)
           f == Drop(sz, c)
           n == T[c].size
<1>1. /\ Headed(T, P, banks, J) /\ c \in Loose(T) /\ c \in DOMAIN T /\ n # 0 /\ Listed(g, f)
      /\ \A d \in Loose(T) : d # c => T[d + T[d].size].used \/ d + T[d].size = c
      /\ P[c].used /\ T[c + n].used
  BY DEF Afoot, Loose
<1>2. /\ sz = [x \in DOMAIN sz |-> sz[x]] /\ DOMAIN sz = Loose(T) /\ \A x \in Loose(T) : sz[x] = T[x].size
      /\ DOMAIN f = Loose(T) \ {c} /\ \A x \in Loose(T) \ {c} : f[x] = sz[x]
  BY DEF Frees, Drop
<1>3. Put(f, c, n) = sz
  <2> DEFINE p == Put(f, c, n)
  <2>1. /\ p = [x \in DOMAIN p |-> p[x]] /\ DOMAIN p = DOMAIN f \cup {c}
        /\ \A x \in DOMAIN p : p[x] = IF x = c THEN n ELSE f[x]
    BY DEF Put
  <2> HIDE DEF p, f, sz
  <2>2. DOMAIN p = DOMAIN sz
    BY <1>1, <1>2, <2>1
  <2>3. \A x \in DOMAIN p : p[x] = sz[x]
    <3> SUFFICES ASSUME NEW x \in DOMAIN p PROVE p[x] = sz[x]
      OBVIOUS
    <3>1. x \in Loose(T)
      BY <1>2, <2>2
    <3>2. CASE x = c
      BY <1>2, <2>1, <3>1, <3>2
    <3>3. CASE x # c
      BY <1>2, <2>1, <3>1, <3>3
    <3> QED
      BY <3>2, <3>3
  <2>4. p = sz
    BY <1>2, <2>1, <2>2, <2>3
  <2> QED
    BY <2>4 DEF p
<1> HIDE DEF f, sz
<1>4. Fits(g, f)
  BY <1>2 DEF Fits, Size
<1>5. n \in MIN_CHUNK_SIZE .. Modulus - 1 /\ c \in Nat \ {0}
  <2> HIDE DEF T, P, J
  <2> QED
    BY <1>1, SizeIs
<1>6. h = checkin_free_chunk(g, c, n)
  BY DEF Size
<1>7. Listed(h, Put(f, c, n)) /\ Heads(h, g)
  <2>1. c \notin DOMAIN f
    BY <1>2
  <2> HIDE DEF n
  <2> QED
    BY <1>1, <1>4, <1>5, <1>6, <2>1, CheckIn
<1>8. Listed(h, sz) /\ h.ThisInfo = T /\ h.PrevInfo = P
  BY <1>3, <1>7 DEF Heads
<1>9. CoalAt(T)
  <2> HIDE DEF T, P, J
  <2> SUFFICES ASSUME NEW d \in Loose(T) PROVE T[d + T[d].size].used
    BY DEF CoalAt
  <2>1. CASE d = c
    BY <1>1, <2>1
  <2>2. CASE d # c
    <3> SUFFICES ASSUME d + T[d].size = c PROVE FALSE
      BY <1>1, <2>2
    <3>1. d \in DOMAIN T /\ T[d].size # 0 /\ ~T[d].used
      BY DEF Loose
    <3>2. P[c] = T[d]
      BY <1>1, <3>1, ChunkIs
    <3> QED
      BY <1>1, <3>1, <3>2
  <2> QED
    BY <2>1, <2>2
<1> QED
  BY <1>1, <1>8, <1>9 DEF Good, sz

\* The used chunk c is used no more; the other used ones are as they were.
Returned(T, T2, c) ==
  /\ UsedOf(T2) = UsedOf(T) \ {c} /\ \A d \in UsedOf(T) \ {c} : T2[d] = T[d]

\* The head of the chunk that is given back is marked.
LEMMA FreeMark ==
  ASSUME NEW h, NEW banks, Good(h, banks), NEW T, T = h.ThisInfo, NEW c \in UsedOf(T),
         NEW g, g = [h EXCEPT !.ThisInfo[c] = Free(T[c].size), !.PrevInfo[c + T[c].size] = Free(T[c].size)]
  PROVE  Afoot(g, banks, c) /\ Returned(T, g.ThisInfo, c)
<1> DEFINE P == h.PrevInfo
           J == DOMAIN banks
           n == T[c].size
           T1 == [T EXCEPT ![c] = Free(n)]
           P1 == [P EXCEPT ![c + n] = Free(n)]
<1>1. Headed(T, P, banks, J) /\ CoalAt(T) /\ Listed(h, Frees(T)) /\ c \in DOMAIN T /\ n # 0
  BY DEF Good, UsedOf
<1>2. Record(h)
  BY <1>1 DEF Listed
<1>3. g = [h EXCEPT !.ThisInfo = T1, !.PrevInfo = P1]
  OBVIOUS
<1>4. Freed(T, T1, c)
  BY FreesFreed
<1>5. Headed(T1, P1, banks, J)
  <2>1. n \in Nat
    <3> HIDE DEF P, J
    <3> QED
      BY <1>1, SizeIs, ChunkIs
  <2>2. Free(n) \in Infos /\ Free(n).size = n
    BY <2>1 DEF Free, Infos
  <2>3. T1 = [T EXCEPT ![c] = Free(n)] /\ P1 = [P EXCEPT ![c + T[c].size] = Free(n)] /\ Free(n).size = T[c].size
    BY <2>2
  <2> HIDE DEF T1, P1, P, J, n
  <2> QED
    BY <1>1, <2>2, <2>3, HeadMarked DEF n
<1> HIDE DEF T1, P1
<1>6. Relabelled(g, h, T1, P1)
  BY <1>2, <1>3 DEF Relabelled, Record, Fields
<1>7. Listed(g, Frees(T)) /\ g.ThisInfo = T1 /\ g.PrevInfo = P1
  <2>1. Listed(h, Frees(T))
    BY <1>1
  <2> DEFINE s == Frees(T)
  <2>2. Listed(h, s)
    BY <2>1
  <2> HIDE DEF s
  <2>3. Listed(g, s) /\ g.ThisInfo = T1 /\ g.PrevInfo = P1
    BY ONLY <1>6, <2>2, RelabelledListed
  <2> QED
    BY <2>3 DEF s
<1>8. /\ Drop(Frees(T1), c) = Frees(T) /\ c \in Loose(T1) /\ UsedOf(T1) = UsedOf(T) \ {c}
      /\ \A d \in DOMAIN T : d # c => T1[d] = T[d]
      /\ T1[c] = Free(T[c].size) /\ DOMAIN T1 = DOMAIN T
  BY <1>4 DEF Freed
<1>9. ASSUME NEW d \in Loose(T1), d # c PROVE T1[d + T1[d].size].used \/ d + T1[d].size = c
  <2>1. d \in DOMAIN T /\ T1[d] = T[d] /\ d \in Loose(T) /\ T[d].size # 0
    BY <1>8, <1>9 DEF Loose
  <2>2. T[d + T[d].size].used
    BY <1>1, <2>1 DEF CoalAt
  <2>3. d + T[d].size \in DOMAIN T
    <3> HIDE DEF P, J
    <3> QED
      BY <1>1, <2>1, ChunkIs
  <2> QED
    BY <1>8, <2>1, <2>2, <2>3
<1>10. Afoot(g, banks, c)
  <2>1. \A d \in Loose(T1) : d # c => T1[d + T1[d].size].used \/ d + T1[d].size = c
    BY <1>9
  <2>2. Listed(g, Drop(Frees(T1), c))
    BY <1>7, <1>8
  <2> QED
    BY <1>5, <1>7, <1>8, <2>1, <2>2 DEF Afoot
<1>11. \A d \in UsedOf(T) : d \in DOMAIN T
  BY DEF UsedOf
<1> QED
  BY <1>7, <1>8, <1>10, <1>11 DEF Returned

\* What free leaves behind.
LEMMA FreeGood ==
  ASSUME NEW h, NEW banks, Good(h, banks), NEW c \in UsedOf(h.ThisInfo), NEW n, n = Size(h, c),
         NEW this, this = [h EXCEPT !.ThisInfo[c] = Free(n), !.PrevInfo[c + n] = Free(n)],
         NEW back, back = MergedPrev(this, c), NEW all, all = MergedNext(back[2], back[1]),
         NEW h2, h2 = checkin_free_chunk(all, back[1], Size(all, back[1]))
  PROVE  Good(h2, banks) /\ Returned(h.ThisInfo, h2.ThisInfo, c)
<1>1. Afoot(this, banks, c) /\ Returned(h.ThisInfo, this.ThisInfo, c)
  BY FreeMark DEF Size
<1>2. /\ Afoot(back[2], banks, back[1]) /\ back[2].PrevInfo[back[1]].used
      /\ Kept(this.ThisInfo, back[2].ThisInfo)
  BY <1>1, FreeBack
<1> DEFINE g == back[2]
           e == back[1]
<1>3. /\ Afoot(g, banks, e) /\ g.PrevInfo[e].used /\ all = MergedNext(g, e)
      /\ h2 = checkin_free_chunk(all, e, Size(all, e))
  BY <1>2
<1>4. Kept(this.ThisInfo, g.ThisInfo)
  BY <1>2
<1> HIDE DEF g, e
<1>5. /\ Afoot(all, banks, e) /\ all.PrevInfo[e].used /\ Kept(g.ThisInfo, all.ThisInfo)
      /\ all.ThisInfo[e + all.ThisInfo[e].size].used
  BY <1>3, FreeOn
<1>6. Good(h2, banks) /\ h2.ThisInfo = all.ThisInfo
  BY ONLY <1>3, <1>5, FreeEnd
<1> DEFINE U == UsedOf(h.ThisInfo)
           T2 == h2.ThisInfo
<1>7. /\ UsedOf(this.ThisInfo) = U \ {c} /\ \A d \in U \ {c} : this.ThisInfo[d] = h.ThisInfo[d]
      /\ UsedOf(g.ThisInfo) = UsedOf(this.ThisInfo)
      /\ \A d \in UsedOf(this.ThisInfo) : g.ThisInfo[d] = this.ThisInfo[d]
  BY <1>1, <1>4 DEF Kept, Returned
<1>8. /\ UsedOf(T2) = UsedOf(g.ThisInfo)
      /\ \A d \in UsedOf(g.ThisInfo) : T2[d] = g.ThisInfo[d]
  BY <1>5, <1>6 DEF Kept
<1> HIDE DEF U, T2
<1>9. UsedOf(T2) = U \ {c} /\ \A d \in U \ {c} : T2[d] = h.ThisInfo[d]
  BY <1>7, <1>8
<1> QED
  BY <1>6, <1>9 DEF Returned, U, T2

-----------------------------------------------------------------------------
\* The banks are taken into use one by one.

\* Every head lies in one of the first k banks.
Within(T, banks, k) ==
  \A c \in DOMAIN T : \E i \in DOMAIN banks :
    i \in 0 .. k /\ banks[i].StartAddr <= c /\ c + ChunkHead <= banks[i].EndAddr

\* The state between two banks.
Settled(h, banks, k) == Good(h, banks) /\ UsedOf(h.ThisInfo) = {} /\ Within(h.ThisInfo, banks, k)

\* Aligning downwards.
LEMMA AlignDown ==
  ASSUME NEW x \in Nat
  PROVE  /\ align_downside(x, 4) \in Nat /\ align_downside(x, 4) % 4 = 0
         /\ align_downside(x, 4) <= x /\ x <= align_downside(x, 4) + 3
<1> DEFINE q == x \div 4
<1>1. q \in Nat /\ 4 * q <= x /\ x < 4 * q + 4
  OBVIOUS
<1>2. align_downside(x, 4) = q * 4
  BY DEF align_downside
<1> HIDE DEF q
<1>3. (4 * q) % 4 = 0 /\ q * 4 = 4 * q
  BY <1>1
<1> QED
  BY <1>1, <1>2, <1>3

\* The first word and the end mark of a bank, and what lies between them.
Spanned(bank, a, e, n) ==
  /\ a = align_upside(bank.StartAddr, 4) /\ e = Sub(align_downside(bank.EndAddr, 4), ChunkHead)
  /\ n = Sub(e, a)

Spans(bank, firsts, a, e, n) ==
  /\ a \in Nat /\ a % 4 = 0 /\ bank.StartAddr <= a /\ a \in 1 .. Modulus - 1
  /\ e \in Nat /\ e % 4 = 0 /\ e + ChunkHead <= bank.EndAddr /\ e \in 1 .. Modulus - 1
  /\ n \in Nat /\ a + n = e /\ a \in firsts /\ n \in 0 .. Modulus - 1
  /\ align_downside(bank.EndAddr, 4) >= a

\* A bank has room for its two marks.
LEMMA SpanIs ==
  ASSUME NEW banks, NEW J, Banked(banks, J), NEW i \in J, NEW a, NEW e, NEW n, Spanned(banks[i], a, e, n)
  PROVE  Spans(banks[i], Firsts(banks, J), a, e, n)
<1> DEFINE t == banks[i].EndAddr
           E == align_downside(t, 4)
           s == banks[i].StartAddr
<1>0. Modulus \in Nat
  BY HeapAssumption
<1>1. /\ a \in Nat /\ a % 4 = 0 /\ s <= a /\ a <= s + 3 /\ a + 8 <= t /\ a \in 1 .. Modulus - 1
      /\ s \in Nat /\ t \in Nat
  BY FirstIs DEF Spanned, ChunkHead
<1>2. t \in 1 .. Modulus - 1 /\ s > 0
  BY DEF Banked
<1>3. E \in Nat /\ E % 4 = 0 /\ E <= t /\ t <= E + 3
  BY <1>1, AlignDown
<1> HIDE DEF E, t, s
<1>4. E >= a + 8
  <2>1. PICK p \in Nat : a = 4 * p
    <3>1. a = 4 * (a \div 4) /\ a \div 4 \in Nat
      BY <1>1
    <3> QED
      BY <3>1
  <2>2. PICK q \in Nat : E = 4 * q
    <3>1. E = 4 * (E \div 4) /\ E \div 4 \in Nat
      BY <1>3
    <3> QED
      BY <3>1
  <2> QED
    BY <1>1, <1>3, <2>1, <2>2
<1>5. E \in 0 .. Modulus - 1 /\ 8 \in 0 .. Modulus - 1 /\ 8 <= E
  BY <1>0, <1>1, <1>2, <1>3, <1>4
<1>6. e = E - 8
  <2>1. e = Sub(E, 8)
    BY DEF Spanned, E, t, ChunkHead
  <2> QED
    BY <1>5, <2>1, SubIs
<1>7. e \in Nat /\ e % 4 = 0 /\ e \in 0 .. Modulus - 1 /\ a <= e /\ a \in 0 .. Modulus - 1 /\ e + 8 <= t
  <2>1. (E - 8) % 4 = 0
    <3>1. E = 4 * (E \div 4) /\ E \div 4 \in Nat
      BY <1>3
    <3> DEFINE q == E \div 4
    <3>2. q \in Nat /\ E = 4 * q
      BY <3>1
    <3> HIDE DEF q
    <3>3. (4 * q - 8) % 4 = 0
      BY <1>5, <3>2
    <3> QED
      BY <3>2, <3>3
  <2> QED
    BY <1>0, <1>1, <1>3, <1>4, <1>5, <1>6, <2>1
<1>8. n = e - a
  <2>1. n = Sub(e, a)
    BY DEF Spanned
  <2> QED
    BY <1>7, <2>1, SubIs
<1>9. a \in Firsts(banks, J)
  BY DEF Firsts, Spanned
<1>10. n \in Nat /\ a + n = e /\ n \in 0 .. Modulus - 1 /\ e \in 1 .. Modulus - 1
  BY <1>0, <1>1, <1>7, <1>8
<1>11. E >= s /\ E >= a
  BY <1>1, <1>3, <1>4
<1> QED
  BY <1>1, <1>7, <1>9, <1>10, <1>11 DEF ChunkHead, s, t, E, Spans

\* The heads with a bank more.
Laid(T, P, a, e, n, T2, P2) ==
  /\ DOMAIN T2 = DOMAIN T \cup {a, e} /\ DOMAIN P2 = DOMAIN T2
  /\ T2 = [x \in DOMAIN T2 |-> T2[x]] /\ P2 = [x \in DOMAIN P2 |-> P2[x]]
  /\ T2[a] = Free(n) /\ T2[e] = Used(0) /\ P2[a] = Used(0) /\ P2[e] = Free(n)
  /\ \A d \in DOMAIN T : T2[d] = T[d] /\ P2[d] = P[d]

\* Two marks at the ends of a bank leave the records of the others alone.
LEMMA LaidIs ==
  ASSUME NEW T, NEW P, DOMAIN P = DOMAIN T, NEW a, NEW e, NEW n, a # e, a \notin DOMAIN T, e \notin DOMAIN T,
         NEW T2, T2 = Put(Put(T, a, Free(n)), e, Used(0)),
         NEW P2, P2 = Put(Put(P, a, Used(0)), e, Free(n))
  PROVE  Laid(T, P, a, e, n, T2, P2)
<1> DEFINE A == Put(T, a, Free(n))
           B == Put(P, a, Used(0))
<1>1. /\ DOMAIN A = DOMAIN T \cup {a} /\ A[a] = Free(n) /\ \A d \in DOMAIN T : A[d] = T[d]
      /\ DOMAIN B = DOMAIN T \cup {a} /\ B[a] = Used(0) /\ \A d \in DOMAIN T : B[d] = P[d]
  BY DEF Put
<1> HIDE DEF A, B
<1>2. /\ DOMAIN T2 = DOMAIN A \cup {e} /\ T2[e] = Used(0) /\ \A d \in DOMAIN A : d # e => T2[d] = A[d]
      /\ T2 = [x \in DOMAIN T2 |-> T2[x]]
  BY DEF Put, A
<1>3. /\ DOMAIN P2 = DOMAIN B \cup {e} /\ P2[e] = Free(n) /\ \A d \in DOMAIN B : d # e => P2[d] = B[d]
      /\ P2 = [x \in DOMAIN P2 |-> P2[x]]
  BY DEF Put, B
<1>4. DOMAIN T2 = DOMAIN T \cup {a, e} /\ DOMAIN P2 = DOMAIN T2
  BY <1>1, <1>2, <1>3
<1>5. T2[a] = Free(n) /\ P2[a] = Used(0)
  BY <1>1, <1>2, <1>3
<1>6. ASSUME NEW d \in DOMAIN T PROVE T2[d] = T[d] /\ P2[d] = P[d]
  BY <1>1, <1>2, <1>3
<1> QED
  BY <1>2, <1>3, <1>4, <1>5, <1>6 DEF Laid

\* No head of another bank lies within reach of a new one.
LEMMA Apart2 ==
  ASSUME NEW T, NEW P, NEW banks, NEW J, J = DOMAIN banks, Headed(T, P, banks, J), NEW k,
         Within(T, banks, k - 1), k \in J, k \in Nat,
         NEW a, NEW e, NEW n, Spanned(banks[k], a, e, n), NEW c \in DOMAIN T
  PROVE  /\ c \in Nat /\ (c + ChunkHead <= a \/ c >= e + ChunkHead)
         /\ T[c].size # 0 => (c + T[c].size <= a \/ c >= e + ChunkHead)
<1> DEFINE s == banks[k].StartAddr
           t == banks[k].EndAddr
<1>1. /\ a \in Nat /\ s <= a /\ e \in Nat /\ e + 8 <= t /\ s \in Nat /\ t \in Nat
  <2>1. Banked(banks, J)
    BY DEF Headed
  <2> QED
    BY <2>1, SpanIs, FirstIs DEF ChunkHead, Spans
<1>2. PICK i \in J : i \in 0 .. k - 1 /\ banks[i].StartAddr <= c /\ c + 8 <= banks[i].EndAddr
  BY DEF Within, ChunkHead
<1>3. /\ banks[i].StartAddr \in Nat /\ banks[i].EndAddr \in Nat /\ c \in Nat
  BY FirstIs DEF Headed
<1>4. i # k
  BY <1>2
<1>5. banks[i].EndAddr <= s \/ t <= banks[i].StartAddr
  BY <1>4 DEF Headed, Banked
<1>6. c + 8 <= a \/ c >= e + 8
  BY <1>1, <1>2, <1>3, <1>5
<1>7. ASSUME T[c].size # 0 PROVE c + T[c].size <= a \/ c >= e + 8
  <2>1. PICK j \in J : banks[j].StartAddr <= c /\ c + T[c].size + 8 <= banks[j].EndAddr
    BY <1>7 DEF Headed, ChunkAt, ChunkHead
  <2>2. banks[j].StartAddr \in Nat /\ banks[j].EndAddr \in Nat
    BY FirstIs DEF Headed
  <2>3. T[c].size \in Nat
    BY <1>7, ChunkIs
  <2>4. i = j \/ banks[i].EndAddr <= banks[j].StartAddr \/ banks[j].EndAddr <= banks[i].StartAddr
    BY DEF Headed, Banked
  <2>5. i = j
    BY <1>2, <1>3, <2>1, <2>2, <2>3, <2>4
  <2> QED
    BY <1>1, <1>3, <1>5, <2>1, <2>2, <2>3, <2>5
<1> QED
  BY <1>3, <1>6, <1>7 DEF ChunkHead

\* The new heads are right, and so are the old ones.
LEMMA HeadLaid ==
  ASSUME NEW T, NEW P, NEW banks, NEW J, J = DOMAIN banks, Headed(T, P, banks, J), NEW k,
         Within(T, banks, k - 1), k \in J, k \in Nat,
         NEW a, NEW e, NEW n, Spanned(banks[k], a, e, n), n >= 16,
         NEW T2, NEW P2, Laid(T, P, a, e, n, T2, P2)
  PROVE  Headed(T2, P2, banks, J) /\ a \notin DOMAIN T /\ e \notin DOMAIN T
<1>1. /\ Banked(banks, J) /\ T \in [DOMAIN T -> Infos] /\ P \in [DOMAIN T -> Infos]
      /\ \A c \in DOMAIN T : c \in 1 .. Modulus - 1 /\ c % 4 = 0 /\ (T[c].size = 0 => T[c].used)
      /\ \A c \in DOMAIN T : T[c].size # 0 => ChunkAt(T, P, banks, J, c)
      /\ \A c \in DOMAIN T : P[c] = Used(0) <=> c \in Firsts(banks, J)
      /\ \A c \in DOMAIN T : P[c] # Used(0) => Preceded(T, c)
  BY DEF Headed
<1>2. /\ a \in Nat /\ a % 4 = 0 /\ banks[k].StartAddr <= a /\ a \in 1 .. Modulus - 1
      /\ e \in Nat /\ e % 4 = 0 /\ e + ChunkHead <= banks[k].EndAddr /\ e \in 1 .. Modulus - 1
      /\ n \in Nat /\ a + n = e /\ a \in Firsts(banks, J)
  <2>1. Banked(banks, J) /\ k \in J /\ Spanned(banks[k], a, e, n)
    BY <1>1
  <2>2. Spans(banks[k], Firsts(banks, J), a, e, n)
    BY ONLY <2>1, SpanIs
  <2> QED
    BY ONLY <2>2 DEF Spans
<1>3. a < e
  BY <1>2
<1>4. e \notin Firsts(banks, J)
  BY <1>1, <1>2, <1>3, NotFirst
<1>5. \A c \in DOMAIN T : /\ c \in Nat /\ (c + ChunkHead <= a \/ c >= e + ChunkHead)
                          /\ T[c].size # 0 => (c + T[c].size <= a \/ c >= e + ChunkHead)
  BY Apart2
<1>6. a \notin DOMAIN T /\ e \notin DOMAIN T
  BY <1>2, <1>3, <1>5 DEF ChunkHead
<1>7. /\ DOMAIN T2 = DOMAIN T \cup {a, e} /\ DOMAIN P2 = DOMAIN T2
      /\ T2 = [x \in DOMAIN T2 |-> T2[x]] /\ P2 = [x \in DOMAIN P2 |-> P2[x]]
      /\ T2[a] = Free(n) /\ T2[e] = Used(0) /\ P2[a] = Used(0) /\ P2[e] = Free(n)
      /\ \A d \in DOMAIN T : T2[d] = T[d] /\ P2[d] = P[d]
  BY DEF Laid
<1>8. /\ Free(n) \in Infos /\ Used(0) \in Infos /\ Free(n) # Used(0) /\ Free(n).size = n /\ n # 0
      /\ Used(0).size = 0 /\ Used(0).used
  BY <1>2 DEF Free, Used, Infos
<1>9. T2 \in [DOMAIN T2 -> Infos] /\ P2 \in [DOMAIN T2 -> Infos]
  <2>1. \A x \in DOMAIN T2 : T2[x] \in Infos /\ P2[x] \in Infos
    <3> SUFFICES ASSUME NEW x \in DOMAIN T2 PROVE T2[x] \in Infos /\ P2[x] \in Infos
      OBVIOUS
    <3>1. CASE x = a \/ x = e
      BY <1>7, <1>8, <3>1
    <3>2. CASE x \in DOMAIN T
      <4>1. T[x] \in Infos /\ P[x] \in Infos
        BY <1>1, <3>2
      <4> QED
        BY <1>7, <3>2, <4>1
    <3> QED
      BY <1>7, <3>1, <3>2
  <2> QED
    BY <1>7, <2>1
<1>10. ASSUME NEW c \in DOMAIN T2 PROVE c \in 1 .. Modulus - 1 /\ c % 4 = 0 /\ (T2[c].size = 0 => T2[c].used)
  <2>1. CASE c = a \/ c = e
    BY <1>2, <1>7, <1>8, <2>1
  <2>2. CASE c \in DOMAIN T
    BY <1>1, <1>7, <2>2
  <2> QED
    BY <1>7, <2>1, <2>2
<1>11. ASSUME NEW c \in DOMAIN T2, T2[c].size # 0 PROVE ChunkAt(T2, P2, banks, J, c)
  <2>1. CASE c = a
    <3>1. T2[c].size >= MIN_CHUNK_SIZE /\ c + T2[c].size = e /\ T2[c] = Free(n)
      BY <1>2, <1>7, <1>8, <2>1 DEF MIN_CHUNK_SIZE
    <3>2. \A d \in DOMAIN T2 : d <= c \/ d >= e
      <4> SUFFICES ASSUME NEW d \in DOMAIN T2 PROVE d <= c \/ d >= e
        OBVIOUS
      <4>1. CASE d = a \/ d = e
        BY <1>2, <2>1, <4>1
      <4>2. CASE d \in DOMAIN T
        BY <1>2, <1>5, <2>1, <4>2 DEF ChunkHead
      <4> QED
        BY <1>7, <4>1, <4>2
    <3>3. \E i \in J : banks[i].StartAddr <= c /\ e + ChunkHead <= banks[i].EndAddr
      BY <1>2, <2>1
    <3>4. e \in DOMAIN T2 /\ P2[e] = T2[c]
      BY <1>7, <3>1
    <3> QED
      BY <3>1, <3>2, <3>3, <3>4 DEF ChunkAt
  <2>2. CASE c = e
    BY <1>7, <1>8, <1>11, <2>2
  <2>3. CASE c \in DOMAIN T
    <3>1. T2[c] = T[c] /\ T[c].size # 0 /\ ChunkAt(T, P, banks, J, c)
      BY <1>1, <1>7, <1>11, <2>3
    <3>2. /\ T[c].size >= MIN_CHUNK_SIZE /\ c + T[c].size \in DOMAIN T /\ P[c + T[c].size] = T[c]
          /\ \A d \in DOMAIN T : d <= c \/ d >= c + T[c].size
          /\ \E i \in J : /\ banks[i].StartAddr <= c
                          /\ c + T[c].size + ChunkHead <= banks[i].EndAddr
      BY <3>1 DEF ChunkAt
    <3>3. \A d \in DOMAIN T2 : d <= c \/ d >= c + T[c].size
      <4> SUFFICES ASSUME NEW d \in DOMAIN T2 PROVE d <= c \/ d >= c + T[c].size
        OBVIOUS
      <4>1. CASE d = a \/ d = e
        <5>1. c \in Nat /\ (c + T[c].size <= a \/ c >= e + ChunkHead)
          BY <1>5, <2>3, <3>1
        <5>2. T[c].size \in Nat
          BY <2>3, <3>1, ChunkIs
        <5> QED
          BY <1>2, <1>3, <4>1, <5>1, <5>2 DEF ChunkHead
      <4>2. CASE d \in DOMAIN T
        BY <3>2, <4>2
      <4> QED
        BY <1>7, <4>1, <4>2
    <3>4. c + T[c].size \in DOMAIN T2 /\ P2[c + T[c].size] = T2[c]
      BY <1>7, <3>1, <3>2
    <3> QED
      BY <3>1, <3>2, <3>3, <3>4 DEF ChunkAt
  <2> QED
    BY <1>7, <2>1, <2>2, <2>3
<1>12. ASSUME NEW c \in DOMAIN T2 PROVE P2[c] = Used(0) <=> c \in Firsts(banks, J)
  <2>1. CASE c = a
    BY <1>2, <1>7, <2>1
  <2>2. CASE c = e
    BY <1>4, <1>7, <1>8, <2>2
  <2>3. CASE c \in DOMAIN T
    BY <1>1, <1>7, <2>3
  <2> QED
    BY <1>7, <2>1, <2>2, <2>3
<1>13. ASSUME NEW c \in DOMAIN T2, P2[c] # Used(0) PROVE Preceded(T2, c)
  <2>1. CASE c = e
    <3>1. a \in DOMAIN T2 /\ T2[a].size # 0 /\ a + T2[a].size = c
      BY <1>2, <1>7, <1>8, <2>1
    <3> QED
      BY <3>1 DEF Preceded
  <2>2. CASE c # e
    <3>1. c \in DOMAIN T /\ P[c] # Used(0)
      BY <1>7, <1>13, <2>2
    <3>2. PICK b \in DOMAIN T : T[b].size # 0 /\ b + T[b].size = c
      BY <1>1, <3>1 DEF Preceded
    <3>3. b \in DOMAIN T2 /\ T2[b] = T[b]
      BY <1>7, <3>2
    <3> QED
      BY <3>2, <3>3 DEF Preceded
  <2> QED
    BY <2>1, <2>2
<1>14. Headed(T2, P2, banks, J)
  BY <1>1, <1>9, <1>10, <1>11, <1>12, <1>13 DEF Headed
<1> QED
  BY <1>6, <1>14

\* The free chunks with a bank more.
LEMMA FreesLaid ==
  ASSUME NEW T, NEW P, NEW a, NEW e, NEW n \in Nat, n # 0, a # e, a \notin DOMAIN T, e \notin DOMAIN T,
         UsedOf(T) = {}, NEW T2, NEW P2, Laid(T, P, a, e, n, T2, P2)
  PROVE  Frees(T2) = Put(Frees(T), a, n) /\ UsedOf(T2) = {} /\ Loose(T2) = Loose(T) \cup {a}
<1>1. /\ DOMAIN T2 = DOMAIN T \cup {a, e}
      /\ T2[a] = Free(n) /\ T2[e] = Used(0)
      /\ \A d \in DOMAIN T : T2[d] = T[d]
  BY DEF Laid
<1>2. Free(n).size = n /\ ~Free(n).used /\ Used(0).size = 0
  BY DEF Free, Used
<1>3. ASSUME NEW d \in DOMAIN T2
      PROVE  (d \in Loose(T2) <=> d \in Loose(T) \cup {a}) /\ d \notin UsedOf(T2)
  <2>1. CASE d = a
    BY <1>1, <1>2, <2>1 DEF Loose, UsedOf
  <2>2. CASE d = e
    BY <1>1, <1>2, <2>2 DEF Loose, UsedOf
  <2>3. CASE d \in DOMAIN T
    <3>1. d # a /\ T2[d] = T[d] /\ d \notin UsedOf(T)
      BY <1>1, <2>3
    <3> QED
      BY <2>3, <3>1 DEF Loose, UsedOf
  <2> QED
    BY <1>1, <2>1, <2>2, <2>3
<1>4. Loose(T2) = Loose(T) \cup {a} /\ UsedOf(T2) = {}
  <2>1. Loose(T2) \subseteq DOMAIN T2 /\ Loose(T) \cup {a} \subseteq DOMAIN T2 /\ UsedOf(T2) \subseteq DOMAIN T2
    BY <1>1 DEF Loose, UsedOf
  <2> QED
    BY <1>3, <2>1
<1> DEFINE f == Frees(T2)
           s == Frees(T)
           p == Put(s, a, n)
<1>5. /\ f = [x \in DOMAIN f |-> f[x]] /\ DOMAIN f = Loose(T2) /\ \A x \in Loose(T2) : f[x] = T2[x].size
      /\ DOMAIN s = Loose(T) /\ \A x \in Loose(T) : s[x] = T[x].size
  BY DEF Frees
<1> HIDE DEF s
<1>6. /\ p = [x \in DOMAIN p |-> p[x]] /\ DOMAIN p = DOMAIN s \cup {a}
      /\ \A x \in DOMAIN p : p[x] = IF x = a THEN n ELSE s[x]
  BY DEF Put
<1> HIDE DEF f, p
<1>7. DOMAIN f = DOMAIN p
  BY <1>4, <1>5, <1>6
<1>8. \A x \in DOMAIN f : f[x] = p[x]
  <2> SUFFICES ASSUME NEW x \in DOMAIN f PROVE f[x] = p[x]
    OBVIOUS
  <2>1. CASE x = a
    BY <1>1, <1>2, <1>5, <1>6, <1>7, <2>1
  <2>2. CASE x # a
    <3>1. x \in Loose(T) /\ x \in DOMAIN T
      BY <1>4, <1>5, <2>2 DEF Loose
    <3> QED
      BY <1>1, <1>5, <1>6, <1>7, <2>2, <3>1
  <2> QED
    BY <2>1, <2>2
<1>9. f = p
  BY <1>5, <1>6, <1>7, <1>8
<1> QED
  BY <1>4, <1>9 DEF f, p, s

\* A bank is one free chunk more, or nothing when it is too small.
LEMMA RegisteredGood ==
  ASSUME NEW h, NEW banks, NEW k \in DOMAIN banks, k \in Nat, Settled(h, banks, k - 1),
         NEW g, g = Registered(h, banks[k])
  PROVE  Settled(g, banks, k)
<1> DEFINE T == h.ThisInfo
           P == h.PrevInfo
           J == DOMAIN banks
           bank == banks[k]
           a == align_upside(bank.StartAddr, 4)
           e == Sub(align_downside(bank.EndAddr, 4), ChunkHead)
           n == Sub(e, a)
           T2 == Put(Put(T, a, Free(n)), e, Used(0))
           P2 == Put(Put(P, a, Used(0)), e, Free(n))
           marked == [h EXCEPT !.PrevInfo = P2, !.ThisInfo = T2]
<1>1. /\ Headed(T, P, banks, J) /\ CoalAt(T) /\ Listed(h, Frees(T)) /\ UsedOf(T) = {}
      /\ Within(T, banks, k - 1) /\ Banked(banks, J) /\ DOMAIN P = DOMAIN T
  BY DEF Settled, Good, Headed
<1>2. Spanned(banks[k], a, e, n)
  BY DEF Spanned
<1>3. g = IF align_downside(bank.EndAddr, 4) < a \/ n < MIN_CHUNK_SIZE THEN h
          ELSE checkin_free_chunk(marked, a, n)
  BY DEF Registered
<1> HIDE DEF a, e, n, T2, P2
<1>4. /\ a \in Nat /\ a % 4 = 0 /\ banks[k].StartAddr <= a /\ a \in 1 .. Modulus - 1
      /\ e \in Nat /\ e % 4 = 0 /\ e + ChunkHead <= banks[k].EndAddr /\ e \in 1 .. Modulus - 1
      /\ n \in Nat /\ a + n = e /\ a \in Firsts(banks, J) /\ n \in 0 .. Modulus - 1
      /\ align_downside(banks[k].EndAddr, 4) >= a
  <2>1. k \in J
    OBVIOUS
  <2> HIDE DEF J, bank
  <2>2. Spans(banks[k], Firsts(banks, J), a, e, n)
    BY ONLY <1>1, <1>2, <2>1, SpanIs
  <2> QED
    BY ONLY <2>2 DEF Spans
<1>5. align_downside(bank.EndAddr, 4) \in Nat
  <2>1. banks[k].EndAddr \in Nat
    BY <1>1, FirstIs
  <2> QED
    BY <2>1, AlignDown
<1>6. Within(T, banks, k)
  BY <1>1 DEF Within
<1>7. CASE n < MIN_CHUNK_SIZE
  <2>1. g = h
    BY <1>3, <1>7
  <2> QED
    BY <1>6, <2>1 DEF Settled
<1>8. CASE ~(n < MIN_CHUNK_SIZE)
  <2>1. g = checkin_free_chunk(marked, a, n)
    BY <1>3, <1>4, <1>5, <1>8
  <2>2. n >= 16 /\ n \in MIN_CHUNK_SIZE .. Modulus - 1 /\ n # 0 /\ a # e
    BY <1>4, <1>8 DEF MIN_CHUNK_SIZE
  <2>3. \A c \in DOMAIN T : c \in Nat /\ (c + ChunkHead <= a \/ c >= e + ChunkHead)
    <3>1. k \in J
      OBVIOUS
    <3> QED
      BY <1>1, <1>2, <3>1, Apart2
  <2>4. a \notin DOMAIN T /\ e \notin DOMAIN T
    BY <1>4, <2>2, <2>3 DEF ChunkHead
  <2>5. Laid(T, P, a, e, n, T2, P2)
    <3> HIDE DEF T, P
    <3> QED
      BY <1>1, <2>2, <2>4, LaidIs DEF T2, P2
  <2>6. Headed(T2, P2, banks, J)
    <3>1. k \in J /\ k \in Nat /\ J = DOMAIN banks
      OBVIOUS
    <3> HIDE DEF T, P, J
    <3> QED
      BY ONLY <1>1, <1>2, <2>2, <2>5, <3>1, HeadLaid
  <2>7. Frees(T2) = Put(Frees(T), a, n) /\ UsedOf(T2) = {} /\ Loose(T2) = Loose(T) \cup {a}
    <3> HIDE DEF T, P
    <3> QED
      BY <1>1, <1>4, <2>2, <2>4, <2>5, FreesLaid
  <2>8. Relabelled(marked, h, T2, P2)
    <3>1. Record(h)
      BY <1>1 DEF Listed
    <3> QED
      BY <3>1 DEF Relabelled, Record, Fields
  <2> DEFINE s == Frees(T)
  <2>9. DOMAIN s = Loose(T) /\ \A x \in Loose(T) : s[x] = T[x].size /\ x \in DOMAIN T
    BY DEF Frees, Loose
  <2>10. Listed(h, s)
    BY <1>1
  <2> HIDE DEF s, marked
  <2>11. Listed(marked, s) /\ marked.ThisInfo = T2 /\ marked.PrevInfo = P2
    BY ONLY <2>8, <2>10, RelabelledListed
  <2>12. DOMAIN T2 = DOMAIN T \cup {a, e} /\ T2[a] = Free(n) /\ T2[e] = Used(0)
         /\ \A d \in DOMAIN T : T2[d] = T[d]
    BY <2>5 DEF Laid
  <2>13. Fits(marked, s)
    BY <2>9, <2>11, <2>12 DEF Fits, Size
  <2>14. a \in Nat \ {0} /\ a \notin DOMAIN s
    BY <1>4, <2>4, <2>9
  <2>15. Listed(g, Put(s, a, n)) /\ Heads(g, marked)
    BY <2>1, <2>2, <2>11, <2>13, <2>14, CheckIn
  <2>16. g.ThisInfo = T2 /\ g.PrevInfo = P2 /\ Listed(g, Frees(T2))
    BY <2>7, <2>11, <2>15 DEF Heads, s
  <2>17. CoalAt(T2)
    <3> SUFFICES ASSUME NEW d \in Loose(T2) PROVE T2[d + T2[d].size].used
      BY DEF CoalAt
    <3>1. CASE d = a
      <4>1. T2[d].size = n /\ d + T2[d].size = e
        BY <1>4, <2>12, <3>1 DEF Free
      <4> QED
        BY <2>12, <4>1 DEF Used
    <3>2. CASE d # a
      <4>1. d \in Loose(T)
        BY <2>7, <3>2
      <4>2. d \in DOMAIN T /\ T2[d] = T[d] /\ T[d].size # 0 /\ T[d + T[d].size].used
        BY <1>1, <2>12, <4>1 DEF Loose, CoalAt
      <4>3. d + T[d].size \in DOMAIN T
        <5> HIDE DEF T, P, J
        <5> QED
          BY <1>1, <4>2, ChunkIs
      <4> QED
        BY <2>12, <4>2, <4>3
    <3> QED
      BY <3>1, <3>2
  <2>18. Within(T2, banks, k)
    <3> SUFFICES ASSUME NEW c \in DOMAIN T2
                 PROVE  \E i \in DOMAIN banks : /\ i \in 0 .. k /\ banks[i].StartAddr <= c
                                                /\ c + ChunkHead <= banks[i].EndAddr
      BY DEF Within
    <3>1. CASE c = a \/ c = e
      <4>1. banks[k].StartAddr <= c /\ c + ChunkHead <= banks[k].EndAddr
        <5>1. banks[k].StartAddr \in Nat /\ banks[k].EndAddr \in Nat
          BY <1>1, FirstIs
        <5> QED
          BY <1>4, <3>1, <5>1 DEF ChunkHead
      <4> QED
        BY <4>1
    <3>2. CASE c \in DOMAIN T
      BY <1>6, <3>2 DEF Within
    <3> QED
      BY <2>12, <3>1, <3>2
  <2> QED
    BY <2>6, <2>7, <2>16, <2>17, <2>18 DEF Settled, Good
<1> QED
  BY <1>7, <1>8

\* What there is before the first bank.
LEMMA NoMemoryIs ==
  /\ Record(NoMemory) /\ NoMemory.ThisInfo = << >> /\ NoMemory.PrevInfo = << >>
  /\ NoMemory.pFreeNext = [b \in Boxes |-> b] /\ NoMemory.pFreePrev = [b \in Boxes |-> b]
  /\ NoMemory.pChild = << >> /\ NoMemory.pParent = << >> /\ NoMemory.Index = << >>
  /\ NoMemory.SameMap = {} /\ NoMemory.TreeMap = {} /\ NoMemory.tree = [i \in Indices |-> NULL]
BY DEF NoMemory, Record, Fields, Boxes

\* Empty rings and empty trees list nothing.
LEMMA NothingListed ==
  ASSUME NEW sz, sz = [x \in DOMAIN sz |-> sz[x]], DOMAIN sz = {}
  PROVE  Listed(NoMemory, sz)
<1> DEFINE h == NoMemory
           D == DOMAIN sz \cup Boxes
<1>1. /\ Record(h) /\ h.pFreeNext = [b \in Boxes |-> b] /\ h.pFreePrev = [b \in Boxes |-> b]
      /\ h.pChild = << >> /\ h.pParent = << >> /\ h.Index = << >>
      /\ h.SameMap = {} /\ h.TreeMap = {} /\ h.tree = [i \in Indices |-> NULL]
  BY NoMemoryIs
<1> HIDE DEF h
<1>2. D = Boxes
  OBVIOUS
<1>3. Large(sz) = {}
  BY DEF Large
<1>4. Sized(sz)
  BY DEF Sized
<1>5. Ringed(h, sz)
  <2> DEFINE cls == Cls(sz)
  <2>1. \A x \in Boxes : cls[x] = -(1 + x)
    BY DEF Cls
  <2>2. \A x \in Boxes : x \in Int
    <3>1. ASSUME NEW i \in Indices PROVE Box(i) \in Int
      BY ONLY <3>1 DEF Box, Indices
    <3> QED
      BY <3>1 DEF Boxes
  <2> HIDE DEF cls
  <2>3. Linking(Boxes, h.pFreeNext, h.pFreePrev, cls)
    BY <1>1 DEF Linking
  <2>4. Whole(Boxes, h.pFreeNext, cls)
    <3> SUFFICES ASSUME NEW X \in SUBSET Boxes, NEW x \in X, NEW y \in Boxes, cls[y] = cls[x]
                 PROVE  y \in X
      BY DEF Whole
    <3>1. -(1 + y) = -(1 + x) /\ x \in Int /\ y \in Int
      BY <2>1, <2>2
    <3>2. x = y
      BY <3>1
    <3> QED
      BY <3>2
  <2>5. h.SameMap = {i \in Indices : h.pFreeNext[Box(i)] # Box(i)}
    BY <1>1 DEF Boxes
  <2> QED
    BY <1>2, <2>3, <2>4, <2>5 DEF Ringed, Rings, cls
<1>6. Treed(h, sz)
  <2>0. DOMAIN << >> = {}
    OBVIOUS
  <2>1. /\ DOMAIN h.pParent = {} /\ DOMAIN h.pChild = {} /\ DOMAIN h.Index = {}
    BY <1>1, <2>0
  <2>2. /\ h.pParent \in [{} -> Int] /\ h.pChild \in [{} -> [0..1 -> {} \cup {NULL}]]
        /\ h.Index \in [{} -> Indices]
    <3>1. ASSUME NEW S PROVE << >> \in [{} -> S]
      <4>1. << >> \in Seq(S) /\ Len(<< >>) = 0 /\ 1..0 = {}
        OBVIOUS
      <4>2. << >> \in [1 .. Len(<< >>) -> S]
        BY <4>1, LenProperties
      <4> QED
        BY <4>1, <4>2
    <3> QED
      BY <1>1, <3>1
  <2>3. NodesRight(h.pParent, sz)
    BY <1>3 DEF NodesRight, Nodes
  <2> DEFINE dep == [c \in {} |-> 0]
  <2>4. Trie({}, Uses(sz), h.pChild, h.pParent, h.Index, h.tree, dep)
    <3>1. TrieType({}, Uses(sz), h.pChild, h.pParent, h.Index, h.tree, dep)
      <4>1. Uses(sz) \in [{} -> Nat]
        BY <1>3 DEF Uses
      <4>2. dep \in [{} -> Nat]
        OBVIOUS
      <4>3. h.tree \in [Indices -> {} \cup {NULL}]
        BY <1>1
      <4> HIDE DEF dep
      <4> QED
        BY <2>1, <2>2, <4>1, <4>2, <4>3 DEF TrieType
    <3>2. RootsRight(h.pParent, h.Index, h.tree, dep)
      BY <1>1 DEF RootsRight
    <3> HIDE DEF dep
    <3> QED
      BY <3>1, <3>2 DEF Trie, Nodes
  <2>5. h.TreeMap = {i \in Indices : h.tree[i] # NULL}
    BY <1>1
  <2> HIDE DEF dep
  <2>6. \E d : Trie(Large(sz), Uses(sz), h.pChild, h.pParent, h.Index, h.tree, d)
    BY <1>3, <2>4
  <2> QED
    BY <1>3, <2>2, <2>3, <2>5, <2>6 DEF Treed
<1> QED
  BY <1>1, <1>4, <1>5, <1>6 DEF Listed, h

\* Before the first bank there is nothing.
LEMMA NoMemoryGood ==
  ASSUME NEW banks, Banked(banks, DOMAIN banks)
  PROVE  Settled(NoMemory, banks, 0)
<1> DEFINE T == NoMemory.ThisInfo
           P == NoMemory.PrevInfo
<1>1. DOMAIN T = {} /\ DOMAIN P = {} /\ T = << >> /\ P = << >>
  BY NoMemoryIs
<1>2. T \in [DOMAIN T -> Infos] /\ P \in [DOMAIN T -> Infos]
  BY <1>1
<1> HIDE DEF T, P
<1>3. Headed(T, P, banks, DOMAIN banks)
  BY <1>1, <1>2 DEF Headed
<1>4. Loose(T) = {} /\ UsedOf(T) = {}
  BY <1>1 DEF Loose, UsedOf
<1> DEFINE s == Frees(T)
<1>5. s = [x \in DOMAIN s |-> s[x]] /\ DOMAIN s = {}
  BY <1>4 DEF Frees
<1> HIDE DEF s
<1>6. Listed(NoMemory, s)
  BY <1>5, NothingListed
<1>7. CoalAt(T) /\ Within(T, banks, 0)
  BY <1>1, <1>4 DEF CoalAt, Within
<1> QED
  BY <1>3, <1>4, <1>6, <1>7 DEF Settled, Good, T, P, s

\* The assumption on the boards, as a fact about the banks of one.
LEMMA BoardIs ==
  ASSUME NEW b \in Boards
  PROVE  /\ Banked(b.banks, DOMAIN b.banks) /\ Len(b.banks) \in Nat
         /\ DOMAIN b.banks = 1 .. Len(b.banks)
<1> DEFINE R == [StartAddr : 1 .. Modulus - 1, EndAddr : 1 .. Modulus - 1]
           banks == b.banks
<1>1. /\ banks \in Seq(R)
      /\ \A i \in DOMAIN banks : banks[i].StartAddr + 11 <= banks[i].EndAddr
      /\ \A i, j \in DOMAIN banks : \/ i = j
                                    \/ banks[i].EndAddr <= banks[j].StartAddr
                                    \/ banks[j].EndAddr <= banks[i].StartAddr
  BY HeapAssumption
<1>2. Len(banks) \in Nat /\ DOMAIN banks = 1 .. Len(banks) /\ \A i \in DOMAIN banks : banks[i] \in R
  <2> HIDE DEF R, banks
  <2> QED
    BY <1>1
<1> HIDE DEF banks
<1>3. \A i \in DOMAIN banks : banks[i].StartAddr \in 1 .. Modulus - 1 /\ banks[i].EndAddr \in 1 .. Modulus - 1
  BY <1>2
<1> QED
  BY <1>1, <1>2, <1>3 DEF Banked, banks

\* What the set-up leaves.
LEMMA SetupGood ==
  ASSUME board \in Boards
  PROVE  Good(mallocor_setup, board.banks) /\ UsedOf(mallocor_setup.ThisInfo) = {}
<1> DEFINE banks == board.banks
           n == Len(banks)
           Turns(f, m) == f = [k \in 0..m |-> IF k = 0 THEN NoMemory ELSE Registered(f[k - 1], banks[k])]
           Bad == {m \in Nat : ~ \E f : Turns(f, m)}
<1>0. Banked(banks, DOMAIN banks) /\ n \in Nat /\ DOMAIN banks = 1 .. n
  BY BoardIs
<1>1. mallocor_setup = (CHOOSE f : Turns(f, n))[n]
  BY DEF mallocor_setup, aRamBanks
<1> HIDE DEF Turns, banks, n
<1>2. Bad = {}
  <2> SUFFICES ASSUME Bad # {} PROVE FALSE
    OBVIOUS
  <2>1. PICK m \in Bad : \A r \in Bad : m <= r
    <3>1. Bad \in SUBSET Nat
      OBVIOUS
    <3> QED
      BY <3>1, Least
  <2>2. m # 0
    <3> DEFINE f == [k \in 0..0 |-> NoMemory]
    <3>1. f = [k \in 0..0 |-> IF k = 0 THEN NoMemory ELSE Registered(f[k - 1], banks[k])]
      <4> SUFFICES ASSUME NEW k \in 0..0
                   PROVE  f[k] = IF k = 0 THEN NoMemory ELSE Registered(f[k - 1], banks[k])
        OBVIOUS
      <4> QED
        OBVIOUS
    <3> HIDE DEF f
    <3>2. \E e : Turns(e, 0)
      BY <3>1 DEF Turns
    <3> QED
      BY <2>1, <3>2
  <2>3. m \in Nat /\ m - 1 \in Nat /\ m - 1 \notin Bad
    BY <2>1, <2>2
  <2>4. PICK f : Turns(f, m - 1)
    BY <2>3
  <2> DEFINE g == [k \in 0..m |-> IF k = m THEN Registered(f[m - 1], banks[m]) ELSE f[k]]
  <2>5. g = [k \in 0..m |-> IF k = 0 THEN NoMemory ELSE Registered(g[k - 1], banks[k])]
    <3> SUFFICES ASSUME NEW k \in 0..m
                 PROVE  g[k] = IF k = 0 THEN NoMemory ELSE Registered(g[k - 1], banks[k])
      OBVIOUS
    <3>1. CASE k = m
      BY <2>2, <2>3, <3>1
    <3>2. CASE k # m
      <4>1. k \in 0 .. m - 1 /\ (k # 0 => k - 1 \in 0 .. m - 1 /\ k - 1 # m)
        BY <2>3, <3>2
      <4>2. f[k] = IF k = 0 THEN NoMemory ELSE Registered(f[k - 1], banks[k])
        BY <2>4, <4>1 DEF Turns
      <4>3. g[k] = f[k] /\ (k # 0 => g[k - 1] = f[k - 1])
        BY <2>3, <3>2, <4>1
      <4> QED
        BY <4>2, <4>3
    <3> QED
      BY <3>1, <3>2
  <2> HIDE DEF g
  <2>6. \E e : Turns(e, m)
    BY <2>5 DEF Turns
  <2> QED
    BY <2>1, <2>6
<1> DEFINE at == CHOOSE f : Turns(f, n)
<1>3. Turns(at, n)
  <2>1. \E f : Turns(f, n)
    BY <1>0, <1>2
  <2> QED
    BY <2>1
<1>4. mallocor_setup = at[n]
  BY <1>1
<1> HIDE DEF at
<1>5. at[0] = NoMemory /\ \A k \in 1..n : at[k] = Registered(at[k - 1], banks[k])
  <2>1. \A k \in 0..n : at[k] = IF k = 0 THEN NoMemory ELSE Registered(at[k - 1], banks[k])
    BY <1>3 DEF Turns
  <2> QED
    BY <1>0, <2>1
<1> DEFINE Off == {k \in 0..n : ~Settled(at[k], banks, k)}
<1>6. Off = {}
  <2> SUFFICES ASSUME Off # {} PROVE FALSE
    OBVIOUS
  <2>1. PICK k \in Off : \A r \in Off : k <= r
    <3>1. Off \in SUBSET Nat
      BY <1>0
    <3> QED
      BY <3>1, Least
  <2>2. k # 0
    <3>1. Settled(at[0], banks, 0)
      BY <1>0, <1>5, NoMemoryGood
    <3> QED
      BY <2>1, <3>1
  <2>3. k \in 1..n /\ k \in Nat /\ k - 1 \in 0..n /\ k - 1 \notin Off
    BY <1>0, <2>1, <2>2
  <2>4. Settled(at[k - 1], banks, k - 1) /\ k \in DOMAIN banks
    BY <1>0, <2>3
  <2> DEFINE h == at[k - 1]
             g == at[k]
  <2>5. Settled(h, banks, k - 1) /\ g = Registered(h, banks[k])
    BY <1>5, <2>3, <2>4
  <2> HIDE DEF g, h
  <2>6. Settled(g, banks, k)
    BY ONLY <2>3, <2>4, <2>5, RegisteredGood
  <2> QED
    BY <2>1, <2>6 DEF g
<1>7. Settled(mallocor_setup, banks, n)
  <2>1. n \in 0..n
    BY <1>0
  <2> QED
    BY <1>4, <1>6, <2>1
<1> QED
  BY <1>7 DEF Settled, banks

-----------------------------------------------------------------------------
\* The states of the allocator.

\* What the callers hold are the used chunks, each with room for what was asked for.
Owned(T, hld) ==
  /\ \A c \in UsedOf(T) : c \in Nat /\ c + ChunkHead \in DOMAIN hld
  /\ \A p \in DOMAIN hld : /\ p - ChunkHead \in UsedOf(T) /\ p \in Nat /\ hld[p] \in Nat
                           /\ T[p - ChunkHead].size >= hld[p] + ChunkHead

\* The inductive invariant.
HeapInv == board \in Boards /\ Good(heap, board.banks) /\ Owned(heap.ThisInfo, held)

\* The set-up establishes it.
LEMMA InitInv == Init => HeapInv
<1> SUFFICES ASSUME Init PROVE HeapInv
  OBVIOUS
<1>1. board \in Boards /\ heap = mallocor_setup /\ held = << >>
  BY DEF Init
<1>2. Good(mallocor_setup, board.banks) /\ UsedOf(mallocor_setup.ThisInfo) = {}
  BY <1>1, SetupGood
<1>3. DOMAIN held = {}
  BY <1>1
<1> QED
  BY <1>1, <1>2, <1>3 DEF HeapInv, Owned

\* A call of malloc that finds a chunk.
Allotted(n, c) ==
  /\ Good(heap', board.banks) /\ Handed(heap.ThisInfo, heap'.ThisInfo, c, n)
  /\ held' = Put(held, c + ChunkHead, n) /\ n \in Nat /\ c \in Nat

\* A call of malloc changes nothing, or hands a chunk to its caller.
LEMMA MallocIs ==
  ASSUME HeapInv, NEW n \in board.requests, malloc(n)
  PROVE  UNCHANGED vars \/ \E c : Allotted(n, c)
<1> DEFINE m == Formatted(n)
           out == checkout(heap, m)
           cut == splite_free_chunk(out[2], out[1], m + ChunkHead)
           banks == board.banks
<1>1. Good(heap, banks) /\ board \in Boards
  BY DEF HeapInv
<1>2. n \in 0 .. Modulus - 32
  BY <1>1, HeapAssumption
<1>3. n \in Nat
  BY <1>2
<1>4. /\ m \in Nat /\ m >= 16 /\ m >= n /\ m % 4 = 0 /\ (is_small(m) => m % 8 = 0)
      /\ m + ChunkHead \in 0 .. Modulus - 1
  BY <1>2, FormattedIs
<1>5. CASE out[1] = NULL
  BY <1>5 DEF malloc
<1>6. CASE out[1] # NULL
  <2>1. /\ heap' = checkin_free_chunk(cut[2], cut[1], IF cut[1] = NULL THEN 0 ELSE Size(cut[2], cut[1]))
        /\ held' = Put(held, out[1] + ChunkHead, n)
    BY <1>6 DEF malloc
  <2> DEFINE c == out[1]
  <2>2. Good(heap', banks) /\ Handed(heap.ThisInfo, heap'.ThisInfo, c, m)
    <3> DEFINE h2 == heap'
    <3>1. h2 = checkin_free_chunk(cut[2], cut[1], IF cut[1] = NULL THEN 0 ELSE Size(cut[2], cut[1]))
      BY <2>1
    <3>2. out = checkout(heap, m) /\ cut = splite_free_chunk(out[2], out[1], m + ChunkHead)
      OBVIOUS
    <3> HIDE DEF h2, cut, out, m, banks
    <3>3. Good(h2, banks) /\ Handed(heap.ThisInfo, h2.ThisInfo, out[1], m)
      BY ONLY <1>1, <1>4, <1>6, <3>1, <3>2, MallocGood
    <3> QED
      BY <3>3 DEF h2
  <2> HIDE DEF out, m
  <2>3. heap'.ThisInfo[c].size >= n + ChunkHead /\ c \in Nat
    <3> DEFINE T2 == heap'.ThisInfo
               P2 == heap'.PrevInfo
               J == DOMAIN banks
    <3>1. Headed(T2, P2, banks, J) /\ c \in UsedOf(T2) /\ T2[c].size >= m + ChunkHead
      BY <2>2 DEF Good, Handed
    <3>2. c \in DOMAIN T2 /\ T2[c].size # 0
      BY <3>1 DEF UsedOf
    <3> HIDE DEF T2, P2, J, c
    <3>3. T2[c].size \in Nat /\ c \in Nat
      BY ONLY <3>1, <3>2, ChunkIs
    <3>4. T2[c].size >= n + ChunkHead
      BY <1>3, <1>4, <3>1, <3>3 DEF ChunkHead
    <3> QED
      BY <3>3, <3>4 DEF T2, c
  <2>4. Allotted(n, c)
    BY <1>3, <2>1, <2>2, <2>3 DEF Allotted, Handed
  <2> QED
    BY <2>4
<1> QED
  BY <1>5, <1>6

\* A call of free that gives something back.
Givenback(p) ==
  /\ p \in DOMAIN held /\ p - ChunkHead \in UsedOf(heap.ThisInfo)
  /\ Good(heap', board.banks) /\ Returned(heap.ThisInfo, heap'.ThisInfo, p - ChunkHead)
  /\ held' = Drop(held, p)

\* A call of free changes nothing, or takes back the chunk its caller held.
LEMMA FreeIs ==
  ASSUME HeapInv, NEW p, free(p)
  PROVE  UNCHANGED vars \/ Givenback(p)
<1> DEFINE c == p - ChunkHead
           n == Size(heap, c)
           this == [heap EXCEPT !.ThisInfo[c] = Free(n), !.PrevInfo[c + n] = Free(n)]
           back == MergedPrev(this, c)
           all == MergedNext(back[2], back[1])
           banks == board.banks
<1>1. Good(heap, banks) /\ Owned(heap.ThisInfo, held)
  BY DEF HeapInv
<1>2. CASE p = NULL /\ UNCHANGED vars
  BY <1>2
<1>3. CASE /\ p \in DOMAIN held
           /\ heap' = checkin_free_chunk(all, back[1], Size(all, back[1]))
           /\ held' = Drop(held, p)
  <2>1. c \in UsedOf(heap.ThisInfo)
    BY <1>1, <1>3 DEF Owned
  <2> DEFINE h2 == heap'
  <2>2. /\ h2 = checkin_free_chunk(all, back[1], Size(all, back[1])) /\ n = Size(heap, c)
        /\ this = [heap EXCEPT !.ThisInfo[c] = Free(n), !.PrevInfo[c + n] = Free(n)]
        /\ back = MergedPrev(this, c) /\ all = MergedNext(back[2], back[1])
    BY <1>3
  <2> HIDE DEF h2, this, back, all, n, banks, c
  <2>3. Good(h2, banks) /\ Returned(heap.ThisInfo, h2.ThisInfo, c)
    BY ONLY <1>1, <2>1, <2>2, FreeGood
  <2> QED
    BY <1>3, <2>1, <2>3 DEF Givenback, h2, c, banks
<1> QED
  BY <1>2, <1>3 DEF free

\* What is handed out is held, and everything else is held as before.
LEMMA OwnedMore ==
  ASSUME NEW T, NEW T2, NEW c \in Nat, NEW n \in Nat, Handed(T, T2, c, n), NEW hld, Owned(T, hld),
         NEW h2, h2 = Put(hld, c + ChunkHead, n)
  PROVE  Owned(T2, h2) /\ c + ChunkHead \notin DOMAIN hld
<1>1. /\ c \in UsedOf(T2) /\ c \notin UsedOf(T) /\ UsedOf(T2) = UsedOf(T) \cup {c}
      /\ \A d \in UsedOf(T) : T2[d] = T[d] /\ T2[c].size >= n + ChunkHead
  BY DEF Handed
<1>2. DOMAIN h2 = DOMAIN hld \cup {c + 8} /\ \A p \in DOMAIN h2 : h2[p] = IF p = c + 8 THEN n ELSE hld[p]
  BY DEF Put, ChunkHead
<1>3. /\ \A d \in UsedOf(T) : d \in Nat /\ d + 8 \in DOMAIN hld
      /\ \A p \in DOMAIN hld : /\ p - 8 \in UsedOf(T) /\ p \in Nat /\ hld[p] \in Nat
                               /\ T[p - 8].size >= hld[p] + 8
  BY DEF Owned, ChunkHead
<1>4. c + 8 \notin DOMAIN hld
  <2> SUFFICES ASSUME c + 8 \in DOMAIN hld PROVE FALSE
    OBVIOUS
  <2>1. (c + 8) - 8 \in UsedOf(T)
    BY <1>3
  <2>2. (c + 8) - 8 = c
    OBVIOUS
  <2> QED
    BY <1>1, <2>1, <2>2
<1>5. ASSUME NEW d \in UsedOf(T2) PROVE d \in Nat /\ d + 8 \in DOMAIN h2
  <2>1. CASE d = c
    BY <1>2, <2>1
  <2>2. CASE d # c
    BY <1>1, <1>2, <1>3, <2>2
  <2> QED
    BY <2>1, <2>2
<1>6. ASSUME NEW p \in DOMAIN h2
      PROVE  p - 8 \in UsedOf(T2) /\ p \in Nat /\ h2[p] \in Nat /\ T2[p - 8].size >= h2[p] + 8
  <2>1. CASE p = c + 8
    <3>1. p - 8 = c /\ p \in Nat /\ h2[p] = n
      BY <1>2, <2>1
    <3>2. T2[c].size >= n + 8
      BY DEF Handed, ChunkHead
    <3> QED
      BY <1>1, <3>1, <3>2
  <2>2. CASE p # c + 8
    <3>1. p \in DOMAIN hld /\ h2[p] = hld[p]
      BY <1>2, <2>2
    <3> QED
      BY <1>1, <1>3, <3>1
  <2> QED
    BY <2>1, <2>2
<1> QED
  BY <1>4, <1>5, <1>6 DEF Owned, ChunkHead

\* What is given back is held no more, and everything else is held as before.
LEMMA OwnedLess ==
  ASSUME NEW T, NEW T2, NEW hld, Owned(T, hld), NEW p \in DOMAIN hld, Returned(T, T2, p - ChunkHead),
         NEW h2, h2 = Drop(hld, p)
  PROVE  Owned(T2, h2)
<1>1. /\ UsedOf(T2) = UsedOf(T) \ {p - 8} /\ \A d \in UsedOf(T) \ {p - 8} : T2[d] = T[d]
  BY DEF Returned, ChunkHead
<1>2. DOMAIN h2 = DOMAIN hld \ {p} /\ \A q \in DOMAIN h2 : h2[q] = hld[q]
  BY DEF Drop
<1>3. /\ \A d \in UsedOf(T) : d \in Nat /\ d + 8 \in DOMAIN hld
      /\ \A q \in DOMAIN hld : /\ q - 8 \in UsedOf(T) /\ q \in Nat /\ hld[q] \in Nat
                               /\ T[q - 8].size >= hld[q] + 8
  BY DEF Owned, ChunkHead
<1>4. p \in Nat
  BY <1>3
<1>5. ASSUME NEW d \in UsedOf(T2) PROVE d \in Nat /\ d + 8 \in DOMAIN h2
  <2>1. d \in UsedOf(T) /\ d # p - 8 /\ d \in Nat /\ d + 8 \in DOMAIN hld
    BY <1>1, <1>3
  <2>2. d + 8 # p
    BY <1>4, <2>1
  <2> QED
    BY <1>2, <2>1, <2>2
<1>6. ASSUME NEW q \in DOMAIN h2
      PROVE  q - 8 \in UsedOf(T2) /\ q \in Nat /\ h2[q] \in Nat /\ T2[q - 8].size >= h2[q] + 8
  <2>1. q \in DOMAIN hld /\ q # p /\ h2[q] = hld[q] /\ q \in Nat
    BY <1>2, <1>3
  <2>2. q - 8 # p - 8
    BY <1>4, <2>1
  <2> QED
    BY <1>1, <1>3, <2>1, <2>2
<1> QED
  BY <1>5, <1>6 DEF Owned, ChunkHead

\* Every step keeps it.
LEMMA NextInv == HeapInv /\ [Next]_<<board, vars>> => HeapInv'
<1> SUFFICES ASSUME HeapInv, [Next]_<<board, vars>> PROVE HeapInv'
  OBVIOUS
<1>1. CASE UNCHANGED <<board, vars>>
  BY <1>1 DEF HeapInv, vars
<1>2. CASE Next
  <2>1. board' = board
    BY <1>2 DEF Next
  <2>2. ASSUME NEW n \in board.requests, malloc(n) PROVE HeapInv'
    <3>1. CASE UNCHANGED vars
      BY <2>1, <3>1 DEF HeapInv, vars
    <3>2. CASE \E c : Allotted(n, c)
      <4>1. PICK c : Allotted(n, c)
        BY <3>2
      <4>2. Owned(heap.ThisInfo, held)
        BY DEF HeapInv
      <4> DEFINE h2 == held'
                 T2 == heap'.ThisInfo
      <4>3. c \in Nat /\ n \in Nat /\ Handed(heap.ThisInfo, T2, c, n) /\ h2 = Put(held, c + ChunkHead, n)
        BY <4>1 DEF Allotted
      <4> HIDE DEF h2, T2
      <4>4. Owned(T2, h2)
        BY ONLY <4>2, <4>3, OwnedMore
      <4>5. Good(heap', board.banks)
        BY <4>1 DEF Allotted
      <4> QED
        BY <2>1, <4>4, <4>5 DEF HeapInv, h2, T2
    <3> QED
      BY <2>2, <3>1, <3>2, MallocIs
  <2>3. ASSUME NEW p, free(p) PROVE HeapInv'
    <3>1. CASE UNCHANGED vars
      BY <2>1, <3>1 DEF HeapInv, vars
    <3>2. CASE Givenback(p)
      <4>1. Owned(heap.ThisInfo, held)
        BY DEF HeapInv
      <4> DEFINE h2 == held'
                 T2 == heap'.ThisInfo
      <4>2. /\ p \in DOMAIN held /\ Returned(heap.ThisInfo, T2, p - ChunkHead) /\ h2 = Drop(held, p)
        BY <3>2 DEF Givenback
      <4> HIDE DEF h2, T2
      <4>3. Owned(T2, h2)
        BY ONLY <4>1, <4>2, OwnedLess
      <4>4. Good(heap', board.banks)
        BY <3>2 DEF Givenback
      <4> QED
        BY <2>1, <4>3, <4>4 DEF HeapInv, h2, T2
    <3> QED
      BY <2>3, <3>1, <3>2, FreeIs
  <2> QED
    BY <1>2, <2>2, <2>3 DEF Next
<1> QED
  BY <1>1, <1>2

\* In every state the heads tile the banks, the lists are right, and what is used is held.
THEOREM HeapInvariant == Spec => []HeapInv
BY InitInv, NextInv, PTL DEF Spec

\* The names of the model for the chunks, and those used here.
LEMMA ChunksAre ==
  /\ Chunks = {c \in DOMAIN heap.ThisInfo : heap.ThisInfo[c].size # 0}
  /\ FreeChunks = Loose(heap.ThisInfo) /\ Chunks \ FreeChunks = UsedOf(heap.ThisInfo)
  /\ \A c : Use(c) = heap.ThisInfo[c].size - ChunkHead
  /\ Small = {c \in FreeChunks : is_small(heap.ThisInfo[c].size - ChunkHead)}
<1>1. Chunks = {c \in DOMAIN heap.ThisInfo : heap.ThisInfo[c].size # 0}
  BY DEF Chunks, Size
<1>2. FreeChunks = Loose(heap.ThisInfo) /\ Chunks \ FreeChunks = UsedOf(heap.ThisInfo)
  BY <1>1 DEF FreeChunks, Loose, UsedOf
<1>3. \A c : Use(c) = heap.ThisInfo[c].size - ChunkHead
  BY DEF Use, Size
<1> QED
  BY <1>1, <1>2, <1>3 DEF Small

\* The shape of the heap.
LEMMA TypeIs == HeapInv => TypeOK
<1> SUFFICES ASSUME HeapInv PROVE TypeOK
  OBVIOUS
<1> DEFINE T == heap.ThisInfo
           P == heap.PrevInfo
           J == DOMAIN board.banks
           sz == Frees(T)
<1>1. Headed(T, P, board.banks, J) /\ Listed(heap, sz)
  BY DEF HeapInv, Good
<1>2. DOMAIN sz = Loose(T) /\ \A c \in Loose(T) : sz[c] = T[c].size
  BY DEF Frees
<1> HIDE DEF sz
<1>3. heap.SameMap \subseteq Indices /\ heap.TreeMap \subseteq Indices
  BY <1>1 DEF Listed, Ringed, Treed
<1>4. DOMAIN heap.PrevInfo = DOMAIN heap.ThisInfo
  BY <1>1 DEF Headed
<1>5. ASSUME NEW c \in Chunks PROVE c \in 1 .. Modulus - 1 /\ Size(heap, c) \in MIN_CHUNK_SIZE .. Modulus - 1
  <2>1. c \in DOMAIN T /\ T[c].size # 0 /\ Size(heap, c) = T[c].size
    BY ChunksAre DEF Size
  <2>2. c \in 1 .. Modulus - 1
    BY <1>1, <2>1 DEF Headed
  <2> HIDE DEF T, P, J
  <2>3. T[c].size \in MIN_CHUNK_SIZE .. Modulus - 1
    BY <1>1, <2>1, SizeIs
  <2> QED
    BY <2>1, <2>2, <2>3
<1>6. DOMAIN heap.pFreeNext = FreeChunks \cup {Box(i) : i \in Indices}
  <2>1. DOMAIN heap.pFreeNext = DOMAIN sz \cup Boxes
    BY <1>1 DEF Listed, Ringed, Rings, Linking
  <2> QED
    BY <1>2, <2>1, ChunksAre DEF Boxes
<1>7. DOMAIN heap.pChild = FreeChunks \ Small
  <2>1. DOMAIN heap.pChild = Large(sz)
    BY <1>1 DEF Listed, Treed, Trie, TrieType
  <2>2. Large(sz) = Loose(T) \ {c \in Loose(T) : is_small(T[c].size - ChunkHead)}
    BY <1>2 DEF Large
  <2> QED
    BY <2>1, <2>2, ChunksAre
<1> QED
  BY <1>3, <1>4, <1>5, <1>6, <1>7 DEF TypeOK

\* The chunks tile the banks.
LEMMA TiledIs == HeapInv => Tiled
<1> SUFFICES ASSUME HeapInv PROVE Tiled
  OBVIOUS
<1> DEFINE T == heap.ThisInfo
           P == heap.PrevInfo
           J == DOMAIN board.banks
<1>1. Headed(T, P, board.banks, J)
  BY DEF HeapInv, Good
<1>2. ASSUME NEW c \in Chunks
      PROVE  LET next == c + Size(heap, c)
             IN  /\ next \in DOMAIN heap.ThisInfo
                 /\ heap.PrevInfo[next] = heap.ThisInfo[c]
                 /\ \A d \in DOMAIN heap.ThisInfo : d <= c \/ d >= next
                 /\ \E i \in DOMAIN aRamBanks : /\ aRamBanks[i].StartAddr <= c
                                                /\ next + ChunkHead <= aRamBanks[i].EndAddr
  <2>1. c \in DOMAIN T /\ T[c].size # 0 /\ Size(heap, c) = T[c].size
    BY ChunksAre DEF Size
  <2>2. ChunkAt(T, P, board.banks, J, c)
    BY <1>1, <2>1 DEF Headed
  <2> QED
    BY <2>1, <2>2 DEF ChunkAt, aRamBanks
<1>3. \A c \in DOMAIN heap.ThisInfo :
        heap.PrevInfo[c] = Used(0) <=>
          c \in {align_upside(aRamBanks[i].StartAddr, 4) : i \in DOMAIN aRamBanks}
  <2>1. \A c \in DOMAIN T : P[c] = Used(0) <=> c \in Firsts(board.banks, J)
    BY <1>1 DEF Headed
  <2> QED
    BY <2>1 DEF Firsts, aRamBanks
<1> QED
  BY <1>2, <1>3, TypeIs DEF Tiled

\* From a bank's first word to its end mark every byte belongs to one chunk, the heads name
\* their neighbours, and the lists hold nothing but free chunks.
THEOREM HeapTiled == Spec => []Tiled
BY HeapInvariant, TiledIs, PTL

\* A chunk that is given back is joined with both its neighbours, and a split leaves no two
\* free chunks side by side.
THEOREM HeapCoalesced == Spec => []Coalesced
<1>1. HeapInv => Coalesced
  <2> SUFFICES ASSUME HeapInv, NEW c \in FreeChunks PROVE heap.ThisInfo[c + Size(heap, c)].used
    BY DEF Coalesced
  <2>1. CoalAt(heap.ThisInfo) /\ c \in Loose(heap.ThisInfo)
    BY ChunksAre DEF HeapInv, Good
  <2> QED
    BY <2>1 DEF CoalAt, Size
<1> QED
  BY <1>1, HeapInvariant, PTL

\* What is marked used is what the callers hold, with room for what they asked for: no chunk
\* is lost, none is given out twice.
THEOREM HeapHeld == Spec => []UsedIsHeld
<1>1. HeapInv => UsedIsHeld
  <2> SUFFICES ASSUME HeapInv PROVE UsedIsHeld
    OBVIOUS
  <2> DEFINE U == UsedOf(heap.ThisInfo)
  <2>1. Owned(heap.ThisInfo, held) /\ Chunks \ FreeChunks = U
    BY ChunksAre DEF HeapInv
  <2>2. /\ \A c \in U : c \in Nat /\ c + ChunkHead \in DOMAIN held
        /\ \A p \in DOMAIN held : /\ p - ChunkHead \in U /\ p \in Nat /\ held[p] \in Nat
                                  /\ heap.ThisInfo[p - ChunkHead].size >= held[p] + ChunkHead
    BY <2>1 DEF Owned
  <2> HIDE DEF U
  <2>3. {c + ChunkHead : c \in U} = DOMAIN held
    <3>1. ASSUME NEW p \in DOMAIN held PROVE p \in {c + ChunkHead : c \in U}
      <4>1. p - ChunkHead \in U /\ (p - ChunkHead) + ChunkHead = p
        BY <2>2 DEF ChunkHead
      <4> QED
        BY <4>1
    <3> QED
      BY <2>2, <3>1
  <2>4. ASSUME NEW p \in DOMAIN held PROVE Use(p - ChunkHead) >= held[p]
    <3>1. Use(p - ChunkHead) = heap.ThisInfo[p - ChunkHead].size - ChunkHead
      BY ChunksAre
    <3>2. heap.ThisInfo[p - ChunkHead].size >= held[p] + 8 /\ held[p] \in Nat
      BY <2>2 DEF ChunkHead
    <3>3. heap.ThisInfo[p - ChunkHead].size \in Nat
      <4> DEFINE c == p - ChunkHead
                 T == heap.ThisInfo
                 P == heap.PrevInfo
                 J == DOMAIN board.banks
      <4>1. Headed(T, P, board.banks, J)
        BY DEF HeapInv, Good
      <4>2. c \in DOMAIN T /\ T[c].size # 0
        BY <2>2 DEF U, UsedOf
      <4> HIDE DEF c, T, P, J
      <4>3. T[c].size \in Nat
        BY <4>1, <4>2, ChunkIs
      <4> QED
        BY <4>3 DEF c, T
    <3> QED
      BY <3>1, <3>2, <3>3 DEF ChunkHead
  <2> QED
    BY <2>1, <2>3, <2>4 DEF UsedIsHeld
<1> QED
  BY <1>1, HeapInvariant, PTL

\* A request is refused only when no free chunk will do, and is given the closest fit.
THEOREM HeapBestFit == Spec => []BestFit
<1>1. HeapInv => BestFit
  <2> SUFFICES ASSUME HeapInv, NEW n \in board.requests
               PROVE  LET m    == Formatted(n)
                          c    == checkout(heap, m)[1]
                          fits == {d \in FreeChunks : Use(d) >= m}
                      IN  /\ c = NULL <=> fits = {}
                          /\ c # NULL => /\ c \in fits
                                         /\ \A d \in fits : IF c \in Small THEN Use(c) \div 8 <= Use(d) \div 8
                                                            ELSE Use(c) <= Use(d)
    BY DEF BestFit
  <2> DEFINE m == Formatted(n)
             out == checkout(heap, m)
             c == out[1]
             T == heap.ThisInfo
             sz == Frees(T)
             fits == {d \in FreeChunks : Use(d) >= m}
  <2>1. n \in 0 .. Modulus - 32
    BY HeapAssumption DEF HeapInv
  <2>2. m \in Nat /\ m >= 16 /\ (is_small(m) => m % 8 = 0) /\ m + ChunkHead \in 0 .. Modulus - 1
    BY <2>1, FormattedIs
  <2>3. Good(heap, board.banks)
    BY DEF HeapInv
  <2>4. Fits(heap, sz) /\ Listed(heap, sz) /\ DOMAIN sz = Loose(T) /\ \A d \in Loose(T) : sz[d] = T[d].size
    BY <2>3, FreesFit DEF Good, Frees
  <2> HIDE DEF sz, m, out
  <2>5. Taken(heap, sz, m, out)
    BY <2>2, <2>4, CheckOut DEF out
  <2>6. Best(sz, m, c)
    BY <2>5 DEF Taken
  <2>7. \A d \in Loose(T) : sz[d] \in Nat /\ Use(d) = sz[d] - 8 /\ d # NULL
    <3> SUFFICES ASSUME NEW d \in Loose(T) PROVE sz[d] \in Nat /\ Use(d) = sz[d] - 8 /\ d # NULL
      OBVIOUS
    <3>1. Headed(T, heap.PrevInfo, board.banks, DOMAIN board.banks) /\ d \in DOMAIN T /\ T[d].size # 0
      BY <2>3 DEF Good, Loose
    <3>2. Use(d) = T[d].size - 8
      BY ChunksAre DEF ChunkHead
    <3> DEFINE P == heap.PrevInfo
               J == DOMAIN board.banks
    <3>3. Headed(T, P, board.banks, J)
      BY <3>1
    <3> HIDE DEF T, P, J
    <3>4. T[d].size \in Nat /\ d # NULL
      BY <3>1, <3>3, SizeIs, ChunkIs
    <3> QED
      BY <2>4, <3>2, <3>4
  <2>8. \A d \in Loose(T) : d \in fits <=> sz[d] >= m + 8
    BY <2>2, <2>7, ChunksAre
  <2>9. FreeChunks = Loose(T) /\ fits \subseteq Loose(T)
    BY ChunksAre
  <2> HIDE DEF fits, c, T
  <2>10. CASE c = NULL
    <3>1. \A d \in Loose(T) : sz[d] < m + 8
      BY <2>4, <2>6, <2>10 DEF Best, ChunkHead
    <3>2. fits = {}
      BY <2>2, <2>7, <2>8, <2>9, <3>1
    <3> QED
      BY <2>10, <3>2 DEF fits, c, m, out
  <2>11. CASE c # NULL
    <3>1. /\ c \in Loose(T) /\ sz[c] >= m + 8
          /\ \A d \in Loose(T) : sz[d] >= m + 8 =>
                IF c \in Large(sz) THEN sz[c] <= sz[d] ELSE (sz[c] - 8) \div 8 <= (sz[d] - 8) \div 8
      BY <2>4, <2>6, <2>11 DEF Best, ChunkHead
    <3>2. c \in Large(sz) <=> c \notin Small
      <4>1. c \in Large(sz) <=> ~is_small(sz[c] - ChunkHead)
        BY <2>4, <3>1 DEF Large
      <4>2. c \in Small <=> is_small(T[c].size - ChunkHead)
        BY <2>9, <3>1, ChunksAre DEF T
      <4> QED
        BY <2>4, <3>1, <4>1, <4>2
    <3>3. c \in fits
      BY <2>8, <3>1
    <3>4. ASSUME NEW d \in fits
          PROVE  IF c \in Small THEN Use(c) \div 8 <= Use(d) \div 8 ELSE Use(c) <= Use(d)
      <4>1. d \in Loose(T) /\ sz[d] >= m + 8 /\ sz[d] \in Nat /\ sz[c] \in Nat
            /\ Use(d) = sz[d] - 8 /\ Use(c) = sz[c] - 8
        BY <2>7, <2>8, <2>9, <3>1
      <4>2. CASE c \in Small
        BY <3>1, <3>2, <4>1, <4>2
      <4>3. CASE c \notin Small
        BY <3>1, <3>2, <4>1, <4>3
      <4> QED
        BY <4>2, <4>3
    <3> QED
      BY <2>11, <3>3, <3>4 DEF fits, c, m, out
  <2> QED
    BY <2>10, <2>11
<1> QED
  BY <1>1, HeapInvariant, PTL

\* Two chunks share no byte.
LEMMA ChunksApart ==
  ASSUME NEW T, NEW P, NEW banks, NEW J, Headed(T, P, banks, J), NEW c \in UsedOf(T), NEW d \in UsedOf(T), d # c
  PROVE  /\ c \in Nat /\ d \in Nat /\ T[c].size \in Nat /\ T[d].size \in Nat
         /\ d + T[d].size <= c \/ c + T[c].size <= d
<1>1. c \in DOMAIN T /\ T[c].size # 0 /\ d \in DOMAIN T /\ T[d].size # 0
  BY DEF UsedOf
<1>2. c \in Nat /\ T[c].size \in Nat /\ (d <= c \/ d >= c + T[c].size)
  BY <1>1, ChunkIs
<1>3. d \in Nat /\ T[d].size \in Nat /\ (c <= d \/ c >= d + T[d].size)
  BY <1>1, ChunkIs
<1> QED
  BY <1>2, <1>3

\* What malloc hands out is a piece the promise allows.
LEMMA MallocKeeps ==
  ASSUME HeapInv, board' = board, NEW n, NEW c, Allotted(n, c)
  PROVE  Memory!Next
<1> DEFINE T == heap.ThisInfo
           T2 == heap'.ThisInfo
           P2 == heap'.PrevInfo
           J == DOMAIN board.banks
           p == c + ChunkHead
<1>1. /\ Headed(T2, P2, board.banks, J) /\ Handed(T, T2, c, n) /\ Owned(T, held)
      /\ held' = Put(held, p, n) /\ n \in Nat /\ c \in Nat
  BY DEF Allotted, Good, HeapInv
<1>2. /\ c \in UsedOf(T2) /\ c \notin UsedOf(T) /\ UsedOf(T2) = UsedOf(T) \cup {c}
      /\ \A d \in UsedOf(T) : T2[d] = T[d]
      /\ T2[c].size >= n + 8
  BY <1>1 DEF Handed, ChunkHead
<1>3. /\ \A d \in UsedOf(T) : d \in Nat /\ d + 8 \in DOMAIN held
      /\ \A q \in DOMAIN held : /\ q - 8 \in UsedOf(T) /\ q \in Nat /\ held[q] \in Nat
                                /\ T[q - 8].size >= held[q] + 8
  BY <1>1 DEF Owned, ChunkHead
<1>4. c \in DOMAIN T2 /\ T2[c].size # 0
  BY <1>2 DEF UsedOf
<1>5. ChunkAt(T2, P2, board.banks, J, c) /\ c % 4 = 0
  BY <1>1, <1>4 DEF Headed
<1>6. held' = [q \in DOMAIN held \cup {p} |-> IF q = p THEN n ELSE held[q]]
  BY <1>1 DEF Put
<1>7. p \in DOMAIN held' /\ held'[p] = n
  BY <1>6
<1>8. p \notin DOMAIN held
  <2> SUFFICES ASSUME p \in DOMAIN held PROVE FALSE
    OBVIOUS
  <2>1. p - 8 \in UsedOf(T) /\ p - 8 = c
    BY <1>1, <1>3 DEF ChunkHead
  <2> QED
    BY <1>2, <2>1
<1>9. p % 4 = 0
  BY <1>1, <1>5 DEF ChunkHead
<1>10. Memory!Inside(p, n)
  <2>1. PICK i \in J : board.banks[i].StartAddr <= c /\ c + T2[c].size + 8 <= board.banks[i].EndAddr
    BY <1>5 DEF ChunkAt, ChunkHead
  <2>2. board.banks[i].StartAddr \in Nat /\ board.banks[i].EndAddr \in Nat
    <3>1. Banked(board.banks, J)
      BY <1>1 DEF Headed
    <3> QED
      BY <3>1, FirstIs
  <2>3. T2[c].size \in Nat
    <3> HIDE DEF T2, P2, J
    <3> QED
      BY <1>1, <1>4, ChunkIs
  <2>4. board.banks[i].StartAddr <= p /\ p + n <= board.banks[i].EndAddr
    BY <1>1, <1>2, <2>1, <2>2, <2>3 DEF ChunkHead
  <2> QED
    BY <2>4 DEF Memory!Inside, aRamBanks
<1>11. Memory!Disjoint(p, n)
  <2> SUFFICES ASSUME NEW q \in DOMAIN held PROVE p + n <= q \/ q + held[q] <= p
    BY DEF Memory!Disjoint
  <2> DEFINE d == q - 8
  <2>1. d \in UsedOf(T) /\ q \in Nat /\ held[q] \in Nat /\ T[d].size >= held[q] + 8
    BY <1>3
  <2>2. d \in UsedOf(T2) /\ d # c /\ T2[d] = T[d]
    BY <1>2, <2>1
  <2>3. /\ d \in Nat /\ T2[c].size \in Nat /\ T2[d].size \in Nat
        /\ d + T2[d].size <= c \/ c + T2[c].size <= d
    <3> HIDE DEF d, T2, P2, J
    <3> QED
      BY <1>1, <1>2, <2>2, ChunksApart
  <2>4. q = d + 8 /\ T2[d].size >= held[q] + 8
    BY <2>1, <2>2
  <2> QED
    BY <1>1, <1>2, <2>1, <2>3, <2>4 DEF ChunkHead
<1>12. Memory!Take(p)
  BY <1>6, <1>7, <1>8, <1>9, <1>10, <1>11 DEF Memory!Take
<1>13. UNCHANGED aRamBanks
  BY DEF aRamBanks
<1> QED
  BY <1>7, <1>12, <1>13 DEF Memory!Next

\* The allocator implements the promise: every piece it hands out lies inside a bank, starts at
\* a word and shares no byte with a piece still held; giving back touches one piece only.
THEOREM HeapKeepsPromise == Spec => KeepsPromise
<1>1. Init => Memory!Init
  BY DEF Init, Memory!Init
<1>2. HeapInv /\ [Next]_<<board, vars>> => [Memory!Next]_<<aRamBanks, held>>
  <2> SUFFICES ASSUME HeapInv, [Next]_<<board, vars>> PROVE [Memory!Next]_<<aRamBanks, held>>
    OBVIOUS
  <2>1. CASE UNCHANGED <<board, vars>>
    BY <2>1 DEF vars, aRamBanks
  <2>2. CASE Next
    <3>1. board' = board /\ UNCHANGED aRamBanks
      BY <2>2 DEF Next, aRamBanks
    <3>2. ASSUME NEW n \in board.requests, malloc(n) PROVE [Memory!Next]_<<aRamBanks, held>>
      <4>1. CASE UNCHANGED vars
        BY <3>1, <4>1 DEF vars
      <4>2. CASE \E c : Allotted(n, c)
        BY <3>1, <4>2, MallocKeeps
      <4> QED
        BY <3>2, <4>1, <4>2, MallocIs
    <3>3. ASSUME NEW p, free(p) PROVE [Memory!Next]_<<aRamBanks, held>>
      <4>1. CASE UNCHANGED vars
        BY <3>1, <4>1 DEF vars
      <4>2. CASE Givenback(p)
        <5>1. p \in DOMAIN held /\ held' = Drop(held, p)
          BY <4>2 DEF Givenback
        <5>2. Memory!Give(p)
          BY <5>1 DEF Memory!Give, Drop
        <5> QED
          BY <3>1, <5>1, <5>2 DEF Memory!Next
      <4> QED
        BY <3>3, <4>1, <4>2, FreeIs
    <3> QED
      BY <2>2, <3>2, <3>3 DEF Next
  <2> QED
    BY <2>1, <2>2
<1> QED
  BY <1>1, <1>2, HeapInvariant, PTL DEF Spec, KeepsPromise, Memory!Spec

-----------------------------------------------------------------------------
\* The free chunks can be found again.

\* Where a walk around a ring is: at y, having been at the places of s.
Walked(N, b, y, s) == (\A z \in s : N[z] \in s \cup {y}) /\ (b \in s \/ y = b)

\* One step around a ring, past a place not seen before.
LEMMA WalkOn ==
  ASSUME NEW N, NEW b, NEW y, NEW s, Walked(N, b, y, s)
  PROVE  Walked(N, b, N[y], s \cup {y})
BY DEF Walked

\* What a ring is to hold.
ClassOf(D, cls, b) == {y \in D : cls[y] = cls[b]}

\* A walk around a ring sees all of its class.
LEMMA RingSeen ==
  ASSUME NEW D, NEW N, NEW P, NEW cls, Rings(D, N, P, cls), NEW b \in D, NEW n \in Nat,
         IsFiniteSet(ClassOf(D, cls, b)), Cardinality(ClassOf(D, cls, b)) <= n,
         NEW over,
         \A y \in D, s \in SUBSET D :
           over[<<y, s>>] = IF y \in s THEN <<y, s>> ELSE <<N[y], s \cup {y}>>
  PROVE  Loop(over, <<b, {}>>, n)[2] = ClassOf(D, cls, b)
<1> DEFINE K == ClassOf(D, cls, b)
           G == {x \in K \X SUBSET K : Walked(N, b, x[1], x[2])}
           rank == [x \in G |-> Cardinality(x[2])]
           end == Loop(over, <<b, {}>>, n)
<1>1. b \in K /\ K \subseteq D /\ \A y \in K : N[y] \in K
  BY DEF Rings, Linking, ClassOf
<1>0. IsFiniteSet(K) /\ Cardinality(K) <= n
  OBVIOUS
<1> HIDE DEF K
<1>2. <<b, {}>> \in G
  BY <1>1 DEF Walked
<1>3. \A s \in SUBSET K : IsFiniteSet(s) /\ Cardinality(s) \in 0..n
  <2> SUFFICES ASSUME NEW s \in SUBSET K PROVE IsFiniteSet(s) /\ Cardinality(s) \in 0..n
    OBVIOUS
  <2>1. IsFiniteSet(s) /\ Cardinality(s) <= Cardinality(K)
    BY <1>0, FS_Subset
  <2>2. Cardinality(s) \in Nat /\ Cardinality(K) \in Nat
    BY <1>0, <2>1, FS_CardinalityType
  <2> QED
    BY <1>0, <2>1, <2>2
<1>4. ASSUME NEW y \in K, NEW s \in SUBSET K, Walked(N, b, y, s), y \notin s
      PROVE  /\ over[<<y, s>>] = <<N[y], s \cup {y}>>
             /\ <<N[y], s \cup {y}>> \in G
             /\ Cardinality(s \cup {y}) > Cardinality(s)
  <2>1. over[<<y, s>>] = <<N[y], s \cup {y}>>
    BY <1>1, <1>4
  <2>2. Walked(N, b, N[y], s \cup {y})
    BY <1>4, WalkOn
  <2>3. <<N[y], s \cup {y}>> \in G
    BY <1>1, <2>2
  <2>4. Cardinality(s \cup {y}) = Cardinality(s) + 1 /\ Cardinality(s) \in Nat
    BY <1>3, <1>4, FS_AddElement
  <2> HIDE DEF G
  <2> QED
    BY <2>1, <2>3, <2>4
<1>5. ASSUME NEW x \in G
      PROVE  /\ over[x] \in G /\ rank[x] \in 0..n
             /\ over[x] = x \/ rank[over[x]] > rank[x]
  <2>1. PICK y \in K, s \in SUBSET K : x = <<y, s>> /\ Walked(N, b, y, s)
    BY <1>5
  <2>2. rank[x] = Cardinality(s) /\ rank[x] \in 0..n
    BY <1>3, <2>1
  <2>3. CASE y \in s
    <3>1. y \in D /\ s \in SUBSET D
      BY <1>1
    <3>2. over[<<y, s>>] = <<y, s>>
      BY <2>3, <3>1
    <3>3. over[x] = x
      BY <2>1, <3>2
    <3> HIDE DEF G, rank
    <3> QED
      BY <1>5, <2>2, <3>3
  <2>4. CASE y \notin s
    <3> HIDE DEF G
    <3>1. over[<<y, s>>] = <<N[y], s \cup {y}>> /\ <<N[y], s \cup {y}>> \in G
      BY <1>4, <2>1, <2>4
    <3>2. Cardinality(s \cup {y}) > Cardinality(s)
      BY <1>4, <2>1, <2>4
    <3>3. rank[<<N[y], s \cup {y}>>] = Cardinality(s \cup {y})
      BY <3>1
    <3>4. over[x] \in G /\ rank[over[x]] = Cardinality(s \cup {y})
      BY <2>1, <3>1, <3>3
    <3> HIDE DEF rank
    <3> QED
      BY <2>2, <3>2, <3>4
  <2> QED
    BY <2>3, <2>4
<1>6. end \in G /\ over[end] = end
  <2> HIDE DEF G, rank
  <2>1. \A x \in G : over[x] \in G
    BY <1>5
  <2>2. \A x \in G : rank[x] \in 0..n
    BY <1>5
  <2>3. \A x \in G : over[x] = x \/ rank[over[x]] > rank[x]
    BY <1>5
  <2> QED
    BY <1>2, <2>1, <2>2, <2>3, LoopEnds
<1> HIDE DEF end
<1>7. PICK y \in K, s \in SUBSET K : end = <<y, s>> /\ Walked(N, b, y, s)
  BY <1>6
<1>8. y \in s
  <2> SUFFICES ASSUME y \notin s PROVE FALSE
    OBVIOUS
  <2>1. <<y, s>> = <<N[y], s \cup {y}>>
    BY <1>4, <1>6, <1>7
  <2> QED
    BY <2>1
<1>9. Closed(N, s) /\ b \in s /\ s \in SUBSET D
  BY <1>1, <1>7, <1>8 DEF Walked, Closed
<1>10. \A z \in D : cls[z] = cls[b] => z \in s
  BY <1>9 DEF Rings, Whole
<1>11. s = K
  BY <1>10 DEF K, ClassOf
<1> QED
  BY <1>7, <1>11 DEF end, K

\* The ring of a chunk or a box is its class.
LEMMA RingIs ==
  ASSUME HeapInv, NEW sz, sz = Frees(heap.ThisInfo), NEW b \in DOMAIN sz \cup Boxes
  PROVE  Ring(b) = ClassOf(DOMAIN sz \cup Boxes, Cls(sz), b)
<1> DEFINE D == DOMAIN sz \cup Boxes
           N == heap.pFreeNext
           K == ClassOf(D, Cls(sz), b)
           n == Cardinality(FreeChunks) + 2
           over == [x \in D \X SUBSET D |->
                      IF x[1] \in x[2] THEN x ELSE <<N[x[1]], x[2] \cup {x[1]}>>]
<1>1. Listed(heap, sz) /\ Tiled
  BY TiledIs DEF HeapInv, Good
<1>2. Rings(D, N, heap.pFreePrev, Cls(sz)) /\ DOMAIN N = D /\ Sized(sz)
  BY <1>1 DEF Listed, Ringed, Rings, Linking
<1>3. DOMAIN sz = FreeChunks
  BY ChunksAre DEF Frees
<1>4. IsFiniteSet(FreeChunks) /\ Cardinality(FreeChunks) \in Nat
  <2>1. FreeChunks \subseteq 1 .. Modulus - 1
    BY <1>1 DEF Tiled, TypeOK, FreeChunks
  <2>2. Modulus \in Nat
    BY HeapAssumption
  <2>3. IsFiniteSet(1 .. Modulus - 1)
    BY <2>2, FS_Interval
  <2>4. IsFiniteSet(FreeChunks)
    BY <2>1, <2>3, FS_Subset
  <2> QED
    BY <2>4, FS_CardinalityType
<1>5. \E x : K \subseteq FreeChunks \cup {x}
  <2>1. ASSUME NEW x \in Boxes, NEW y \in Boxes, x \in K, y \in K PROVE x = y
    <3>1. PICK i \in Indices, j \in Indices : x = Box(i) /\ y = Box(j)
      BY DEF Boxes
    <3>2. Cls(sz)[x] = i /\ Cls(sz)[y] = j
      BY <1>2, <3>1, ClassIs
    <3> QED
      BY <2>1, <3>1, <3>2 DEF ClassOf
  <2>2. CASE \E x \in Boxes : x \in K
    <3>1. PICK x \in Boxes : x \in K
      BY <2>2
    <3>2. K \subseteq FreeChunks \cup {x}
      BY <1>3, <2>1, <3>1 DEF ClassOf
    <3> QED
      BY <3>2
  <2>3. CASE ~ \E x \in Boxes : x \in K
    <3>1. K \subseteq FreeChunks \cup {NULL}
      BY <1>3, <2>3 DEF ClassOf
    <3> QED
      BY <3>1
  <2> QED
    BY <2>2, <2>3
<1>6. IsFiniteSet(K) /\ Cardinality(K) <= n /\ n \in Nat
  <2>1. PICK x : K \subseteq FreeChunks \cup {x}
    BY <1>5
  <2> HIDE DEF K
  <2>2. /\ IsFiniteSet(FreeChunks \cup {x})
        /\ Cardinality(FreeChunks \cup {x}) <= Cardinality(FreeChunks) + 1
    BY <1>4, FS_AddElement
  <2>3. IsFiniteSet(K) /\ Cardinality(K) <= Cardinality(FreeChunks \cup {x})
    BY <2>1, <2>2, FS_Subset
  <2>4. Cardinality(K) \in Nat /\ Cardinality(FreeChunks \cup {x}) \in Nat
    BY <2>2, <2>3, FS_CardinalityType
  <2> QED
    BY <1>4, <2>2, <2>3, <2>4
<1>7. \A y \in D, s \in SUBSET D :
        over[<<y, s>>] = IF y \in s THEN <<y, s>> ELSE <<N[y], s \cup {y}>>
  OBVIOUS
<1>8. Ring(b) = Loop(over, <<b, {}>>, n)[2]
  BY <1>2 DEF Ring
<1>9. b \in D
  OBVIOUS
<1> DEFINE cls == Cls(sz)
<1>10. /\ Rings(D, N, heap.pFreePrev, cls)
       /\ IsFiniteSet(ClassOf(D, cls, b)) /\ Cardinality(ClassOf(D, cls, b)) <= n
  BY <1>2, <1>6
<1> HIDE DEF over, n, D, cls
<1>11. Loop(over, <<b, {}>>, n)[2] = ClassOf(D, cls, b)
  BY <1>6, <1>7, <1>9, <1>10, RingSeen
<1> QED
  BY <1>8, <1>11 DEF cls, D

\* The rings of the small chunks.
LEMMA SmallFoundIs == HeapInv => SmallFound
<1> SUFFICES ASSUME HeapInv PROVE SmallFound
  OBVIOUS
<1> DEFINE sz == Frees(heap.ThisInfo)
           D == DOMAIN sz \cup Boxes
           K(i) == ClassOf(D, Cls(sz), Box(i))
<1>1. Listed(heap, sz)
  BY DEF HeapInv, Good
<1>2. /\ DOMAIN sz = FreeChunks
      /\ \A c \in FreeChunks : sz[c] = heap.ThisInfo[c].size /\ Use(c) = sz[c] - ChunkHead
  BY ChunksAre DEF Frees
<1>3. \A i \in Indices : Box(i) \in D /\ Ring(Box(i)) = K(i)
  <2> SUFFICES ASSUME NEW i \in Indices PROVE Box(i) \in D /\ Ring(Box(i)) = K(i)
    OBVIOUS
  <2>1. Box(i) \in D
    BY DEF Boxes
  <2> QED
    BY <2>1, RingIs
<1> HIDE DEF sz
<1>4. Sized(sz) /\ Ringed(heap, sz)
  BY <1>1 DEF Listed
<1>5. Small = DOMAIN sz \ Large(sz)
  BY <1>2, ChunksAre DEF Large
<1>6. ASSUME NEW i \in Indices
      PROVE  K(i) \ {Box(i)} = {c \in Small : get_box_index(Use(c)) = i}
  <2>1. Cls(sz)[Box(i)] = i /\ Box(i) \in Boxes
    BY <1>4, ClassIs
  <2>2. ASSUME NEW y \in Boxes, Cls(sz)[y] = i PROVE y = Box(i)
    <3>1. PICK j \in Indices : y = Box(j)
      BY DEF Boxes
    <3>2. Cls(sz)[y] = j
      BY <1>4, <3>1, ClassIs
    <3> QED
      BY <2>2, <3>1, <3>2
  <2>3. ASSUME NEW y \in Large(sz) PROVE Cls(sz)[y] # i
    <3>1. Cls(sz)[y] = sz[y] /\ sz[y] > 264
      BY <1>4, ClassIs
    <3> QED
      BY <3>1 DEF Indices
  <2>4. ASSUME NEW y \in DOMAIN sz \ Large(sz)
        PROVE  Cls(sz)[y] = get_box_index(Use(y)) /\ y # Box(i)
    <3>1. Cls(sz)[y] = get_box_index(sz[y] - ChunkHead) /\ y \notin Boxes
      BY <1>4, ClassIs
    <3> QED
      BY <1>2, <2>1, <3>1
  <2>5. \A y \in D : y \in Boxes \/ y \in Large(sz) \/ y \in DOMAIN sz \ Large(sz)
    OBVIOUS
  <2> QED
    BY <1>5, <2>1, <2>2, <2>3, <2>4, <2>5 DEF ClassOf
<1>7. \A i \in Indices : i \in heap.SameMap <=> heap.pFreeNext[Box(i)] # Box(i)
  BY <1>4 DEF Ringed
<1>8. \A c \in DOMAIN heap.pFreeNext : heap.pFreePrev[heap.pFreeNext[c]] = c
  BY <1>4 DEF Ringed, Rings, Linking
<1> HIDE DEF K
<1> QED
  BY <1>3, <1>6, <1>7, <1>8 DEF SmallFound

\* The node q is the only one of the use n, in tree i; down is a step along the bits of n.
Sole(L, use, Pa, Ix, q, i, n) ==
  /\ q \in Nodes(L, Pa) /\ Ix[q] = i /\ use[q] = n
  /\ \A p \in Nodes(L, Pa) : use[p] = n => p = q
Stepping(L, use, C, i, n, down) ==
  \A p \in L, d \in 0..Levels :
    down[<<p, d>>] = IF use[p] = n THEN <<p, d>> ELSE <<C[p][Branch(n, i, d)], d + 1>>

\* The walk along the bits of the size of a node ends at that node.
LEMMA Reached ==
  ASSUME NEW L, NEW use, NEW C, NEW Pa, NEW Ix, NEW tr, NEW dep,
         Trie(L, use, C, Pa, Ix, tr, dep), NEW q, NEW i, NEW n, NEW down,
         Sole(L, use, Pa, Ix, q, i, n), Stepping(L, use, C, i, n, down)
  PROVE  Loop(down, <<tr[i], 0>>, Levels)[1] = q
<1> DEFINE Path == {p \in Nodes(L, Pa) : Under(L, use, Pa, Ix, dep, p, q)}
           G == {<<p, dep[p]>> : p \in Path}
           rank == [x \in G |-> x[2]]
           end == Loop(down, <<tr[i], 0>>, Levels)
<1>0. /\ q \in Nodes(L, Pa) /\ i = Ix[q] /\ n = use[q]
      /\ \A p \in Nodes(L, Pa) : use[p] = n => p = q
      /\ \A p \in L, d \in 0..Levels :
           down[<<p, d>>] = IF use[p] = n THEN <<p, d>> ELSE <<C[p][Branch(n, i, d)], d + 1>>
  BY DEF Sole, Stepping
<1>1. \A p \in Path : p \in L /\ dep[p] \in 0..Levels /\ dep[p] \in Int /\ Ix[p] = i
  <2> SUFFICES ASSUME NEW p \in Path
               PROVE  p \in L /\ dep[p] \in 0..Levels /\ dep[p] \in Int /\ Ix[p] = i
    OBVIOUS
  <2>1. p \in Nodes(L, Pa) /\ Ix[p] = i
    BY <1>0 DEF Under
  <2>2. p \in L /\ dep[p] \in 0 .. Top(Ix[p]) + 1 /\ Top(Ix[p]) \in 6..31
    BY <2>1, NodeType
  <2> HIDE DEF Path
  <2>3. dep[p] \in 0..32
    BY <2>2
  <2> QED
    BY <2>1, <2>2, <2>3 DEF Levels
<1>2. <<tr[i], 0>> \in G
  <2>1. Under(L, use, Pa, Ix, dep, tr[i], q)
    BY <1>0, UnderRoot
  <2>2. tr[i] \in Path
    BY <2>1 DEF Under
  <2>3. tr[i] # NULL /\ i \in Indices
    BY <1>0, <2>2, NodeType DEF NULL
  <2>4. dep[tr[i]] = 0
    BY <2>3 DEF Trie, RootsRight
  <2> QED
    BY <2>2, <2>4
<1>3. ASSUME NEW p \in Path, use[p] # n
      PROVE  /\ down[<<p, dep[p]>>] = <<C[p][Branch(n, i, dep[p])], dep[p] + 1>>
             /\ C[p][Branch(n, i, dep[p])] \in Path
             /\ dep[C[p][Branch(n, i, dep[p])]] = dep[p] + 1
  <2> DEFINE s == C[p][Branch(n, i, dep[p])]
  <2>1. p \in L /\ dep[p] \in 0..Levels /\ Ix[p] = i /\ Under(L, use, Pa, Ix, dep, p, q) /\ p # q
    BY <1>0, <1>1, <1>3
  <2>2. down[<<p, dep[p]>>] = <<s, dep[p] + 1>>
    BY <1>0, <1>3, <2>1
  <2>3. Branch(n, i, dep[p]) \in 0..1 /\ s # NULL /\ Under(L, use, Pa, Ix, dep, s, q)
    BY <1>0, <2>1, UnderSon
  <2>4. s \in Nodes(L, Pa) /\ dep[s] = dep[p] + 1
    BY <2>1, <2>3, NodeBelow
  <2> QED
    BY <2>2, <2>3, <2>4
<1>4. ASSUME NEW y \in G
      PROVE  /\ down[y] \in G /\ rank[y] \in 0..Levels
             /\ down[y] = y \/ rank[down[y]] > rank[y]
  <2>1. PICK p \in Path : y = <<p, dep[p]>>
    OBVIOUS
  <2>2. rank[y] = dep[p]
    BY <2>1
  <2>3. CASE use[p] = n
    <3>1. down[y] = y
      BY <1>0, <1>1, <2>1, <2>3
    <3> QED
      BY <1>1, <2>1, <2>2, <3>1
  <2>4. CASE use[p] # n
    <3> DEFINE s == C[p][Branch(n, i, dep[p])]
    <3>1. s \in Path /\ down[y] = <<s, dep[p] + 1>> /\ dep[s] = dep[p] + 1
      BY <1>3, <2>1, <2>4
    <3> HIDE DEF s
    <3>2. down[y] \in G /\ rank[down[y]] = dep[p] + 1
      BY <3>1
    <3>3. dep[p] \in 0..Levels /\ dep[p] \in Int
      BY <1>1
    <3> HIDE DEF G, rank, Path
    <3> QED
      BY <2>2, <3>2, <3>3
  <2> QED
    BY <2>3, <2>4
<1>5. end \in G /\ down[end] = end
  <2> HIDE DEF G, rank
  <2>1. \A y \in G : down[y] \in G
    BY <1>4
  <2>2. \A y \in G : rank[y] \in 0..Levels
    BY <1>4
  <2>3. \A y \in G : down[y] = y \/ rank[down[y]] > rank[y]
    BY <1>4
  <2>4. Levels \in Nat
    BY DEF Levels
  <2> QED
    BY <1>2, <2>1, <2>2, <2>3, <2>4, LoopEnds
<1> HIDE DEF end
<1>6. PICK p \in Path : end = <<p, dep[p]>>
  BY <1>5
<1>7. use[p] = n
  <2> SUFFICES ASSUME use[p] # n PROVE FALSE
    OBVIOUS
  <2>1. dep[p] + 1 = dep[p]
    BY <1>3, <1>5, <1>6
  <2> QED
    BY <1>1, <2>1
<1>8. p = q
  BY <1>0, <1>7
<1> QED
  BY <1>6, <1>8 DEF end

\* Every large chunk is found from the root of its tree.
LEMMA LargeFoundIs == HeapInv => LargeFound
<1> SUFFICES ASSUME HeapInv PROVE LargeFound
  OBVIOUS
<1> DEFINE sz == Frees(heap.ThisInfo)
           D  == DOMAIN sz \cup Boxes
           L  == Large(sz)
           use == Uses(sz)
           C  == heap.pChild
           Pa == heap.pParent
           Ix == heap.Index
           tr == heap.tree
<1>1. Listed(heap, sz)
  BY DEF HeapInv, Good
<1>2. /\ DOMAIN sz = FreeChunks
      /\ \A c \in FreeChunks : sz[c] = Size(heap, c) /\ Use(c) = sz[c] - ChunkHead
  BY ChunksAre DEF Frees, Size
<1>3. \A b \in D : Ring(b) = ClassOf(D, Cls(sz), b)
  BY RingIs
<1> HIDE DEF sz
<1>4. Sized(sz) /\ Treed(heap, sz)
  BY <1>1 DEF Listed
<1>5. FreeChunks \ Small = L
  BY <1>2, ChunksAre DEF Large
<1>6. /\ \A c \in L : Ix[c] = tree_size_to_index(sz[c] - ChunkHead)
      /\ heap.TreeMap = {i \in Indices : tr[i] # NULL}
      /\ NodesRight(Pa, sz)
  BY <1>4 DEF Treed
<1>7. PICK dep : Trie(L, use, C, Pa, Ix, tr, dep)
  BY <1>4 DEF Treed
<1>8. \A c \in L : /\ c \in D /\ c # NULL /\ Cls(sz)[c] = sz[c] /\ use[c] = sz[c] - ChunkHead
                   /\ Use(c) = sz[c] - ChunkHead /\ Size(heap, c) = sz[c] /\ sz[c] \in Nat
  <2> SUFFICES ASSUME NEW c \in L
               PROVE  /\ c \in D /\ c # NULL /\ Cls(sz)[c] = sz[c] /\ use[c] = sz[c] - ChunkHead
                      /\ Use(c) = sz[c] - ChunkHead /\ Size(heap, c) = sz[c] /\ sz[c] \in Nat
    OBVIOUS
  <2>1. c \in DOMAIN sz /\ Cls(sz)[c] = sz[c]
    BY <1>4, ClassIs
  <2>2. c # NULL /\ sz[c] \in Nat
    BY <1>4, <2>1, ClassIs
  <2>3. use[c] = sz[c] - ChunkHead
    BY DEF Uses
  <2> QED
    BY <1>2, <2>1, <2>2, <2>3
<1>9. ASSUME NEW c \in L, NEW q \in Nodes(L, Pa), sz[q] = sz[c]
      PROVE  Reach(Use(c)) = q
  <2> DEFINE n == Use(c)
             i == tree_size_to_index(n)
             down == [x \in (DOMAIN C \cup {NULL}) \X (0..Levels) |->
                        IF x[1] = NULL \/ Size(heap, x[1]) = n + ChunkHead THEN x
                        ELSE <<C[x[1]][Branch(n, i, x[2])], x[2] + 1>>]
  <2>1. q \in L
    BY DEF Nodes
  <2>2. i = Ix[q] /\ n = use[q] /\ n = sz[c] - ChunkHead
    BY <1>6, <1>8, <1>9, <2>1
  <2>3. Sole(L, use, Pa, Ix, q, i, n)
    <3> SUFFICES ASSUME NEW p \in Nodes(L, Pa), use[p] = use[q] PROVE p = q
      BY <2>2 DEF Sole
    <3>1. p \in L
      BY DEF Nodes
    <3>2. sz[p] - ChunkHead = sz[q] - ChunkHead /\ sz[p] \in Nat /\ sz[q] \in Nat
      BY <1>8, <2>1, <3>1
    <3>3. sz[p] = sz[q]
      BY <3>2 DEF ChunkHead
    <3> QED
      BY <1>6, <3>3 DEF NodesRight
  <2>4. \A p \in L : Size(heap, p) = n + ChunkHead <=> use[p] = n
    <3> SUFFICES ASSUME NEW p \in L PROVE Size(heap, p) = n + ChunkHead <=> use[p] = n
      OBVIOUS
    <3>1. Size(heap, p) = sz[p] /\ use[p] = sz[p] - ChunkHead /\ sz[p] \in Nat /\ sz[c] \in Nat
      BY <1>8
    <3> QED
      BY <2>2, <3>1 DEF ChunkHead
  <2>5. DOMAIN C = L
    BY <1>7 DEF Trie, TrieType
  <2>6. Stepping(L, use, C, i, n, down)
    <3> SUFFICES ASSUME NEW p \in L, NEW d \in 0..Levels
                 PROVE  down[<<p, d>>] = IF use[p] = n THEN <<p, d>>
                                         ELSE <<C[p][Branch(n, i, d)], d + 1>>
      BY DEF Stepping
    <3>1. p # NULL /\ (Size(heap, p) = n + ChunkHead <=> use[p] = n)
      BY <1>8, <2>4
    <3>2. <<p, d>> \in (DOMAIN C \cup {NULL}) \X (0..Levels)
      BY <2>5
    <3>3. down[<<p, d>>] = IF p = NULL \/ Size(heap, p) = n + ChunkHead THEN <<p, d>>
                           ELSE <<C[p][Branch(n, i, d)], d + 1>>
      BY <3>2
    <3> HIDE DEF n, i, down
    <3> QED
      BY <3>1, <3>3
  <2>7. Reach(n) = Loop(down, <<tr[i], 0>>, Levels)[1]
    BY DEF Reach
  <2> HIDE DEF n, i, down, L, use, C, Pa, Ix, tr
  <2>8. Loop(down, <<tr[i], 0>>, Levels)[1] = q
    BY <1>7, <2>3, <2>6, Reached
  <2> QED
    BY <2>7, <2>8 DEF n
<1>10. ASSUME NEW c \in FreeChunks \ Small
       PROVE  LET node == Reach(Use(c))
                  i    == tree_size_to_index(Use(c))
              IN  /\ node # NULL /\ c \in Ring(node)
                  /\ c # node => heap.pParent[c] = NULL
                  /\ c = heap.tree[i] => heap.pParent[c] = Slot(i)
                  /\ heap.Index[c] = i
                  /\ \A b \in 0..1 : LET son == heap.pChild[c][b]
                                     IN  son # NULL => heap.pParent[son] = c
  <2>1. c \in L
    BY <1>5
  <2>2. PICK q \in Nodes(L, Pa) : sz[q] = sz[c]
    BY <1>6, <2>1 DEF NodesRight
  <2>3. Reach(Use(c)) = q /\ q \in L
    BY <1>9, <2>1, <2>2 DEF Nodes
  <2>4. q # NULL /\ c \in Ring(q)
    <3>1. c \in D /\ q \in D /\ Cls(sz)[c] = Cls(sz)[q] /\ q # NULL
      BY <1>8, <2>1, <2>2, <2>3
    <3> QED
      BY <1>3, <3>1 DEF ClassOf
  <2>5. c # q => Pa[c] = NULL
    BY <1>6, <2>1, <2>2 DEF NodesRight, Nodes
  <2>6. Ix[c] = tree_size_to_index(Use(c)) /\ Ix[c] \in Indices
    BY <1>6, <1>7, <1>8, <2>1 DEF Trie, TrieType
  <2>7. c = tr[Ix[c]] => Pa[c] = Slot(Ix[c])
    <3> SUFFICES ASSUME c = tr[Ix[c]] PROVE Pa[c] = Slot(Ix[c])
      OBVIOUS
    <3>1. tr[Ix[c]] # NULL
      BY <1>8, <2>1
    <3> QED
      BY <1>7, <2>6, <3>1 DEF Trie, RootsRight
  <2>8. \A b \in 0..1 : C[c][b] # NULL => Pa[C[c][b]] = c
    BY <1>7, <2>1 DEF Trie, SonRight
  <2> QED
    BY <2>3, <2>4, <2>5, <2>6, <2>7, <2>8
<1>11. \A i \in Indices : i \in heap.TreeMap <=> heap.tree[i] # NULL
  BY <1>6
<1> QED
  BY <1>10, <1>11 DEF LargeFound

\* Through any sequence of splits and merges every free chunk can be found again in the ring
\* or the tree of its size, and rings, trees and maps name nothing else.
THEOREM HeapFreeFound == Spec => []FreeFound
<1>1. HeapInv => FreeFound
  BY SmallFoundIs, LargeFoundIs DEF FreeFound
<1> QED
  BY <1>1, HeapInvariant, PTL
=============================================================================
