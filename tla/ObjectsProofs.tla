--------------------------- MODULE ObjectsProofs ----------------------------
(***************************************************************************)
(* The mailbox and the pipe are queues, for any threads and priorities,    *)
(* any size, any data and any width of the pipe's indices, in an           *)
(* application that does not interleave its posts and writes.  In a polite *)
(* application, with any number of threads, no wake-up is lost.  And the   *)
(* lock of the allocator works for any two threads that allocate as often  *)
(* as they like.                                                           *)
(***************************************************************************)
EXTENDS MCObjects, HeapLock, ListProofs, FiniteSetTheorems, SequenceTheorems, TLAPS

-----------------------------------------------------------------------------
\* Remainders.
LEMMA DivMod ==
  ASSUME NEW n \in Nat \ {0}, NEW x \in Int
  PROVE  x = n * (x \div n) + (x % n) /\ x \div n \in Int /\ x % n \in 0..(n - 1)
OBVIOUS

\* The remainder is the only one of its kind.
LEMMA ModUnique ==
  ASSUME NEW n \in Nat \ {0}, NEW q \in Int, NEW r \in 0..(n - 1)
  PROVE  (n * q + r) % n = r
OBVIOUS

\* Multiples of n do not count.
LEMMA ModShift ==
  ASSUME NEW n \in Nat \ {0}, NEW q \in Int, NEW x \in Int
  PROVE  (n * q + x) % n = x % n
<1> DEFINE p == x \div n
           r == x % n
<1>1. p \in Int /\ r \in 0..(n - 1) /\ x = n * p + r
  BY DivMod
<1> HIDE DEF p, r
<1>2. n * q + x = n * (q + p) + r /\ q + p \in Int
  BY <1>1
<1>3. (n * (q + p) + r) % n = r
  BY <1>1, <1>2, ModUnique
<1> QED
  BY <1>2, <1>3 DEF r

\* The remainder of a sum or a difference that leaves the range at most once.
LEMMA ModOnce ==
  ASSUME NEW n \in Nat \ {0}, NEW x \in Int, 0 - n <= x, x < 2 * n
  PROVE  x % n = IF x < 0 THEN x + n ELSE IF x < n THEN x ELSE x - n
OBVIOUS

\* A remainder for a multiple of n does for n.
LEMMA ModMod ==
  ASSUME NEW n \in Nat \ {0}, NEW w \in Nat \ {0}, NEW x \in Int, w % n = 0
  PROVE  (x % w) % n = x % n
<1> DEFINE p == x \div w
           r == x % w
           k == w \div n
<1>1. p \in Int /\ r \in Int /\ x = w * p + r
  BY DivMod
<1>2. k \in Int /\ w = n * k
  BY DivMod
<1> HIDE DEF p, r, k
<1>3. k * p \in Int /\ x = n * (k * p) + r
  BY <1>1, <1>2
<1>4. (n * (k * p) + r) % n = r % n
  BY <1>1, <1>3, ModShift
<1> QED
  BY <1>3, <1>4 DEF r

\* The place d behind x in a ring of n.
LEMMA ModPlace ==
  ASSUME NEW n \in Nat \ {0}, NEW x \in Int, NEW d \in 0..n
  PROVE  (x + d) % n = IF (x % n) + d < n THEN (x % n) + d ELSE (x % n) + d - n
<1> DEFINE p == x \div n
           r == x % n
<1>1. p \in Int /\ r \in 0..(n - 1) /\ x = n * p + r
  BY DivMod
<1> HIDE DEF p, r
<1>2. x + d = n * p + (r + d) /\ r + d \in Int
  BY <1>1
<1>3. (n * p + (r + d)) % n = (r + d) % n
  BY <1>1, <1>2, ModShift
<1>4. (r + d) % n = IF r + d < n THEN r + d ELSE r + d - n
  BY <1>1
<1> QED
  BY <1>2, <1>3, <1>4 DEF r

\* The first of a sequence.
LEMMA FirstOf ==
  ASSUME NEW S, NEW q \in Seq(S), Len(q) >= 1
  PROVE  SubSeq(q, 1, 1) = <<q[1]>>
<1> DEFINE a == SubSeq(q, 1, 1)
           b == <<q[1]>>
<1>1. a \in Seq(S) /\ Len(a) = 1 /\ a[1] = q[1]
  OBVIOUS
<1>2. b \in Seq(S) /\ Len(b) = 1 /\ b[1] = q[1]
  OBVIOUS
<1> HIDE DEF a, b
<1>3. \A i \in 1..Len(a) : a[i] = b[i]
  BY <1>1, <1>2
<1>4. a = b
  BY <1>1, <1>2, <1>3, SeqEqual
<1> QED
  BY <1>4 DEF a, b

-----------------------------------------------------------------------------
\* The mailbox.  Of the threads that post one at most has not stored its mail; it
\* holds the index behind Write, found free, until it claims it, and Write itself
\* until it stores there.
MailPC == {"run", "blocked", "waiting"} \cup M!Posting

Content == Mails \cup {NULL}

BoxTyped ==
  /\ Read \in 0..Size /\ Write \in 0..Size /\ Mail \in [0..Size -> Content]
  /\ Index \in [Threads -> 0..Size] /\ Message \in [Threads -> Content]
  /\ pc \in [Tcb -> MailPC]

OnePost ==
  /\ \A t, u \in Threads : M!InPost(t) /\ M!InPost(u) => t = u
  /\ \A t \in Threads :
       /\ pc[t] \in {"test", "claim"} => Index[t] = M!After(Write)
       /\ pc[t] = "claim" => Index[t] # Read
       /\ pc[t] = "store" => Index[t] = Write /\ Read # Write
       /\ M!InPost(t) => Message[t] \in Mails

BoxInv == BoxTyped /\ OnePost

\* What M!Queue puts for Fifo's queue.
Ring(r, n, m) == [i \in 1..n |-> m[(r + i) % (Size + 1)]]
MailQueue == Ring(Read, M!Stored, Mail)
Claimed   == {t \in Threads : pc[t] = "store"}

\* A mailbox has Size + 1 slots, and one of them stays free.
LEMMA SizeIs == Size \in Nat \ {0} /\ Size + 1 \in Nat \ {0}
BY ObjectsAssumption DEF M!MailboxAssumption

\* The number of slots behind r, up to w.
LEMMA DistanceIs ==
  ASSUME NEW r \in 0..Size, NEW w \in 0..Size
  PROVE  /\ (w - r) % (Size + 1) = IF r <= w THEN w - r ELSE w - r + Size + 1
         /\ (w - r) % (Size + 1) \in 0..Size
         /\ (w - r) % (Size + 1) = 0 <=> r = w
<1>1. w - r \in Int /\ 0 - (Size + 1) <= w - r /\ w - r < Size + 1
  BY SizeIs
<1>2. CASE r <= w
  BY <1>1, <1>2, SizeIs
<1>3. CASE ~(r <= w)
  BY <1>1, <1>3, SizeIs
<1> QED
  BY <1>2, <1>3

\* The i-th slot behind r.
LEMMA SlotIs ==
  ASSUME NEW r \in 0..Size, NEW i \in 0..Size
  PROVE  /\ (r + i) % (Size + 1) = IF r + i <= Size THEN r + i ELSE r + i - Size - 1
         /\ (r + i) % (Size + 1) \in 0..Size
<1>1. r + i \in Int /\ 0 <= r + i /\ r + i < 2 * (Size + 1)
  BY SizeIs
<1>2. CASE r + i <= Size
  BY <1>1, <1>2, SizeIs
<1>3. CASE ~(r + i <= Size)
  BY <1>1, <1>3, SizeIs
<1> QED
  BY <1>2, <1>3

\* The next slot.
LEMMA AfterIs ==
  ASSUME NEW i \in 0..Size
  PROVE  M!After(i) \in 0..Size /\ M!After(i) = IF i = Size THEN 0 ELSE i + 1
BY SizeIs DEF M!After

\* The mailbox counts as this module does.
LEMMA SameCardinality == \A S : M!Cardinality(S) = Cardinality(S)
BY DEF M!Cardinality, Cardinality, M!IsFiniteSet, IsFiniteSet

\* How many mails are claimed and not stored.
LEMMA ClaimedNone ==
  ASSUME Claimed = {}
  PROVE  M!Stored = M!Count - 0
BY FS_EmptySet, SameCardinality DEF Claimed, M!Stored

\* A mail that is claimed and not stored yet is not in the queue.
LEMMA ClaimedOne ==
  ASSUME NEW t \in Threads, Claimed = {t}
  PROVE  M!Stored = M!Count - 1
BY FS_Singleton, SameCardinality DEF Claimed, M!Stored

\* Inside mail_post there is room for the mail.
LEMMA StoredIs ==
  ASSUME BoxInv
  PROVE  /\ M!Stored \in 0..Size
         /\ Claimed = {} => M!Stored = M!Count
         /\ \A t \in Threads : pc[t] = "store" => Claimed = {t} /\ M!Stored = M!Count - 1
<1>1. M!Count \in 0..Size /\ (M!Count = 0 <=> Read = Write)
  BY DistanceIs DEF BoxInv, BoxTyped, M!Count
<1>2. CASE Claimed = {}
  BY <1>1, <1>2, SizeIs, ClaimedNone DEF Claimed
<1>3. CASE Claimed # {}
  <2>1. PICK t \in Threads : pc[t] = "store"
    BY <1>3 DEF Claimed
  <2>2. Claimed = {t}
    BY <2>1 DEF Claimed, BoxInv, OnePost, M!InPost
  <2>3. M!Stored = M!Count - 1
    BY <2>2, ClaimedOne
  <2>4. Read # Write
    BY <2>1 DEF BoxInv, OnePost
  <2>5. M!Count - 1 \in 0..Size
    BY <1>1, <2>4, SizeIs
  <2> QED
    BY <2>2, <2>3, <2>5 DEF Claimed
<1> QED
  BY <1>2, <1>3

\* Claiming a slot lengthens the way from r to w by one.
LEMMA OneMore ==
  ASSUME NEW r \in 0..Size, NEW w \in 0..Size, M!After(w) # r
  PROVE  (M!After(w) - r) % (Size + 1) = ((w - r) % (Size + 1)) + 1
<1> DEFINE a == M!After(w)
           m == (a - r) % (Size + 1)
           n == (w - r) % (Size + 1)
<1>1. a \in 0..Size /\ a = IF w = Size THEN 0 ELSE w + 1
  BY AfterIs
<1> HIDE DEF a
<1>2. m = IF r <= a THEN a - r ELSE a - r + Size + 1
  BY <1>1, DistanceIs
<1>3. n = IF r <= w THEN w - r ELSE w - r + Size + 1
  BY DistanceIs
<1>4. a # r
  BY DEF a
<1> HIDE DEF m, n
<1>5. m = n + 1
  BY <1>1, <1>2, <1>3, <1>4, SizeIs
<1> QED
  BY <1>5 DEF a, m, n

\* Reading a mail shortens it.
LEMMA OneLess ==
  ASSUME NEW r \in 0..Size, NEW w \in 0..Size, r # w
  PROVE  (w - M!After(r)) % (Size + 1) = ((w - r) % (Size + 1)) - 1
<1> DEFINE a == M!After(r)
           m == (w - a) % (Size + 1)
           n == (w - r) % (Size + 1)
<1>1. a \in 0..Size /\ a = IF r = Size THEN 0 ELSE r + 1
  BY AfterIs
<1> HIDE DEF a
<1>2. m = IF a <= w THEN w - a ELSE w - a + Size + 1
  BY <1>1, DistanceIs
<1>3. n = IF r <= w THEN w - r ELSE w - r + Size + 1
  BY DistanceIs
<1> HIDE DEF m, n
<1>4. m = n - 1
  BY <1>1, <1>2, <1>3, SizeIs
<1> QED
  BY <1>4 DEF a, m, n

\* The mails from slot r on are a sequence.
LEMMA RingSeq ==
  ASSUME NEW m \in [0..Size -> Content], NEW r \in 0..Size, NEW n \in 0..Size
  PROVE  Ring(r, n, m) \in Seq(Content) /\ Len(Ring(r, n, m)) = n
<1>1. \A i \in 1..n : m[(r + i) % (Size + 1)] \in Content
  BY SlotIs, SizeIs
<1>2. Ring(r, n, m) \in [1..n -> Content]
  BY <1>1 DEF Ring
<1> QED
  BY <1>2, SizeIs

\* Slot w is the last of those from r to w, and no other of them.
LEMMA LastSlot ==
  ASSUME NEW r \in 0..Size, NEW w \in 0..Size, w # r, NEW n, n = (w - r) % (Size + 1)
  PROVE  /\ n \in 1..Size /\ (r + n) % (Size + 1) = w
         /\ \A i \in 1..(n - 1) : (r + i) % (Size + 1) # w /\ (r + i) % (Size + 1) \in 0..Size
<1>0. n \in 0..Size /\ n # 0 /\ n = IF r <= w THEN w - r ELSE w - r + Size + 1
  BY DistanceIs
<1>1. n \in 1..Size
  BY <1>0, SizeIs
<1>2. (r + n) % (Size + 1) = w
  <2>1. (r + n) % (Size + 1) = IF r + n <= Size THEN r + n ELSE r + n - Size - 1
    BY <1>0, SlotIs
  <2> QED
    BY <1>0, <2>1, SizeIs
<1>3. \A i \in 1..(n - 1) : (r + i) % (Size + 1) # w /\ (r + i) % (Size + 1) \in 0..Size
  <2> TAKE i \in 1..(n - 1)
  <2> DEFINE j == (r + i) % (Size + 1)
  <2>1. i \in 0..Size
    BY <1>1, SizeIs
  <2>2. j \in 0..Size /\ j = IF r + i <= Size THEN r + i ELSE r + i - Size - 1
    BY <2>1, SlotIs
  <2> HIDE DEF j
  <2>3. j # w
    BY <1>0, <2>1, <2>2, SizeIs
  <2> QED
    BY <2>2, <2>3 DEF j
<1> QED
  BY <1>1, <1>2, <1>3

\* A ring whose last slot alone is written has one mail more.
LEMMA RingGrows ==
  ASSUME NEW m \in [0..Size -> Content], NEW k \in [0..Size -> Content],
         NEW r \in 0..Size, NEW n \in 1..Size,
         \A i \in 1..(n - 1) : k[(r + i) % (Size + 1)] = m[(r + i) % (Size + 1)]
  PROVE  Ring(r, n, k) = Ring(r, n - 1, m) \o <<k[(r + n) % (Size + 1)]>>
<1> DEFINE x == k[(r + n) % (Size + 1)]
<1>0. n \in 0..Size /\ n - 1 \in 0..Size
  BY SizeIs
<1>1. x \in Content
  BY <1>0, SlotIs
<1>2. Ring(r, n, k)[n] = x
  BY DEF Ring
<1>3. \A i \in 1..(n - 1) : Ring(r, n, k)[i] = Ring(r, n - 1, m)[i]
  BY DEF Ring
<1> HIDE DEF x
<1>4. Ring(r, n, k) \in Seq(Content) /\ Len(Ring(r, n, k)) = n
  BY <1>0, RingSeq
<1>5. Ring(r, n - 1, m) \in Seq(Content) /\ Len(Ring(r, n - 1, m)) = n - 1
  BY <1>0, RingSeq
<1>6. Ring(r, n - 1, m) \o <<x>> \in Seq(Content) /\ Len(Ring(r, n - 1, m) \o <<x>>) = n
  BY <1>0, <1>1, <1>5
<1>7. \A i \in 1..n : Ring(r, n, k)[i] = (Ring(r, n - 1, m) \o <<x>>)[i]
  <2> TAKE i \in 1..n
  <2>1. CASE i = n
    BY <1>0, <1>2, <1>5, <2>1, SizeIs
  <2>2. CASE i \in 1..(n - 1)
    BY <1>0, <1>3, <1>5, <2>2
  <2>3. i = n \/ i \in 1..(n - 1)
    BY <1>0, SizeIs
  <2> QED
    BY <2>1, <2>2, <2>3
<1>8. Ring(r, n, k) = Ring(r, n - 1, m) \o <<x>>
  BY <1>4, <1>6, <1>7, SeqEqual
<1> QED
  BY <1>8 DEF x

\* The first mail is the one behind r; without it the others are left.
LEMMA RingTake ==
  ASSUME NEW m \in [0..Size -> Content], NEW r \in 0..Size, NEW n \in 1..Size
  PROVE  /\ SubSeq(Ring(r, n, m), 1, 1) = <<m[M!After(r)]>>
         /\ SubSeq(Ring(r, n, m), 2, n) = Ring(M!After(r), n - 1, m)
<1>0. n \in 0..Size /\ 1 \in 0..Size /\ n \in Nat
  BY SizeIs
<1>1. (r + 1) % (Size + 1) = M!After(r) /\ M!After(r) \in 0..Size
  <2>1. (r + 1) % (Size + 1) = IF r + 1 <= Size THEN r + 1 ELSE r + 1 - Size - 1
    BY <1>0, SlotIs
  <2> QED
    BY <2>1, AfterIs, SizeIs
<1>2. \A i \in 1..(n - 1) : (M!After(r) + i) % (Size + 1) = (r + (i + 1)) % (Size + 1)
  <2> TAKE i \in 1..(n - 1)
  <2> DEFINE a == M!After(r)
             j == (a + i) % (Size + 1)
             k == (r + (i + 1)) % (Size + 1)
  <2>1. i \in 0..Size /\ i + 1 \in 0..Size
    BY SizeIs
  <2>2. a \in 0..Size /\ a = IF r = Size THEN 0 ELSE r + 1
    BY AfterIs
  <2> HIDE DEF a
  <2>3. j = IF a + i <= Size THEN a + i ELSE a + i - Size - 1
    BY <2>1, <2>2, SlotIs
  <2>4. k = IF r + (i + 1) <= Size THEN r + (i + 1) ELSE r + (i + 1) - Size - 1
    BY <2>1, SlotIs
  <2> HIDE DEF j, k
  <2>5. j = k
    BY <2>1, <2>2, <2>3, <2>4, SizeIs
  <2> QED
    BY <2>5 DEF a, j, k
<1>3. Ring(r, n, m) \in Seq(Content) /\ Len(Ring(r, n, m)) = n
  BY <1>0, RingSeq
<1>4. SubSeq(Ring(r, n, m), 1, 1) = <<Ring(r, n, m)[1]>>
  BY <1>0, <1>3, FirstOf
<1>5. Ring(r, n, m)[1] = m[M!After(r)]
  BY <1>1 DEF Ring
<1>6. /\ SubSeq(Ring(r, n, m), 2, n) = [i \in 1..(n - 1) |-> Ring(r, n, m)[i + 1]]
  BY <1>3
<1>7. \A i \in 1..(n - 1) : Ring(r, n, m)[i + 1] = m[(r + (i + 1)) % (Size + 1)]
  BY DEF Ring
<1> QED
  BY <1>2, <1>4, <1>5, <1>6, <1>7 DEF Ring

\* What M!Queue's actions are, said of MailQueue.
LEMMA PutIs ==
  ASSUME NEW x \in Mails, put' = <<x>>, UNCHANGED got,
         MailQueue' = MailQueue \o <<x>>, Len(MailQueue) + 1 <= Size
  PROVE  M!Queue!FifoNext
<1>1. M!Queue!Put(<<x>>)
  BY DEF M!Queue!Put, MailQueue, Ring
<1>2. <<x>> \in [1..1 -> Mails] /\ 1 \in 0..Size
  BY SizeIs
<1> QED
  BY <1>1, <1>2 DEF M!Queue!FifoNext

\* A fetch is a Take of the queue.
LEMMA TakeIs ==
  ASSUME got' = SubSeq(MailQueue, 1, 1), UNCHANGED put, Len(MailQueue) \in Nat \ {0},
         MailQueue' = SubSeq(MailQueue, 1 + 1, Len(MailQueue))
  PROVE  M!Queue!FifoNext
<1>1. M!Queue!Take(1)
  BY Zenon DEF M!Queue!Take, MailQueue, Ring
<1>2. 1 \in 1..Len(MailQueue)
  OBVIOUS
<1> QED
  BY <1>1, <1>2 DEF M!Queue!FifoNext, MailQueue, Ring

\* Steps that leave the mails alone and neither claim nor store one.
LEMMA SameQueue ==
  ASSUME UNCHANGED <<Read, Write, Mail>>, Claimed' = Claimed
  PROVE  UNCHANGED MailQueue
<1>1. M!Stored' = M!Stored
  BY DEF M!Stored, M!Count, Claimed
<1> QED
  BY <1>1 DEF MailQueue, Ring

\* A mail is read while nobody is inside mail_post.
LEMMA TakenIsTake ==
  ASSUME BoxInv, M!Taken, Read # Write, Claimed = {}, Claimed' = {}
  PROVE  M!Queue!FifoNext
<1>1. Read' = M!After(Read) /\ got' = <<Mail[M!After(Read)]>> /\ UNCHANGED <<Write, Mail, put>>
  BY DEF M!Taken
<1>2. Read \in 0..Size /\ Write \in 0..Size /\ Mail \in [0..Size -> Content]
  BY DEF BoxInv, BoxTyped
<1> DEFINE n == M!Stored
<1>3. n = (Write - Read) % (Size + 1) /\ n \in 0..Size
  BY <1>2, StoredIs DEF M!Count
<1>4. n # 0
  BY <1>2, <1>3, DistanceIs
<1>5. M!Stored' = (Write - M!After(Read)) % (Size + 1)
  <2>1. M!Stored' = M!Count' - 0
    BY FS_EmptySet, SameCardinality DEF Claimed, M!Stored
  <2>2. M!Count' = (Write - M!After(Read)) % (Size + 1)
    BY <1>1 DEF M!Count
  <2>3. (Write - M!After(Read)) % (Size + 1) \in 0..Size
    BY <1>2, AfterIs, DistanceIs
  <2> QED
    BY <2>1, <2>2, <2>3
<1>6. M!Stored' = n - 1
  BY <1>2, <1>3, <1>5, OneLess
<1> HIDE DEF n
<1>7. n \in 1..Size
  BY <1>3, <1>4, SizeIs
<1>8. /\ SubSeq(Ring(Read, n, Mail), 1, 1) = <<Mail[M!After(Read)]>>
      /\ SubSeq(Ring(Read, n, Mail), 2, n) = Ring(M!After(Read), n - 1, Mail)
  BY <1>2, <1>7, RingTake
<1>9. Len(Ring(Read, n, Mail)) = n
  BY <1>2, <1>3, RingSeq
<1>10. MailQueue = Ring(Read, n, Mail)
  BY DEF MailQueue, n
<1>11. MailQueue' = Ring(M!After(Read), n - 1, Mail)
  BY <1>1, <1>6 DEF MailQueue, Ring
<1>12. MailQueue' = SubSeq(MailQueue, 1 + 1, Len(MailQueue)) /\ Len(MailQueue) \in Nat \ {0}
  BY <1>7, <1>8, <1>9, <1>10, <1>11, SizeIs
<1>13. got' = SubSeq(MailQueue, 1, 1) /\ UNCHANGED put
  BY <1>1, <1>8, <1>10
<1> QED
  BY <1>12, <1>13, TakeIs

\* A mail is stored: by a thread that claimed its slot, or by an interrupt handler.
LEMMA StoreIsPut ==
  ASSUME BoxTyped, NEW w \in 0..Size, w # Read, NEW x \in Mails,
         Mail' = [Mail EXCEPT ![w] = x], Write' = w, put' = <<x>>, UNCHANGED <<Read, got>>,
         Claimed' = {}, M!Stored = ((w - Read) % (Size + 1)) - 1
  PROVE  M!Queue!FifoNext
<1> DEFINE n == (w - Read) % (Size + 1)
<1>1. Read \in 0..Size /\ Mail \in [0..Size -> Content] /\ x \in Content
  BY DEF BoxTyped, Content
<1>0. n = (w - Read) % (Size + 1)
  OBVIOUS
<1>4. M!Stored = n - 1
  OBVIOUS
<1> HIDE DEF n
<1>2. n \in 1..Size /\ Ring(Read, n, Mail') = Ring(Read, n - 1, Mail) \o <<x>>
  <2>1. /\ Mail' \in [0..Size -> Content] /\ Mail'[w] = x
        /\ \A j \in 0..Size : j # w => Mail'[j] = Mail[j]
    BY <1>1
  <2>2. /\ n \in 1..Size /\ (Read + n) % (Size + 1) = w
        /\ \A i \in 1..(n - 1) : (Read + i) % (Size + 1) # w /\ (Read + i) % (Size + 1) \in 0..Size
    BY <1>0, <1>1, LastSlot
  <2>3. \A i \in 1..(n - 1) : Mail'[(Read + i) % (Size + 1)] = Mail[(Read + i) % (Size + 1)]
    BY <2>1, <2>2
  <2>4. Ring(Read, n, Mail') = Ring(Read, n - 1, Mail) \o <<Mail'[(Read + n) % (Size + 1)]>>
    BY <1>1, <2>1, <2>2, <2>3, RingGrows
  <2> QED
    BY <2>1, <2>2, <2>4
<1>3. M!Stored' = n
  <2>1. M!Stored' = M!Count' - 0
    BY FS_EmptySet, SameCardinality DEF Claimed, M!Stored
  <2>2. M!Count' = n
    BY <1>0 DEF M!Count
  <2> QED
    BY <1>2, <2>1, <2>2, SizeIs
<1>5. MailQueue' = Ring(Read, n, Mail')
  BY <1>3 DEF MailQueue, Ring
<1>6. MailQueue = Ring(Read, n - 1, Mail)
  BY <1>4 DEF MailQueue
<1>7. n - 1 \in 0..Size
  BY <1>2, SizeIs
<1>8. Len(MailQueue) = n - 1
  BY <1>1, <1>6, <1>7, RingSeq
<1>9. Len(MailQueue) + 1 <= Size
  BY <1>2, <1>8, SizeIs
<1> QED
  BY <1>2, <1>5, <1>6, <1>9, PutIs

\* Idle is no thread of the application.
LEMMA ThreadsAre == Threads \subseteq Tcb /\ Idle \notin Threads
BY BlockingAssumption DEF Tcb

boxVars == <<MailQueue, put, got>>

\* Steps that do nothing to the mails, nor to a thread inside mail_post.
LEMMA QuietBox ==
  ASSUME BoxInv, UNCHANGED <<Read, Write, Mail, put, got>>,
         pc' \in [Tcb -> MailPC], Index' \in [Threads -> 0..Size],
         Message' \in [Threads -> Content],
         \A t \in Threads : M!InPost(t)' => UNCHANGED <<pc[t], Index[t], Message[t]>>,
         \A t \in Threads : pc[t] = "store" => pc'[t] = "store"
  PROVE  BoxInv' /\ UNCHANGED boxVars
<1>1. BoxTyped'
  BY DEF BoxInv, BoxTyped
<1>2. \A t \in Threads : M!InPost(t)' => M!InPost(t)
  BY DEF M!InPost
<1>3. \A t \in Threads : pc'[t] \in {"test", "claim", "store"} => M!InPost(t)'
  BY DEF M!InPost
<1>4. OnePost'
  BY <1>2, <1>3 DEF BoxInv, OnePost, M!After
<1>5. Claimed' = Claimed
  BY <1>3 DEF Claimed
<1> QED
  BY <1>1, <1>4, <1>5, SameQueue DEF BoxInv, boxVars

\* The scheduler, and what a thread does outside of the unlocked part of mail_post.
LEMMA KernelBox ==
  ASSUME BoxInv, M!KernelStep, UNCHANGED <<M!box, M!locals>>
  PROVE  BoxInv' /\ UNCHANGED boxVars
<1>1. pc' = pc \/ \E t \in Threads : pc[t] = "blocked" /\ pc' = [pc EXCEPT ![t] = "waiting"]
  BY DEF M!KernelStep, M!Shift, M!OtherTick, M!Switch, M!Expire
<1>2. pc' \in [Tcb -> MailPC]
  BY <1>1, ThreadsAre DEF BoxInv, BoxTyped, MailPC
<1>3. \A t \in Threads : M!InPost(t)' => pc'[t] = pc[t]
  BY <1>1, ThreadsAre DEF BoxInv, BoxTyped, M!InPost
<1>4. \A t \in Threads : pc[t] = "store" => pc'[t] = "store"
  BY <1>1, ThreadsAre DEF BoxInv, BoxTyped
<1>5. UNCHANGED <<Read, Write, Mail, put, got, Index, Message>>
  BY DEF M!box, M!locals
<1> QED
  BY <1>2, <1>3, <1>4, <1>5, QuietBox DEF BoxInv, BoxTyped

\* A step of a thread that is not storing and leaves the slots alone.
LEMMA ThreadQuietBox ==
  ASSUME BoxInv, NEW t \in Threads, NEW to \in {"run", "blocked", "ready", "return"},
         pc' = [pc EXCEPT ![t] = to], pc[t] # "store",
         UNCHANGED <<Read, Write, Mail, put, got>>,
         Index' \in [Threads -> 0..Size], Message' \in [Threads -> Content],
         \A u \in Threads \ {t} : UNCHANGED <<Index[u], Message[u]>>
  PROVE  BoxInv' /\ UNCHANGED boxVars
<1>1. pc' \in [Tcb -> MailPC]
  BY ThreadsAre DEF BoxInv, BoxTyped, MailPC, M!Posting
<1>2. \A u \in Threads : M!InPost(u)' => u # t /\ pc'[u] = pc[u]
  BY ThreadsAre DEF BoxInv, BoxTyped, M!InPost
<1>3. \A u \in Threads : pc[u] = "store" => pc'[u] = "store"
  BY ThreadsAre DEF BoxInv, BoxTyped
<1> QED
  BY <1>1, <1>2, <1>3, QuietBox

\* Forgetting the locals of a call.
LEMMA ForgetTyped ==
  ASSUME BoxInv, NEW t \in Threads, M!Forget(t) \/ UNCHANGED <<Index, Message>>
  PROVE  /\ Index' \in [Threads -> 0..Size] /\ Message' \in [Threads -> Content]
         /\ \A u \in Threads \ {t} : UNCHANGED <<Index[u], Message[u]>>
<1>1. 0 \in 0..Size /\ NULL \in Content
  BY SizeIs DEF Content
<1> QED
  BY <1>1 DEF BoxInv, BoxTyped, M!Forget

\* The steps of a thread that change neither the slots nor the indices.
LEMMA OutsideBox ==
  ASSUME BoxInv, NEW t \in Threads,
         \/ \E timed \in BOOLEAN : M!Wait(t, timed)
         \/ M!PostLook(t) \/ M!PostReady(t) \/ M!PostReturns(t)
         \/ M!PostTest(t) /\ Index[t] = Read
         \/ M!Resume(t) /\ Read = Write
         \/ M!Free(t) /\ UNCHANGED <<Read, Write, Mail, put, got, accepted, M!locals>>
  PROVE  BoxInv' /\ UNCHANGED boxVars
<1>1. UNCHANGED <<Read, Write, Mail, put, got>>
  BY DEF M!Wait, M!PostLook, M!PostReady, M!PostReturns, M!PostTest, M!Resume, M!Free, M!box
<1>2. M!Forget(t) \/ UNCHANGED <<Index, Message>>
  BY DEF M!Wait, M!PostLook, M!PostReady, M!PostReturns, M!PostTest, M!Resume, M!Free, M!locals
<1>3. /\ pc[t] # "store"
      /\ \E to \in {"run", "blocked", "ready", "return"} : pc' = [pc EXCEPT ![t] = to]
  <2>1. CASE \E timed \in BOOLEAN : M!Wait(t, timed)
    BY <2>1 DEF M!Wait, M!Calls
  <2>2. CASE M!PostLook(t) \/ M!PostReady(t) \/ M!PostReturns(t) \/ (M!Resume(t) /\ Read = Write)
    BY <2>2 DEF M!PostLook, M!PostReady, M!PostReturns, M!Resume
  <2>3. CASE M!PostTest(t) /\ Index[t] = Read
    BY <2>3 DEF M!PostTest
  <2>4. CASE M!Free(t)
    <3>1. pc[t] = "run" /\ pc' = pc
      BY <2>4 DEF M!Free, M!Calls, M!sched
    <3>2. pc' = [pc EXCEPT ![t] = "run"]
      BY <3>1, ThreadsAre DEF BoxInv, BoxTyped
    <3> QED
      BY <3>1, <3>2
  <2> QED
    BY <2>1, <2>2, <2>3, <2>4
<1> QED
  BY <1>1, <1>2, <1>3, ForgetTyped, ThreadQuietBox

\* Nobody else is inside mail_post.
LEMMA AloneInPost ==
  ASSUME "single" \in Careful, NEW t \in Threads, M!Exclusive(t), pc[t] \notin {"test", "claim", "store"}
  PROVE  (\A u \in Threads : ~M!InPost(u)) /\ Claimed = {}
BY DEF M!Exclusive, M!InPost, Claimed

\* mail_post begins: nobody else is posting.
LEMMA PostBox ==
  ASSUME BoxInv, "single" \in Careful, NEW t \in Threads, NEW m \in Mails, M!Post(t, m)
  PROVE  BoxInv' /\ UNCHANGED boxVars
<1>1. /\ pc[t] = "run" /\ M!Exclusive(t)
      /\ Index' = [Index EXCEPT ![t] = M!After(Write)] /\ Message' = [Message EXCEPT ![t] = m]
      /\ pc' = [pc EXCEPT ![t] = "test"] /\ UNCHANGED <<Read, Write, Mail, put, got>>
  BY DEF M!Post, M!Calls, M!box
<1>2. \A u \in Threads : pc[u] \notin {"test", "claim", "store"}
  BY <1>1, AloneInPost DEF M!InPost
<1>3. pc'[t] = "test" /\ \A u \in Threads \ {t} : pc'[u] = pc[u]
  BY <1>1, ThreadsAre DEF BoxInv, BoxTyped
<1>4. m \in Content /\ M!After(Write) \in 0..Size /\ "test" \in MailPC
  BY AfterIs DEF BoxInv, BoxTyped, Content, MailPC, M!Posting
<1>5. BoxTyped'
  BY <1>1, <1>4 DEF BoxInv, BoxTyped
<1>6. Index'[t] = M!After(Write) /\ Message'[t] = m
  BY <1>1 DEF BoxInv, BoxTyped
<1>7. OnePost'
  BY <1>1, <1>2, <1>3, <1>6 DEF OnePost, M!InPost, M!After
<1>8. Claimed' = {} /\ Claimed = {}
  BY <1>2, <1>3 DEF Claimed
<1> QED
  BY <1>1, <1>5, <1>7, <1>8, SameQueue DEF BoxInv, boxVars

\* It finds room.
LEMMA PostTestBox ==
  ASSUME BoxInv, NEW t \in Threads, M!PostTest(t), Index[t] # Read
  PROVE  BoxInv' /\ UNCHANGED boxVars
<1>1. /\ pc[t] = "test" /\ pc' = [pc EXCEPT ![t] = "claim"]
      /\ UNCHANGED <<Read, Write, Mail, put, got, Index, Message>>
  BY DEF M!PostTest, M!box, M!locals
<1>2. pc'[t] = "claim" /\ \A u \in Threads \ {t} : pc'[u] = pc[u]
  BY <1>1, ThreadsAre DEF BoxInv, BoxTyped
<1>3. BoxTyped'
  BY <1>1 DEF BoxInv, BoxTyped, MailPC, M!Posting
<1>4. OnePost'
  BY <1>1, <1>2 DEF BoxInv, OnePost, M!InPost, M!After
<1>5. Claimed' = Claimed
  BY <1>1, <1>2 DEF Claimed
<1> QED
  BY <1>1, <1>3, <1>4, <1>5, SameQueue DEF BoxInv, boxVars

\* The claim moves Write ahead of the mail, which is not yet one of the queue.
LEMMA PostClaimBox ==
  ASSUME BoxInv, NEW t \in Threads, M!PostClaim(t)
  PROVE  BoxInv' /\ UNCHANGED boxVars
<1>1. /\ pc[t] = "claim" /\ pc' = [pc EXCEPT ![t] = "store"] /\ Write' = Index[t]
      /\ UNCHANGED <<Read, Mail, put, got, Index, Message>>
  BY DEF M!PostClaim, M!locals
<1>2. pc'[t] = "store" /\ \A u \in Threads \ {t} : pc'[u] = pc[u]
  BY <1>1, ThreadsAre DEF BoxInv, BoxTyped
<1>3. Index[t] = M!After(Write) /\ Index[t] # Read /\ Message[t] \in Mails
  BY <1>1 DEF BoxInv, OnePost, M!InPost
<1>4. \A u \in Threads \ {t} : pc[u] \notin {"test", "claim", "store"}
  BY <1>1 DEF BoxInv, OnePost, M!InPost
<1>5. BoxTyped'
  BY <1>1 DEF BoxInv, BoxTyped, MailPC, M!Posting
<1>6. OnePost'
  BY <1>1, <1>2, <1>3, <1>4 DEF OnePost, M!InPost
<1>7. Claimed = {} /\ Claimed' = {t}
  BY <1>1, <1>2, <1>4 DEF Claimed
<1>8. M!Stored = M!Count
  BY <1>7, StoredIs
<1>9. M!Stored' = M!Count' - 1
  BY <1>7, FS_Singleton, SameCardinality DEF M!Stored, Claimed
<1>10. M!Count' = M!Count + 1 /\ M!Count \in 0..Size
  BY <1>1, <1>3, OneMore, DistanceIs DEF M!Count, BoxInv, BoxTyped
<1>11. M!Stored' = M!Stored
  BY <1>8, <1>9, <1>10, SizeIs
<1>12. UNCHANGED MailQueue
  BY <1>1, <1>11 DEF MailQueue, Ring
<1> QED
  BY <1>1, <1>5, <1>6, <1>12 DEF BoxInv, boxVars

\* It stores the mail, which is the moment the queue grows.
LEMMA PostStoreBox ==
  ASSUME BoxInv, NEW t \in Threads, M!PostStore(t)
  PROVE  BoxInv' /\ M!Queue!FifoNext
<1>1. /\ pc[t] = "store" /\ pc' = [pc EXCEPT ![t] = "look"]
      /\ Mail' = [Mail EXCEPT ![Index[t]] = Message[t]] /\ put' = <<Message[t]>>
      /\ UNCHANGED <<Read, Write, got, Index, Message>>
  BY DEF M!PostStore, M!locals
<1>2. pc'[t] = "look" /\ \A u \in Threads \ {t} : pc'[u] = pc[u]
  BY <1>1, ThreadsAre DEF BoxInv, BoxTyped
<1>3. Index[t] = Write /\ Write # Read /\ Message[t] \in Mails
  BY <1>1 DEF BoxInv, OnePost, M!InPost
<1>4. \A u \in Threads \ {t} : pc[u] \notin {"test", "claim", "store"}
  BY <1>1 DEF BoxInv, OnePost, M!InPost
<1>5. BoxTyped'
  BY <1>1 DEF BoxInv, BoxTyped, MailPC, M!Posting
<1>6. OnePost'
  BY <1>2, <1>4 DEF OnePost, M!InPost
<1>7. Claimed' = {}
  BY <1>2, <1>4 DEF Claimed
<1>8. M!Stored = ((Write - Read) % (Size + 1)) - 1
  BY <1>1, StoredIs DEF M!Count
<1>9. Write \in 0..Size /\ Mail' = [Mail EXCEPT ![Write] = Message[t]] /\ Write' = Write
  BY <1>1, <1>3 DEF BoxInv, BoxTyped
<1> QED
  BY <1>1, <1>3, <1>5, <1>6, <1>7, <1>8, <1>9, StoreIsPut DEF BoxInv

\* A mail is read, by mail_fetch or by either half of mail_wait.
LEMMA TakenBox ==
  ASSUME BoxInv, "single" \in Careful, NEW t \in Threads,
         M!Fetch(t) \/ (M!Resume(t) /\ Read # Write)
  PROVE  BoxInv' /\ M!Queue!FifoNext
<1>1. /\ M!Taken /\ M!Exclusive(t) /\ Read # Write /\ pc[t] \in {"run", "waiting"}
      /\ pc' = pc \/ pc' = [pc EXCEPT ![t] = "run"]
      /\ UNCHANGED <<Index, Message>>
  BY DEF M!Fetch, M!Resume, M!Calls, M!sched, M!locals
<1>2. (\A u \in Threads : pc[u] \notin {"test", "claim", "store"}) /\ Claimed = {}
  BY <1>1, AloneInPost DEF M!InPost
<1>3. \A u \in Threads : pc'[u] \notin {"test", "claim", "store"}
  BY <1>1, <1>2, ThreadsAre DEF BoxInv, BoxTyped
<1>4. Claimed' = {}
  BY <1>3 DEF Claimed
<1>5. Read' \in 0..Size /\ UNCHANGED <<Write, Mail>>
  BY <1>1, AfterIs DEF M!Taken, BoxInv, BoxTyped
<1>6. BoxTyped'
  BY <1>1, <1>5, ThreadsAre DEF BoxInv, BoxTyped, MailPC
<1>7. OnePost'
  BY <1>3 DEF OnePost, M!InPost
<1> QED
  BY <1>1, <1>2, <1>4, <1>6, <1>7, TakenIsTake DEF BoxInv

\* A post from an interrupt does all that at once.
LEMMA InterruptBox ==
  ASSUME BoxInv, "single" \in Careful, NEW m \in Mails, M!PostFromInterrupt(m)
  PROVE  BoxInv' /\ M!Queue!FifoNext
<1>1. /\ M!Exclusive(Idle) /\ M!After(Write) # Read /\ Write' = M!After(Write)
      /\ Mail' = [Mail EXCEPT ![M!After(Write)] = m] /\ put' = <<m>>
      /\ UNCHANGED <<pc, Read, got, Index, Message>>
  BY DEF M!PostFromInterrupt, M!locals
<1>2. \A u \in Threads : pc[u] \notin {"test", "claim", "store"}
  BY <1>1, ThreadsAre DEF M!Exclusive, M!InPost
<1>3. Claimed = {} /\ Claimed' = {}
  BY <1>1, <1>2 DEF Claimed
<1>4. M!After(Write) \in 0..Size /\ m \in Content
  BY AfterIs DEF BoxInv, BoxTyped, Content
<1>5. BoxTyped'
  BY <1>1, <1>4 DEF BoxInv, BoxTyped
<1>6. OnePost'
  BY <1>1, <1>2 DEF OnePost, M!InPost
<1>7. M!Stored = M!Count /\ M!Stored \in 0..Size
  BY <1>3, StoredIs
<1>8. ((M!After(Write) - Read) % (Size + 1)) = M!Count + 1
  BY <1>1, OneMore DEF M!Count, BoxInv, BoxTyped
<1>9. M!Stored = ((M!After(Write) - Read) % (Size + 1)) - 1
  BY <1>7, <1>8, SizeIs
<1> QED
  BY <1>1, <1>3, <1>4, <1>5, <1>6, <1>9, StoreIsPut DEF BoxInv

\* Every step of the mailbox is a step of the queue, or none.
LEMMA MailboxStep ==
  ASSUME BoxInv, "single" \in Careful, M!Next
  PROVE  BoxInv' /\ (M!Queue!FifoNext \/ UNCHANGED boxVars)
<1>1. CASE M!KernelStep /\ UNCHANGED <<M!box, M!locals>>
  BY <1>1, KernelBox
<1>2. ASSUME NEW m \in Mails, M!PostFromInterrupt(m)
      PROVE  BoxInv' /\ M!Queue!FifoNext
  BY <1>2, InterruptBox
<1>3. ASSUME NEW t \in Threads, M!ThreadPosts(t)
      PROVE  BoxInv' /\ (M!Queue!FifoNext \/ UNCHANGED boxVars)
  BY <1>3, PostBox, PostTestBox, PostClaimBox, PostStoreBox, OutsideBox DEF M!ThreadPosts
<1>4. ASSUME NEW t \in Threads, M!Fetch(t) \/ M!Resume(t)
      PROVE  BoxInv' /\ (M!Queue!FifoNext \/ UNCHANGED boxVars)
  BY <1>4, TakenBox, OutsideBox
<1>5. ASSUME NEW t \in Threads,
             \/ M!Free(t) /\ UNCHANGED <<Read, Write, Mail, put, got, accepted, M!locals>>
             \/ \E timed \in BOOLEAN : M!Wait(t, timed)
      PROVE  BoxInv' /\ UNCHANGED boxVars
  BY <1>5, OutsideBox
<1> QED
  BY <1>1, <1>2, <1>3, <1>4, <1>5 DEF M!Next, M!Step

-----------------------------------------------------------------------------
\* The pipe.  What is used fits into the ring; of the threads that write one at most
\* is between its look at the room and the new In, with a length that still fits,
\* and once it copied, its elements stand behind In.
PipePC == {"run", "blocked", "waiting"} \cup P!Writing
Bytes  == Data \cup {NULL}

\* What the assumption says of the length and of the width of the indices.
LEMMA LenthIs ==
  /\ P!Lenth \in Nat \ {0} /\ W \in Nat \ {0} /\ W % P!Lenth = 0 /\ P!Lenth < W
  /\ MaxChunk \in Nat
BY ObjectsAssumption DEF P!PipeAssumption

\* In - Out, Lenth - In + Out and the advance of either index, in unsigned arithmetic.
LEMMA UsedIs ==
  ASSUME NEW a \in 0..(W - 1), NEW b \in 0..(W - 1)
  PROVE  (a - b) % W \in 0..(W - 1) /\ (a - b) % W = IF b <= a THEN a - b ELSE a - b + W
<1>1. CASE b <= a
  BY <1>1, LenthIs
<1>2. CASE ~(b <= a)
  BY <1>2, LenthIs
<1> QED
  BY <1>1, <1>2

\* Lenth - In + Out is the room.
LEMMA RoomIs ==
  ASSUME NEW a \in 0..(W - 1), NEW b \in 0..(W - 1), NEW u, u = (a - b) % W, u <= P!Lenth
  PROVE  (P!Lenth - a + b) % W = P!Lenth - u
<1> DEFINE l == P!Lenth
<1>1. l \in Nat \ {0} /\ l < W /\ W \in Nat \ {0}
  BY LenthIs
<1>2. u \in 0..(W - 1) /\ u = IF b <= a THEN a - b ELSE a - b + W
  BY UsedIs
<1>3. u <= l
  OBVIOUS
<1> HIDE DEF l
<1>4. (l - a + b) % W = l - u
  <2> DEFINE x == l - a + b
  <2>1. CASE b <= a
    <3>1. x \in Int /\ 0 <= x /\ x < W /\ x = l - u
      BY <1>1, <1>2, <1>3, <2>1
    <3> HIDE DEF x
    <3>2. x % W = x
      BY <1>1, <3>1
    <3> QED
      BY <3>1, <3>2 DEF x
  <2>2. CASE ~(b <= a)
    <3>1. x \in Int /\ W <= x /\ x < 2 * W /\ x - W = l - u
      BY <1>1, <1>2, <1>3, <2>2
    <3> HIDE DEF x
    <3>2. x % W = x - W
      BY <1>1, <3>1
    <3> QED
      BY <3>1, <3>2 DEF x
  <2> QED
    BY <2>1, <2>2
<1> QED
  BY <1>4 DEF l

\* An index wraps around at most once.
LEMMA AdvanceIs ==
  ASSUME NEW a \in 0..(W - 1), NEW n \in 0..(W - 1)
  PROVE  (a + n) % W \in 0..(W - 1) /\ (a + n) % W = IF a + n < W THEN a + n ELSE a + n - W
<1> DEFINE x == a + n
<1>1. x \in Int /\ 0 <= x /\ x < 2 * W
  BY LenthIs
<1> HIDE DEF x
<1>2. x % W \in 0..(W - 1) /\ x % W = IF x < W THEN x ELSE x - W
  <2>1. CASE x < W
    BY <1>1, <2>1, LenthIs
  <2>2. CASE ~(x < W)
    <3>1. x % W = x - W
      BY <1>1, <2>2, LenthIs
    <3>2. x - W \in 0..(W - 1)
      BY <1>1, <2>2, LenthIs
    <3> QED
      BY <2>2, <3>1, <3>2
  <2> QED
    BY <2>1, <2>2
<1>3. x - W = a + n - W
  BY LenthIs DEF x
<1> HIDE DEF x
<1> QED
  BY <1>2, <1>3, Zenon DEF x

\* In runs n ahead, Out m behind it.
LEMMA InAhead ==
  ASSUME NEW a \in 0..(W - 1), NEW b \in 0..(W - 1), NEW n \in 0..(W - 1),
         ((a - b) % W) + n < W
  PROVE  (((a + n) % W) - b) % W = ((a - b) % W) + n
<1> DEFINE u == (a - b) % W
           c == (a + n) % W
           v == (c - b) % W
<1>1. u \in 0..(W - 1) /\ u = IF b <= a THEN a - b ELSE a - b + W
  BY UsedIs
<1>2. c \in 0..(W - 1) /\ c = IF a + n < W THEN a + n ELSE a + n - W
  BY AdvanceIs
<1>3. u + n < W
  OBVIOUS
<1> HIDE DEF u, c
<1>4. v = IF b <= c THEN c - b ELSE c - b + W
  BY <1>2, UsedIs
<1> HIDE DEF v
<1>5. v = u + n
  BY <1>1, <1>2, <1>3, <1>4, LenthIs
<1> QED
  BY <1>5 DEF u, c, v

\* Out advanced by m leaves m bytes less.
LEMMA OutAhead ==
  ASSUME NEW a \in 0..(W - 1), NEW b \in 0..(W - 1), NEW m \in 0..(W - 1),
         m <= (a - b) % W
  PROVE  (a - ((b + m) % W)) % W = ((a - b) % W) - m
<1> DEFINE u == (a - b) % W
           c == (b + m) % W
           v == (a - c) % W
<1>1. u \in 0..(W - 1) /\ u = IF b <= a THEN a - b ELSE a - b + W
  BY UsedIs
<1>2. c \in 0..(W - 1) /\ c = IF b + m < W THEN b + m ELSE b + m - W
  BY AdvanceIs
<1>3. m <= u
  OBVIOUS
<1> HIDE DEF u, c
<1>4. v = IF c <= a THEN a - c ELSE a - c + W
  BY <1>2, UsedIs
<1> HIDE DEF v
<1>5. v = u - m
  BY <1>1, <1>2, <1>3, <1>4, LenthIs
<1> QED
  BY <1>5 DEF u, c, v

\* The place d elements behind x.
LEMMA PlaceIs ==
  ASSUME NEW x \in Int, NEW d \in 0..P!Lenth
  PROVE  /\ (x + d) % P!Lenth \in 0..(P!Lenth - 1)
         /\ (x + d) % P!Lenth = IF (x % P!Lenth) + d < P!Lenth THEN (x % P!Lenth) + d
                                ELSE (x % P!Lenth) + d - P!Lenth
<1>1. P!Lenth \in Nat \ {0} /\ x + d \in Int
  BY LenthIs
<1>2. (x + d) % P!Lenth \in 0..(P!Lenth - 1)
  BY <1>1, DivMod
<1> QED
  BY <1>1, <1>2, ModPlace

\* The place In stands at is the one behind the last used, through every wrap-around.
LEMMA InPlace ==
  ASSUME NEW a \in 0..(W - 1), NEW b \in 0..(W - 1), NEW u, u = (a - b) % W
  PROVE  a % P!Lenth = (b + u) % P!Lenth
<1>1. u \in 0..(W - 1) /\ u = IF b <= a THEN a - b ELSE a - b + W
  BY UsedIs
<1>2. (b + u) % W = a
  <2>1. (b + u) % W = IF b + u < W THEN b + u ELSE b + u - W
    BY <1>1, AdvanceIs
  <2> QED
    BY <1>1, <2>1, LenthIs
<1>3. ((b + u) % W) % P!Lenth = (b + u) % P!Lenth
  <2>1. b + u \in Int
    BY <1>1, LenthIs
  <2> QED
    BY <2>1, LenthIs, ModMod
<1> QED
  BY <1>2, <1>3

\* An index that was advanced keeps its places.
LEMMA OutPlace ==
  ASSUME NEW b \in 0..(W - 1), NEW m \in 0..P!Lenth, NEW d \in 0..P!Lenth
  PROVE  (((b + m) % W) + d) % P!Lenth = (b + (m + d)) % P!Lenth
<1> DEFINE c == (b + m) % W
<1>1. c \in Int /\ b + m \in Int /\ b + (m + d) = (b + m) + d
  BY LenthIs, DivMod
<1>2. c % P!Lenth = (b + m) % P!Lenth
  BY <1>1, LenthIs, ModMod
<1> HIDE DEF c
<1>3. (c + d) % P!Lenth = IF (c % P!Lenth) + d < P!Lenth THEN (c % P!Lenth) + d
                          ELSE (c % P!Lenth) + d - P!Lenth
  BY <1>1, PlaceIs
<1>4. ((b + m) + d) % P!Lenth = IF ((b + m) % P!Lenth) + d < P!Lenth
                                THEN ((b + m) % P!Lenth) + d
                                ELSE ((b + m) % P!Lenth) + d - P!Lenth
  BY <1>1, PlaceIs
<1> QED
  BY <1>1, <1>2, <1>3, <1>4 DEF c

PipeRing(o, n, b) == [i \in 1..n |-> b[(o + i - 1) % P!Lenth]]
PipeQueue == PipeRing(Out, P!Used, buffer)

\* The i-th place from o on.
LEMMA PlaceOf ==
  ASSUME NEW o \in 0..(W - 1), NEW i \in 1..P!Lenth
  PROVE  /\ (o + i - 1) % P!Lenth = (o + (i - 1)) % P!Lenth
         /\ (o + i - 1) % P!Lenth \in 0..(P!Lenth - 1)
<1>1. i - 1 \in 0..P!Lenth /\ o \in Int /\ o + i - 1 = o + (i - 1)
  BY LenthIs
<1>2. (o + (i - 1)) % P!Lenth \in 0..(P!Lenth - 1)
  BY <1>1, PlaceIs
<1> QED
  BY <1>1, <1>2

\* The bytes from Out on are a sequence.
LEMMA PipeSeq ==
  ASSUME NEW b \in [0..(P!Lenth - 1) -> Bytes], NEW o \in 0..(W - 1), NEW n \in 0..P!Lenth
  PROVE  PipeRing(o, n, b) \in Seq(Bytes) /\ Len(PipeRing(o, n, b)) = n
<1>0. \A i \in 1..n : i \in 1..P!Lenth
  BY LenthIs
<1>1. \A i \in 1..n : b[(o + i - 1) % P!Lenth] \in Bytes
  BY <1>0, PlaceOf
<1>2. PipeRing(o, n, b) \in [1..n -> Bytes]
  BY <1>1 DEF PipeRing
<1> QED
  BY <1>2, LenthIs

\* Rings that agree in the u places from o on, and one with s behind them.
Agree(b, c, o, u)   == \A i \in 1..u : c[(o + i - 1) % P!Lenth] = b[(o + i - 1) % P!Lenth]
Behind(c, o, u, s)  == \A j \in 1..Len(s) : c[(o + (u + j) - 1) % P!Lenth] = s[j]

\* Bytes copied behind the used ones come last in the queue.
LEMMA PipeGrows ==
  ASSUME NEW b \in [0..(P!Lenth - 1) -> Bytes], NEW c \in [0..(P!Lenth - 1) -> Bytes],
         NEW o \in 0..(W - 1), NEW u \in 0..P!Lenth, NEW s \in Seq(Bytes),
         u + Len(s) <= P!Lenth, Agree(b, c, o, u), Behind(c, o, u, s)
  PROVE  PipeRing(o, u + Len(s), c) = PipeRing(o, u, b) \o s
<1> DEFINE n == Len(s)
<1> DEFINE q == PipeRing(o, u, b)
           r == PipeRing(o, u + n, c)
<1>1. u \in Nat /\ n \in Nat /\ u + n \in 0..P!Lenth
  BY LenthIs
<1>0. /\ \A i \in 1..u : c[(o + i - 1) % P!Lenth] = b[(o + i - 1) % P!Lenth]
      /\ \A j \in 1..n : c[(o + (u + j) - 1) % P!Lenth] = s[j]
  BY DEF Agree, Behind
<1>2. q \in Seq(Bytes) /\ Len(q) = u
  BY PipeSeq
<1>3. r \in Seq(Bytes) /\ Len(r) = u + n
  BY <1>1, PipeSeq
<1>4. \A i \in 1..u : q[i] = b[(o + i - 1) % P!Lenth]
  BY DEF PipeRing
<1>5. \A i \in 1..(u + n) : r[i] = c[(o + i - 1) % P!Lenth]
  BY DEF PipeRing
<1> HIDE DEF q, r
<1>6. q \o s \in Seq(Bytes) /\ Len(q \o s) = u + n
  BY <1>1, <1>2, ConcatProperties
<1>7. \A i \in 1..(u + n) : r[i] = (q \o s)[i]
  <2> TAKE i \in 1..(u + n)
  <2>1. CASE i \in 1..u
    BY <1>0, <1>1, <1>2, <1>4, <1>5, <2>1
  <2>2. CASE i \notin 1..u
    <3> DEFINE j == i - u
    <3>1. j \in 1..n /\ i = u + j
      BY <1>1, <2>2
    <3>2. (q \o s)[i] = s[j]
      <4>1. (q \o s)[i] = IF i <= Len(q) THEN q[i] ELSE s[i - Len(q)]
        BY <1>1, <1>2, ConcatProperties
      <4> QED
        BY <1>1, <1>2, <2>2, <4>1
    <3>3. r[u + j] = c[(o + (u + j) - 1) % P!Lenth]
      BY <1>5, <3>1
    <3> HIDE DEF j
    <3> QED
      BY <1>0, <3>1, <3>2, <3>3
  <2> QED
    BY <2>1, <2>2
<1>8. r = q \o s
  BY <1>3, <1>6, <1>7, SeqEqual
<1> QED
  BY <1>8 DEF q, r

\* Without its first m elements the ring starts m places on.
LEMMA PipeTake ==
  ASSUME NEW b \in [0..(P!Lenth - 1) -> Bytes], NEW o \in 0..(W - 1),
         NEW u \in 0..P!Lenth, NEW m \in 0..u
  PROVE  /\ SubSeq(PipeRing(o, u, b), 1, m) = PipeRing(o, m, b)
         /\ SubSeq(PipeRing(o, u, b), m + 1, u) = PipeRing((o + m) % W, u - m, b)
<1> DEFINE q == PipeRing(o, u, b)
           p == (o + m) % W
<1>1. u \in Nat /\ m \in Nat /\ m \in 0..P!Lenth /\ u - m \in 0..P!Lenth
  BY LenthIs
<1>2. q \in Seq(Bytes) /\ Len(q) = u
  BY PipeSeq
<1>3. \A i \in 1..u : q[i] = b[(o + i - 1) % P!Lenth]
  BY DEF PipeRing
<1>4. \A i \in 1..(u - m) : (p + i - 1) % P!Lenth = (o + (i + m) - 1) % P!Lenth
  <2> TAKE i \in 1..(u - m)
  <2>1. p \in 0..(W - 1) /\ i \in 1..P!Lenth /\ i + m \in 1..P!Lenth /\ i - 1 \in 0..P!Lenth
    BY <1>1, LenthIs, AdvanceIs
  <2>2. (p + i - 1) % P!Lenth = (p + (i - 1)) % P!Lenth
    BY <2>1, PlaceOf
  <2>3. (p + (i - 1)) % P!Lenth = (o + (m + (i - 1))) % P!Lenth
    BY <1>1, <2>1, OutPlace
  <2>4. o + (m + (i - 1)) = o + (i + m) - 1
    BY <1>1, LenthIs
  <2> QED
    BY <2>2, <2>3, <2>4
<1> HIDE DEF q, p
<1>5. SubSeq(q, 1, m) = [i \in 1..m |-> q[i]]
  BY <1>1, <1>2
<1>6. SubSeq(q, m + 1, u) = [i \in 1..(u - m) |-> q[i + m]]
  BY <1>1, <1>2
<1>7. \A i \in 1..m : q[i] = b[(o + i - 1) % P!Lenth]
  BY <1>1, <1>3
<1>8. \A i \in 1..(u - m) : q[i + m] = b[(p + i - 1) % P!Lenth]
  <2> TAKE i \in 1..(u - m)
  <2>1. i + m \in 1..u
    BY <1>1
  <2> QED
    BY <1>3, <1>4, <2>1
<1>9. SubSeq(q, 1, m) = PipeRing(o, m, b)
  BY <1>5, <1>7 DEF PipeRing
<1>10. SubSeq(q, m + 1, u) = PipeRing(p, u - m, b)
  BY <1>6, <1>8 DEF PipeRing
<1> QED
  BY <1>9, <1>10 DEF q, p

-----------------------------------------------------------------------------
\* What the two memcpys of pipe_write and of pipe_read do, in terms of places.
PipeTyped ==
  /\ In \in 0..(W - 1) /\ Out \in 0..(W - 1)
  /\ buffer \in [0..(P!Lenth - 1) -> Bytes]
  /\ P!Used <= P!Lenth

\* The two memcpy of pipe_write, byte by byte.
LEMMA CopiedIs ==
  ASSUME PipeTyped, NEW s \in Seq(Data), NEW n \in 0..P!Lenth, n <= Len(s)
  PROVE  /\ P!Copied(s, n) \in [0..(P!Lenth - 1) -> Bytes]
         /\ \A d \in 0..(P!Lenth - 1) :
              P!Copied(s, n)[(In + d) % P!Lenth] = IF d < n THEN s[d + 1]
                                                   ELSE buffer[(In + d) % P!Lenth]
<1> DEFINE l    == P!Lenth
           at   == In % l
           size == P!min(n, l - at)
           new  == P!Copied(s, n)
<1>1. l \in Nat \ {0} /\ In \in Int /\ buffer \in [0..(l - 1) -> Bytes] /\ n \in 0..l
  BY LenthIs DEF PipeTyped
<1>2. at \in 0..(l - 1)
  BY <1>1, DivMod
<1>3. new = [i \in 0..(l - 1) |->
               CASE i >= at /\ i - at < size -> s[i - at + 1]
                 [] i < n - size             -> s[size + i + 1]
                 [] OTHER                    -> buffer[i]]
  BY <1>1 DEF P!Copied
<1>4. \A d \in 0..(l - 1) :
        /\ (In + d) % l \in 0..(l - 1)
        /\ (In + d) % l = IF at + d < l THEN at + d ELSE at + d - l
  <2> TAKE d \in 0..(l - 1)
  <2>1. d \in 0..P!Lenth
    BY <1>1
  <2> QED
    BY <1>1, <2>1, PlaceIs
<1>5. size = IF n <= l - at THEN n ELSE l - at
  BY DEF P!min
<1> HIDE DEF l, at, size, new
<1>6. \A i \in 0..(l - 1) :
        /\ i >= at /\ i - at < size => new[i] = s[i - at + 1]
        /\ i < n - size             => new[i] = s[size + i + 1]
        /\ ~(i >= at /\ i - at < size) /\ ~(i < n - size) => new[i] = buffer[i]
  <2> TAKE i \in 0..(l - 1)
  <2>1. new[i] = CASE i >= at /\ i - at < size -> s[i - at + 1]
                   [] i < n - size             -> s[size + i + 1]
                   [] OTHER                    -> buffer[i]
    BY <1>3
  <2>2. ~((i >= at /\ i - at < size) /\ i < n - size)
    BY <1>1, <1>2, <1>5
  <2> QED
    BY <2>1, <2>2
<1>7. \A d \in 0..(l - 1) : new[(In + d) % l] = IF d < n THEN s[d + 1] ELSE buffer[(In + d) % l]
  <2> TAKE d \in 0..(l - 1)
  <2> DEFINE p == (In + d) % l
  <2>1. p \in 0..(l - 1) /\ p = IF at + d < l THEN at + d ELSE at + d - l
    BY <1>4
  <2> HIDE DEF p
  <2>2. new[p] = IF d < n THEN s[d + 1] ELSE buffer[p]
    <3>1. CASE d < n /\ p >= at /\ p - at < size
      <4>1. p - at + 1 = d + 1
        BY <1>1, <1>2, <1>5, <2>1, <3>1
      <4> QED
        BY <1>6, <2>1, <3>1, <4>1
    <3>2. CASE d < n /\ ~(p >= at /\ p - at < size)
      <4>1. p < n - size /\ size + p + 1 = d + 1
        BY <1>1, <1>2, <1>5, <2>1, <3>2
      <4> QED
        BY <1>6, <2>1, <3>2, <4>1
    <3>3. CASE ~(d < n)
      <4>1. ~(p >= at /\ p - at < size) /\ ~(p < n - size)
        BY <1>1, <1>2, <1>5, <2>1, <3>3
      <4> QED
        BY <1>6, <2>1, <3>3, <4>1
    <3> QED
      BY <3>1, <3>2, <3>3
  <2> QED
    BY <2>2 DEF p
<1>8. \A j \in 1..n : s[j] \in Bytes
  <2>1. \A j \in 1..Len(s) : s[j] \in Data
    OBVIOUS
  <2>2. Len(s) \in Nat /\ n \in Nat
    BY <1>1
  <2> QED
    BY <2>1, <2>2 DEF Bytes
<1>9. \A i \in 0..(l - 1) : new[i] \in Bytes
  <2> TAKE i \in 0..(l - 1)
  <2>1. CASE i >= at /\ i - at < size
    <3>1. i - at + 1 \in 1..n
      BY <1>1, <1>2, <1>5, <2>1
    <3>2. new[i] = s[i - at + 1]
      BY <1>6, <2>1
    <3> QED
      BY <1>8, <3>1, <3>2
  <2>2. CASE ~(i >= at /\ i - at < size) /\ i < n - size
    <3>1. size + i + 1 \in 1..n
      BY <1>1, <1>2, <1>5, <2>2
    <3>2. new[i] = s[size + i + 1]
      BY <1>6, <2>2
    <3> QED
      BY <1>8, <3>1, <3>2
  <2>3. CASE ~(i >= at /\ i - at < size) /\ ~(i < n - size)
    BY <1>1, <1>6, <2>3
  <2> QED
    BY <2>1, <2>2, <2>3
<1>10. new \in [0..(l - 1) -> Bytes]
  BY <1>3, <1>9
<1> QED
  BY <1>7, <1>10 DEF l, new

\* The two memcpy of pipe_read return the bytes from Out on.
LEMMA TakenIs ==
  ASSUME PipeTyped, NEW m \in 0..P!Lenth
  PROVE  P!Taken(m) = PipeRing(Out, m, buffer)
<1> DEFINE l    == P!Lenth
           at   == Out % l
           size == P!min(m, l - at)
<1>1. l \in Nat \ {0} /\ Out \in 0..(W - 1) /\ Out \in Int /\ m \in 0..l
  BY LenthIs DEF PipeTyped
<1>2. at \in 0..(l - 1)
  BY <1>1, DivMod
<1>3. P!Taken(m) = [i \in 1..m |-> IF i <= size THEN buffer[at + i - 1] ELSE buffer[i - size - 1]]
  BY DEF P!Taken
<1>4. size = IF m <= l - at THEN m ELSE l - at
  BY DEF P!min
<1>5. \A i \in 1..m : (Out + i - 1) % l = IF i <= size THEN at + i - 1 ELSE i - size - 1
  <2> TAKE i \in 1..m
  <2>1. i \in 1..l /\ i - 1 \in 0..l
    BY <1>1
  <2> DEFINE p == (Out + i - 1) % l
  <2>2. p = (Out + (i - 1)) % l
    BY <1>1, <2>1, PlaceOf
  <2>3. (Out + (i - 1)) % l = IF at + (i - 1) < l THEN at + (i - 1) ELSE at + (i - 1) - l
    BY <1>1, <2>1, PlaceIs
  <2>4. p = IF at + (i - 1) < l THEN at + (i - 1) ELSE at + (i - 1) - l
    BY <2>2, <2>3
  <2> HIDE DEF p, at, size, l
  <2>5. p = IF i <= size THEN at + i - 1 ELSE i - size - 1
    BY <1>1, <1>2, <1>4, <2>1, <2>4
  <2> QED
    BY <2>5 DEF p
<1> HIDE DEF at, size
<1>6. \A i \in 1..m : buffer[(Out + i - 1) % l]
                       = IF i <= size THEN buffer[at + i - 1] ELSE buffer[i - size - 1]
  BY <1>5
<1> HIDE DEF l
<1> QED
  BY <1>3, <1>6 DEF PipeRing, l

\* In - Out is the number of bytes held, and at most the length.
LEMMA UsedTyped ==
  ASSUME PipeTyped
  PROVE  /\ P!Used \in 0..P!Lenth /\ P!Room = P!Lenth - P!Used
         /\ P!Used = 0 <=> In = Out
<1>1. P!Used \in 0..(W - 1) /\ P!Used = IF Out <= In THEN In - Out ELSE In - Out + W
  BY UsedIs DEF PipeTyped, P!Used
<1>2. In \in 0..(W - 1) /\ Out \in 0..(W - 1) /\ P!Used <= P!Lenth
  BY DEF PipeTyped
<1>3. P!Used \in 0..P!Lenth /\ (P!Used = 0 <=> In = Out)
  BY <1>1, <1>2, LenthIs
<1>4. P!Room = P!Lenth - P!Used
  BY <1>2, RoomIs DEF P!Room, P!Used
<1> QED
  BY <1>3, <1>4

\* The places used, and those behind them, counted from In on.
LEMMA PlacesFromIn ==
  ASSUME PipeTyped
  PROVE  /\ \A i \in 1..P!Used :
              (Out + i - 1) % P!Lenth = (In + (P!Lenth - P!Used + (i - 1))) % P!Lenth
         /\ \A j \in 1..(P!Lenth - P!Used) :
              (Out + (P!Used + j) - 1) % P!Lenth = (In + (j - 1)) % P!Lenth
<1> DEFINE l == P!Lenth
           u == P!Used
           o == Out % l
           a == In % l
<1>1. /\ l \in Nat \ {0} /\ In \in 0..(W - 1) /\ Out \in 0..(W - 1) /\ u \in 0..l
      /\ In \in Int /\ Out \in Int
  BY LenthIs, UsedTyped DEF PipeTyped
<1>2. o \in 0..(l - 1) /\ a \in 0..(l - 1)
  BY <1>1, DivMod
<1>3. a = IF o + u < l THEN o + u ELSE o + u - l
  <2>1. a = (Out + u) % l
    BY <1>1, InPlace DEF P!Used
  <2>2. (Out + u) % l = IF o + u < l THEN o + u ELSE o + u - l
    BY <1>1, PlaceIs
  <2> QED
    BY <2>1, <2>2
<1>4. ASSUME NEW i \in 1..u
      PROVE  (Out + i - 1) % l = (In + (l - u + (i - 1))) % l
  <2> DEFINE d == l - u + (i - 1)
             x == (Out + (i - 1)) % l
             y == (In + d) % l
  <2>1. i \in 1..l /\ i - 1 \in 0..l /\ d \in 0..l
    BY <1>1
  <2>2. x = IF o + (i - 1) < l THEN o + (i - 1) ELSE o + (i - 1) - l
    BY <1>1, <2>1, PlaceIs
  <2>3. y = IF a + d < l THEN a + d ELSE a + d - l
    BY <1>1, <2>1, PlaceIs
  <2>4. (Out + i - 1) % l = x
    BY <1>1, <2>1, PlaceOf
  <2> HIDE DEF x, y, l, u, o, a
  <2>5. x = y
    BY <1>1, <1>2, <1>3, <2>1, <2>2, <2>3
  <2> QED
    BY <2>4, <2>5 DEF y
<1>5. ASSUME NEW j \in 1..(l - u)
      PROVE  (Out + (u + j) - 1) % l = (In + (j - 1)) % l
  <2> DEFINE d == u + j - 1
             x == (Out + d) % l
             y == (In + (j - 1)) % l
  <2>1. u + j \in 1..l /\ j - 1 \in 0..l /\ d \in 0..l /\ (u + j) - 1 = d
    BY <1>1
  <2>2. x = IF o + d < l THEN o + d ELSE o + d - l
    BY <1>1, <2>1, PlaceIs
  <2>3. y = IF a + (j - 1) < l THEN a + (j - 1) ELSE a + (j - 1) - l
    BY <1>1, <2>1, PlaceIs
  <2>4. (Out + (u + j) - 1) % l = x
    <3>1. (Out + (u + j) - 1) % l = (Out + ((u + j) - 1)) % l
      BY <1>1, <2>1, PlaceOf
    <3> QED
      BY <2>1, <3>1
  <2> HIDE DEF x, y, l, u, o, a
  <2>5. x = y
    BY <1>1, <1>2, <1>3, <2>1, <2>2, <2>3
  <2> QED
    BY <2>4, <2>5 DEF y
<1> QED
  BY <1>4, <1>5

\* What P!Queue's actions are, said of PipeQueue.
LEMMA PipePutIs ==
  ASSUME NEW n \in 0..P!Lenth, NEW s \in [1..n -> Data], wrote' = s, UNCHANGED gave,
         PipeQueue' = PipeQueue \o s, Len(PipeQueue) + Len(s) <= P!Lenth
  PROVE  P!Queue!FifoNext
<1>1. P!Queue!Put(s)
  BY Zenon DEF P!Queue!Put, PipeQueue, PipeRing
<1> QED
  BY <1>1, Zenon DEF P!Queue!FifoNext

\* A read is a Take of the queue.
LEMMA PipeTakeIs ==
  ASSUME NEW m \in 1..Len(PipeQueue), gave' = SubSeq(PipeQueue, 1, m), UNCHANGED wrote,
         PipeQueue' = SubSeq(PipeQueue, m + 1, Len(PipeQueue))
  PROVE  P!Queue!FifoNext
<1>1. P!Queue!Take(m)
  BY Zenon DEF P!Queue!Take, PipeQueue, PipeRing
<1> QED
  BY <1>1, Zenon DEF P!Queue!FifoNext, PipeQueue, PipeRing

\* In moves over n elements of s that stand, or are put, behind it.
LEMMA AddedIsPut ==
  ASSUME PipeTyped, NEW s \in Seq(Data), NEW n \in 0..P!Lenth, n <= Len(s),
         P!Used + n <= P!Lenth, In' = (In + n) % W, UNCHANGED <<Out, gave>>,
         wrote' = SubSeq(s, 1, n), buffer' \in [0..(P!Lenth - 1) -> Bytes],
         \A d \in 0..(P!Lenth - 1) :
           buffer'[(In + d) % P!Lenth] = IF d < n THEN s[d + 1] ELSE buffer[(In + d) % P!Lenth]
  PROVE  PipeTyped' /\ P!Queue!FifoNext
<1> DEFINE u == P!Used
           p == SubSeq(s, 1, n)
<1>1. u \in 0..P!Lenth /\ n \in 0..(W - 1) /\ u + n \in 0..P!Lenth
  BY UsedTyped, LenthIs
<1>2. P!Used' = u + n
  <2>1. In \in 0..(W - 1) /\ Out \in 0..(W - 1) /\ ((In - Out) % W) + n < W
    BY <1>1, LenthIs DEF PipeTyped, P!Used
  <2>2. (((In + n) % W) - Out) % W = ((In - Out) % W) + n
    BY <1>1, <2>1, InAhead
  <2> QED
    BY <2>2 DEF P!Used
<1>3. PipeTyped'
  <2>1. In' \in 0..(W - 1)
    BY <1>1, AdvanceIs DEF PipeTyped
  <2> QED
    BY <1>1, <1>2, <2>1 DEF PipeTyped
<1> HIDE DEF u
<1>4. p \in Seq(Data) /\ Len(p) = n /\ p \in [1..n -> Data] /\ \A j \in 1..n : p[j] = s[j]
  <2>1. n \in Nat /\ Len(s) \in Nat
    BY LenthIs
  <2>2. p = [j \in 1..n |-> s[j]]
    BY <2>1
  <2> HIDE DEF p
  <2>3. \A j \in 1..n : s[j] \in Data
    BY <2>1
  <2>4. p \in [1..n -> Data] /\ \A j \in 1..n : p[j] = s[j]
    BY <2>2, <2>3
  <2> QED
    BY <2>1, <2>4
<1> HIDE DEF p
<1>5. p \in Seq(Bytes)
  <2>1. Data \subseteq Bytes
    BY DEF Bytes
  <2>2. p \in [1..n -> Bytes]
    BY <1>4, <2>1
  <2> QED
    BY <2>2, LenthIs
<1>6. \A i \in 1..u : buffer'[(Out + i - 1) % P!Lenth] = buffer[(Out + i - 1) % P!Lenth]
  <2> TAKE i \in 1..u
  <2> DEFINE d == P!Lenth - u + (i - 1)
  <2>1. d \in 0..(P!Lenth - 1) /\ ~(d < n)
    BY <1>1, LenthIs
  <2>2. (Out + i - 1) % P!Lenth = (In + d) % P!Lenth
    BY PlacesFromIn DEF u
  <2> HIDE DEF d
  <2> QED
    BY <2>1, <2>2
<1>7. \A j \in 1..n : buffer'[(Out + (u + j) - 1) % P!Lenth] = p[j]
  <2> TAKE j \in 1..n
  <2> DEFINE d == j - 1
  <2>1. d \in 0..(P!Lenth - 1) /\ d < n /\ d + 1 = j /\ j \in 1..(P!Lenth - u)
    BY <1>1, LenthIs
  <2>2. (Out + (u + j) - 1) % P!Lenth = (In + d) % P!Lenth
    BY <2>1, PlacesFromIn DEF u
  <2> HIDE DEF d
  <2>3. buffer'[(In + d) % P!Lenth] = s[j]
    BY <2>1
  <2> QED
    BY <1>4, <2>2, <2>3
<1>8. PipeRing(Out, u + Len(p), buffer') = PipeRing(Out, u, buffer) \o p
  <2>1. buffer \in [0..(P!Lenth - 1) -> Bytes] /\ Out \in 0..(W - 1) /\ u + n <= P!Lenth
    BY <1>1 DEF PipeTyped
  <2>2. Agree(buffer, buffer', Out, u) /\ Behind(buffer', Out, u, p)
    BY <1>4, <1>6, <1>7 DEF Agree, Behind
  <2>3. u \in 0..P!Lenth /\ u + Len(p) <= P!Lenth
    BY <1>1, <1>4
  <2> QED
    BY <1>5, <2>1, <2>2, <2>3, PipeGrows, ZenonT(30)
<1>9. PipeQueue' = PipeQueue \o p
  BY <1>2, <1>4, <1>8 DEF PipeQueue, PipeRing, u
<1>10. Len(PipeQueue) = u
  BY <1>1, PipeSeq DEF PipeTyped, PipeQueue, u
<1>11. Len(PipeQueue) + Len(p) <= P!Lenth
  BY <1>1, <1>4, <1>10 DEF u
<1>12. wrote' = p /\ UNCHANGED gave
  BY DEF p
<1>13. P!Queue!FifoNext
  BY <1>4, <1>9, <1>11, <1>12, PipePutIs
<1> QED
  BY <1>3, <1>13

\* The oldest elements are read.
LEMMA ReadIsTake ==
  ASSUME PipeTyped, NEW n \in 1..MaxChunk, P!ReadOut(n), In # Out
  PROVE  PipeTyped' /\ P!Used' \in Nat /\ P!Used' <= P!Used /\ P!Queue!FifoNext
<1> DEFINE u == P!Used
           m == P!min(n, u)
<1>1. Out' = (Out + m) % W /\ gave' = P!Taken(m) /\ UNCHANGED <<In, buffer, wrote>>
  BY DEF P!ReadOut
<1>2. u \in 0..P!Lenth /\ u # 0 /\ n \in 1..MaxChunk
  BY UsedTyped
<1>3. m \in 1..u /\ m \in 0..u /\ m \in 0..P!Lenth /\ m \in 0..(W - 1)
  BY <1>2, LenthIs DEF P!min
<1>4. Out \in 0..(W - 1) /\ In \in 0..(W - 1) /\ buffer \in [0..(P!Lenth - 1) -> Bytes]
  BY DEF PipeTyped
<1> HIDE DEF m
<1>5. P!Used' = u - m
  <2>1. m <= (In - Out) % W
    BY <1>3 DEF P!Used
  <2>2. (In - ((Out + m) % W)) % W = ((In - Out) % W) - m
    BY <1>3, <1>4, <2>1, OutAhead
  <2> QED
    BY <1>1, <2>2 DEF P!Used
<1> HIDE DEF u
<1>6. PipeTyped'
  <2>1. Out' \in 0..(W - 1)
    BY <1>1, <1>3, <1>4, AdvanceIs
  <2>2. u - m <= P!Lenth
    BY <1>2, <1>3, LenthIs
  <2> QED
    BY <1>1, <1>4, <1>5, <2>1, <2>2 DEF PipeTyped
<1>7. P!Used' \in Nat /\ P!Used' <= u
  BY <1>2, <1>3, <1>5, LenthIs
<1>8. PipeQueue = PipeRing(Out, u, buffer) /\ Len(PipeQueue) = u
  BY <1>2, <1>4, PipeSeq DEF PipeQueue, u
<1>9. PipeQueue' = PipeRing((Out + m) % W, u - m, buffer)
  BY <1>1, <1>5 DEF PipeQueue, PipeRing
<1>10. gave' = PipeRing(Out, m, buffer)
  BY <1>1, <1>3, TakenIs
<1>11. /\ SubSeq(PipeRing(Out, u, buffer), 1, m) = PipeRing(Out, m, buffer)
       /\ SubSeq(PipeRing(Out, u, buffer), m + 1, u) = PipeRing((Out + m) % W, u - m, buffer)
  BY <1>2, <1>3, <1>4, PipeTake
<1>12. /\ m \in 1..Len(PipeQueue) /\ gave' = SubSeq(PipeQueue, 1, m) /\ UNCHANGED wrote
       /\ PipeQueue' = SubSeq(PipeQueue, m + 1, Len(PipeQueue))
  BY <1>1, <1>3, <1>8, <1>9, <1>10, <1>11, Zenon
<1>13. P!Queue!FifoNext
  BY <1>12, PipeTakeIs
<1> QED
  BY <1>6, <1>7, <1>13 DEF u

-----------------------------------------------------------------------------
Copying == {"copy", "commit"}

PipeLocals ==
  /\ pc \in [Tcb -> PipePC]
  /\ chunk \in [Threads -> Seq(Data)] /\ length \in [Threads -> Nat]

\* The length fits into the room, and what was copied stands behind In.
Fits(t)   == length[t] <= Len(chunk[t]) /\ P!Used + length[t] <= P!Lenth
Stands(t) == \A d \in 0..(length[t] - 1) : buffer[(In + d) % P!Lenth] = chunk[t][d + 1]

OneWrite ==
  /\ \A t, u \in Threads : pc[t] \in Copying /\ pc[u] \in Copying => t = u
  /\ \A t \in Threads : pc[t] \in Copying => Fits(t)
  /\ \A t \in Threads : pc[t] = "commit" => Stands(t)

PipeInv == PipeTyped /\ PipeLocals /\ OneWrite

fifoOfPipe == <<PipeQueue, wrote, gave>>

\* Reads, and steps that do not concern the pipe.
LEMMA WriterKept ==
  ASSUME PipeInv, UNCHANGED <<In, buffer>>, P!Used' \in Nat, P!Used' <= P!Used, PipeLocals',
         \A t \in Threads : pc'[t] \in Copying => UNCHANGED <<pc[t], chunk[t], length[t]>>
  PROVE  OneWrite'
<1>1. \A t \in Threads : pc'[t] \in Copying => pc[t] \in Copying
  OBVIOUS
<1>2. \A t, u \in Threads : pc'[t] \in Copying /\ pc'[u] \in Copying => t = u
  BY <1>1 DEF PipeInv, OneWrite
<1>3. ASSUME NEW t \in Threads, pc'[t] \in Copying
      PROVE  Fits(t)'
  <2>1. Fits(t) /\ UNCHANGED <<chunk[t], length[t]>>
    BY <1>1, <1>3 DEF PipeInv, OneWrite
  <2>2. length[t] \in Nat /\ P!Used \in Nat /\ P!Lenth \in Nat
    BY UsedTyped, LenthIs DEF PipeInv, PipeLocals
  <2> QED
    BY <2>1, <2>2 DEF Fits, P!Lenth
<1>4. ASSUME NEW t \in Threads, pc'[t] = "commit"
      PROVE  Stands(t)'
  <2>1. pc'[t] \in Copying
    BY <1>4 DEF Copying
  <2>2. Stands(t) /\ UNCHANGED <<chunk[t], length[t]>>
    BY <1>4, <2>1 DEF PipeInv, OneWrite
  <2> QED
    BY <2>2 DEF Stands
<1> QED
  BY <1>2, <1>3, <1>4 DEF OneWrite

\* A step that leaves indices, buffer and the writers that copy alone.
LEMMA QuietPipe ==
  ASSUME PipeInv, UNCHANGED <<In, Out, buffer, wrote, gave>>, PipeLocals',
         \A t \in Threads : pc'[t] \in Copying => UNCHANGED <<pc[t], chunk[t], length[t]>>
  PROVE  PipeInv' /\ UNCHANGED fifoOfPipe
<1>1. P!Used' = P!Used
  BY DEF P!Used
<1>2. PipeTyped' /\ UNCHANGED fifoOfPipe
  BY <1>1 DEF PipeInv, PipeTyped, fifoOfPipe, PipeQueue, PipeRing
<1>3. P!Used' \in Nat /\ P!Used' <= P!Used
  BY <1>1, UsedTyped, LenthIs DEF PipeInv
<1> QED
  BY <1>2, <1>3, WriterKept DEF PipeInv

\* The kernel does.
LEMMA KernelPipe ==
  ASSUME PipeInv, P!KernelStep, UNCHANGED <<P!pipe, P!locals>>
  PROVE  PipeInv' /\ UNCHANGED fifoOfPipe
<1>1. pc' = pc \/ \E t \in Threads : pc[t] = "blocked" /\ pc' = [pc EXCEPT ![t] = "waiting"]
  BY DEF P!KernelStep, P!Shift, P!OtherTick, P!Switch, P!Expire
<1>2. UNCHANGED <<In, Out, buffer, wrote, gave, chunk, length>>
  BY DEF P!pipe, P!locals
<1>3. PipeLocals'
  BY <1>1, <1>2, ThreadsAre DEF PipeInv, PipeLocals, PipePC
<1>4. \A t \in Threads : pc'[t] \in Copying => UNCHANGED <<pc[t], chunk[t], length[t]>>
  BY <1>1, <1>2, ThreadsAre DEF PipeInv, PipeLocals, Copying
<1> QED
  BY <1>2, <1>3, <1>4, QuietPipe

\* What a thread does to pc and its locals outside of the copy.
LEMMA OutsideCopy ==
  ASSUME PipeInv, NEW t \in Threads, NEW to \in {"run", "blocked", "ready", "return"},
         pc' = [pc EXCEPT ![t] = to], P!Returned(t) \/ UNCHANGED <<chunk, length>>
  PROVE  /\ PipeLocals'
         /\ \A u \in Threads : pc'[u] \in Copying => UNCHANGED <<pc[u], chunk[u], length[u]>>
<1>1. pc \in [Tcb -> PipePC] /\ chunk \in [Threads -> Seq(Data)] /\ length \in [Threads -> Nat]
  BY DEF PipeInv, PipeLocals
<1>2. pc' \in [Tcb -> PipePC]
  BY <1>1 DEF PipePC, P!Writing
<1>3. chunk' \in [Threads -> Seq(Data)] /\ length' \in [Threads -> Nat]
  <2>1. << >> \in Seq(Data) /\ 0 \in Nat
    OBVIOUS
  <2> QED
    BY <1>1, <2>1 DEF P!Returned
<1>4. ASSUME NEW u \in Threads, pc'[u] \in Copying
      PROVE  UNCHANGED <<pc[u], chunk[u], length[u]>>
  <2>1. u # t
    BY <1>1, <1>4, ThreadsAre DEF Copying
  <2>2. pc'[u] = pc[u]
    BY <1>1, <2>1, ThreadsAre
  <2>3. chunk'[u] = chunk[u] /\ length'[u] = length[u]
    BY <1>1, <2>1 DEF P!Returned
  <2> QED
    BY <2>2, <2>3
<1> QED
  BY <1>2, <1>3, <1>4 DEF PipeLocals

\* So do the steps of a thread before and after the copying.
LEMMA OutsidePipe ==
  ASSUME PipeInv, NEW t \in Threads,
         \/ \E timed \in BOOLEAN : P!Wait(t, timed)
         \/ P!WriteLook(t) \/ P!WriteReady(t) \/ P!WriteReturns(t)
         \/ \E n \in 1..MaxChunk : P!Resume(t, n) /\ In = Out
         \/ P!Free(t) /\ UNCHANGED <<In, Out, buffer, pReadThread, wrote, gave, P!locals>>
  PROVE  PipeInv' /\ UNCHANGED fifoOfPipe
<1>1. UNCHANGED <<In, Out, buffer, wrote, gave>>
  BY DEF P!Wait, P!WriteLook, P!WriteReady, P!WriteReturns, P!Resume, P!Free, P!pipe
<1>2. P!Returned(t) \/ UNCHANGED <<chunk, length>>
  BY DEF P!Wait, P!WriteLook, P!WriteReady, P!WriteReturns, P!Resume, P!Free, P!locals
<1>3. \E to \in {"run", "blocked", "ready", "return"} : pc' = [pc EXCEPT ![t] = to]
  <2>1. CASE \E timed \in BOOLEAN : P!Wait(t, timed)
    BY <2>1 DEF P!Wait
  <2>2. CASE \/ P!WriteLook(t) \/ P!WriteReady(t) \/ P!WriteReturns(t)
             \/ \E n \in 1..MaxChunk : P!Resume(t, n) /\ In = Out
    BY <2>2 DEF P!WriteLook, P!WriteReady, P!WriteReturns, P!Resume, P!Returned
  <2>3. CASE P!Free(t)
    <3>1. pc[t] = "run" /\ pc' = pc
      BY <2>3 DEF P!Free, P!Calls, P!sched
    <3>2. pc' = [pc EXCEPT ![t] = "run"]
      BY <3>1, ThreadsAre DEF PipeInv, PipeLocals
    <3> QED
      BY <3>2
  <2> QED
    BY <2>1, <2>2, <2>3
<1> QED
  BY <1>1, <1>2, <1>3, OutsideCopy, QuietPipe

\* pipe_read takes bytes out.
LEMMA ReadPipe ==
  ASSUME PipeInv, NEW t \in Threads, NEW n \in 1..MaxChunk, In # Out,
         P!ReadNow(t, n) \/ P!Resume(t, n)
  PROVE  PipeInv' /\ P!Queue!FifoNext
<1>1. P!ReadOut(n) /\ UNCHANGED <<chunk, length, In, buffer>>
  BY DEF P!ReadNow, P!Resume, P!ReadOut, P!locals
<1>2. pc' = [pc EXCEPT ![t] = "run"]
  <2>1. CASE P!ReadNow(t, n)
    BY <2>1, ThreadsAre DEF P!ReadNow, P!Calls, P!sched, PipeInv, PipeLocals
  <2>2. CASE P!Resume(t, n)
    BY <2>2 DEF P!Resume
  <2> QED
    BY <2>1, <2>2
<1>3. /\ PipeLocals'
      /\ \A u \in Threads : pc'[u] \in Copying => UNCHANGED <<pc[u], chunk[u], length[u]>>
  BY <1>1, <1>2, OutsideCopy
<1>4. PipeTyped' /\ P!Used' \in Nat /\ P!Used' <= P!Used /\ P!Queue!FifoNext
  BY <1>1, ReadIsTake DEF PipeInv
<1> QED
  BY <1>1, <1>3, <1>4, WriterKept DEF PipeInv

\* The length pipe_write goes by.
LEMMA LengthIs ==
  ASSUME PipeTyped, NEW s \in P!Chunks
  PROVE  /\ s \in Seq(Data)
         /\ P!min(Len(s), P!Room) \in 0..P!Lenth /\ P!min(Len(s), P!Room) <= Len(s)
         /\ P!Used + P!min(Len(s), P!Room) <= P!Lenth
<1>1. PICK k \in 1..MaxChunk : s \in [1..k -> Data]
  BY DEF P!Chunks
<1>2. s \in Seq(Data) /\ Len(s) \in Nat
  BY <1>1, LenthIs
<1>3. P!Used \in 0..P!Lenth /\ P!Room = P!Lenth - P!Used
  BY UsedTyped
<1> QED
  BY <1>2, <1>3, LenthIs DEF P!min

\* pipe_write looks for room.
LEMMA WritePipe ==
  ASSUME PipeInv, "single" \in Careful, NEW t \in Threads, NEW s \in P!Chunks, P!Write(t, s)
  PROVE  PipeInv' /\ UNCHANGED fifoOfPipe
<1> DEFINE n == P!min(Len(s), P!Room)
<1>1. /\ pc[t] = "run" /\ P!Exclusive(t) /\ chunk' = [chunk EXCEPT ![t] = s]
      /\ length' = [length EXCEPT ![t] = n] /\ pc' = [pc EXCEPT ![t] = "copy"]
      /\ UNCHANGED <<In, Out, buffer, wrote, gave>>
  BY DEF P!Write, P!Calls, P!pipe
<1>2. s \in Seq(Data) /\ n \in 0..P!Lenth /\ n \in Nat /\ n <= Len(s) /\ P!Used + n <= P!Lenth
  BY LengthIs, LenthIs DEF PipeInv
<1> HIDE DEF n
<1>3. pc'[t] = "copy" /\ chunk'[t] = s /\ length'[t] = n
  BY <1>1, ThreadsAre DEF PipeInv, PipeLocals
<1>4. \A u \in Threads \ {t} : pc'[u] = pc[u] /\ pc'[u] \notin Copying
  BY <1>1, ThreadsAre DEF PipeInv, PipeLocals, P!Exclusive, P!Writing, Copying
<1>5. PipeLocals'
  BY <1>1, <1>2 DEF PipeInv, PipeLocals, PipePC, P!Writing
<1>6. P!Used' = P!Used
  BY <1>1 DEF P!Used
<1>7. PipeTyped' /\ UNCHANGED fifoOfPipe
  BY <1>1, <1>6 DEF PipeInv, PipeTyped, fifoOfPipe, PipeQueue, PipeRing
<1>8. Fits(t)'
  BY <1>2, <1>3, <1>6 DEF Fits
<1>9. OneWrite'
  BY <1>3, <1>4, <1>8 DEF OneWrite, Copying
<1> QED
  BY <1>5, <1>7, <1>9 DEF PipeInv

\* The copy goes where nothing is to be read.
LEMMA CopyPipe ==
  ASSUME PipeInv, NEW t \in Threads, P!WriteCopy(t)
  PROVE  PipeInv' /\ UNCHANGED fifoOfPipe
<1> DEFINE n == length[t]
           s == chunk[t]
<1>1. /\ pc[t] = "copy" /\ pc' = [pc EXCEPT ![t] = "commit"] /\ buffer' = P!Copied(s, n)
      /\ UNCHANGED <<In, Out, wrote, gave, chunk, length>>
  BY DEF P!WriteCopy, P!locals
<1>2. /\ s \in Seq(Data) /\ n \in Nat /\ n <= Len(s) /\ P!Used + n <= P!Lenth
      /\ P!Used \in 0..P!Lenth /\ n \in 0..P!Lenth
  <2>1. s \in Seq(Data) /\ n \in Nat /\ P!Used \in 0..P!Lenth
    BY UsedTyped DEF PipeInv, PipeLocals
  <2>2. n <= Len(s) /\ P!Used + n <= P!Lenth
    BY <1>1 DEF PipeInv, OneWrite, Copying, Fits
  <2> QED
    BY <2>1, <2>2, LenthIs
<1>3. /\ buffer' \in [0..(P!Lenth - 1) -> Bytes]
      /\ \A d \in 0..(P!Lenth - 1) :
           buffer'[(In + d) % P!Lenth] = IF d < n THEN s[d + 1] ELSE buffer[(In + d) % P!Lenth]
  BY <1>1, <1>2, CopiedIs DEF PipeInv
<1>4. pc'[t] = "commit" /\ \A u \in Threads \ {t} : pc'[u] = pc[u]
  BY <1>1, ThreadsAre DEF PipeInv, PipeLocals
<1>5. \A u \in Threads \ {t} : pc'[u] \notin Copying
  BY <1>1, <1>4 DEF PipeInv, OneWrite, Copying
<1>6. PipeLocals'
  BY <1>1 DEF PipeInv, PipeLocals, PipePC, P!Writing
<1>7. P!Used' = P!Used
  BY <1>1 DEF P!Used
<1>8. PipeTyped'
  BY <1>1, <1>3, <1>7 DEF PipeInv, PipeTyped
<1>9. \A i \in 1..P!Used : buffer'[(Out + i - 1) % P!Lenth] = buffer[(Out + i - 1) % P!Lenth]
  <2> TAKE i \in 1..P!Used
  <2> DEFINE d == P!Lenth - P!Used + (i - 1)
  <2>1. d \in 0..(P!Lenth - 1) /\ ~(d < n)
    BY <1>2, LenthIs
  <2>2. (Out + i - 1) % P!Lenth = (In + d) % P!Lenth
    BY PlacesFromIn DEF PipeInv
  <2> HIDE DEF d, n, s
  <2> QED
    BY <1>3, <2>1, <2>2
<1>10. UNCHANGED fifoOfPipe
  BY <1>1, <1>7, <1>9 DEF fifoOfPipe, PipeQueue, PipeRing
<1>11. Fits(t)'
  BY <1>1, <1>2, <1>7 DEF Fits
<1>12. Stands(t)'
  <2> HIDE DEF n, s
  <2>1. \A d \in 0..(n - 1) : d \in 0..(P!Lenth - 1) /\ d < n
    BY <1>2, LenthIs
  <2>2. \A d \in 0..(n - 1) : buffer'[(In + d) % P!Lenth] = s[d + 1]
    BY <1>3, <2>1
  <2> QED
    BY <1>1, <2>2 DEF Stands, n, s
<1>13. OneWrite'
  BY <1>4, <1>5, <1>11, <1>12 DEF OneWrite, Copying
<1> QED
  BY <1>6, <1>8, <1>10, <1>13 DEF PipeInv

\* The new In makes them elements of the queue.
LEMMA CommitPipe ==
  ASSUME PipeInv, NEW t \in Threads, P!WriteCommit(t)
  PROVE  PipeInv' /\ P!Queue!FifoNext
<1> DEFINE n == length[t]
           s == chunk[t]
<1>1. /\ pc[t] = "commit" /\ pc' = [pc EXCEPT ![t] = "look"] /\ In' = (In + n) % W
      /\ wrote' = SubSeq(s, 1, n) /\ UNCHANGED <<Out, buffer, gave, chunk, length>>
  BY DEF P!WriteCommit, P!locals
<1>2. /\ s \in Seq(Data) /\ n \in Nat /\ n <= Len(s) /\ P!Used + n <= P!Lenth
      /\ n \in 0..P!Lenth
  <2>1. s \in Seq(Data) /\ n \in Nat /\ P!Used \in 0..P!Lenth
    BY UsedTyped DEF PipeInv, PipeLocals
  <2>2. n <= Len(s) /\ P!Used + n <= P!Lenth
    BY <1>1 DEF PipeInv, OneWrite, Copying, Fits
  <2> QED
    BY <2>1, <2>2, LenthIs
<1>3. \A d \in 0..(n - 1) : buffer[(In + d) % P!Lenth] = s[d + 1]
  BY <1>1 DEF PipeInv, OneWrite, Stands
<1>4. PipeTyped /\ buffer' \in [0..(P!Lenth - 1) -> Bytes]
  BY <1>1 DEF PipeInv, PipeTyped
<1>5. \A u \in Threads : pc'[u] \notin Copying
  BY <1>1, ThreadsAre DEF PipeInv, PipeLocals, OneWrite, Copying
<1>6. PipeLocals'
  BY <1>1 DEF PipeInv, PipeLocals, PipePC, P!Writing
<1>7. OneWrite'
  BY <1>5 DEF OneWrite, Copying
<1> HIDE DEF n, s
<1>8. \A d \in 0..(P!Lenth - 1) :
        buffer'[(In + d) % P!Lenth] = IF d < n THEN s[d + 1] ELSE buffer[(In + d) % P!Lenth]
  <2> TAKE d \in 0..(P!Lenth - 1)
  <2>1. d < n => d \in 0..(n - 1)
    BY <1>2, LenthIs
  <2> QED
    BY <1>1, <1>3, <2>1
<1>9. PipeTyped' /\ P!Queue!FifoNext
  BY <1>1, <1>2, <1>4, <1>8, AddedIsPut
<1> QED
  BY <1>6, <1>7, <1>9 DEF PipeInv

\* A write from an interrupt copies and advances at once.
LEMMA InterruptPipe ==
  ASSUME PipeInv, "single" \in Careful, NEW s \in P!Chunks, P!WriteFromInterrupt(s)
  PROVE  PipeInv' /\ P!Queue!FifoNext
<1> DEFINE n == P!min(Len(s), P!Room)
<1>1. /\ P!Exclusive(Idle) /\ buffer' = P!Copied(s, n) /\ In' = (In + n) % W
      /\ wrote' = SubSeq(s, 1, n) /\ UNCHANGED <<pc, Out, gave, chunk, length>>
  BY DEF P!WriteFromInterrupt, P!locals
<1>2. s \in Seq(Data) /\ n \in 0..P!Lenth /\ n <= Len(s) /\ P!Used + n <= P!Lenth
  BY LengthIs DEF PipeInv
<1> HIDE DEF n
<1>3. /\ P!Copied(s, n) \in [0..(P!Lenth - 1) -> Bytes]
      /\ \A d \in 0..(P!Lenth - 1) :
           P!Copied(s, n)[(In + d) % P!Lenth] = IF d < n THEN s[d + 1]
                                                ELSE buffer[(In + d) % P!Lenth]
  BY <1>2, CopiedIs DEF PipeInv
<1>4. PipeTyped' /\ P!Queue!FifoNext
  BY <1>1, <1>2, <1>3, AddedIsPut DEF PipeInv
<1>5. \A u \in Threads : pc'[u] \notin Copying
  BY <1>1, ThreadsAre DEF P!Exclusive, P!Writing, Copying
<1>6. PipeLocals'
  BY <1>1 DEF PipeInv, PipeLocals
<1>7. OneWrite'
  BY <1>5 DEF OneWrite, Copying
<1> QED
  BY <1>4, <1>6, <1>7 DEF PipeInv

\* Every step of the pipe is a step of the queue, or none.
LEMMA PipeStep ==
  ASSUME PipeInv, "single" \in Careful, P!Next
  PROVE  PipeInv' /\ (P!Queue!FifoNext \/ UNCHANGED fifoOfPipe)
<1>1. CASE P!KernelStep /\ UNCHANGED <<P!pipe, P!locals>>
  BY <1>1, KernelPipe
<1>2. ASSUME NEW s \in P!Chunks, P!WriteFromInterrupt(s)
      PROVE  PipeInv' /\ P!Queue!FifoNext
  BY <1>2, InterruptPipe
<1>3. ASSUME NEW t \in Threads, P!ThreadWrites(t)
      PROVE  PipeInv' /\ (P!Queue!FifoNext \/ UNCHANGED fifoOfPipe)
  BY <1>3, WritePipe, CopyPipe, CommitPipe, OutsidePipe DEF P!ThreadWrites
<1>4. ASSUME NEW t \in Threads, P!ThreadReads(t)
      PROVE  PipeInv' /\ (P!Queue!FifoNext \/ UNCHANGED fifoOfPipe)
  <2>1. ASSUME NEW n \in 1..MaxChunk, P!ReadNow(t, n) \/ P!Resume(t, n)
        PROVE  PipeInv' /\ (P!Queue!FifoNext \/ UNCHANGED fifoOfPipe)
    <3>1. CASE In # Out
      BY <2>1, <3>1, ReadPipe
    <3>2. CASE In = Out
      <4>1. P!Resume(t, n)
        BY <2>1, <3>2 DEF P!ReadNow
      <4> QED
        BY <3>2, <4>1, OutsidePipe
    <3> QED
      BY <3>1, <3>2
  <2> QED
    BY <1>4, <2>1, OutsidePipe DEF P!ThreadReads
<1>5. ASSUME NEW t \in Threads,
             P!Free(t) /\ UNCHANGED <<In, Out, buffer, pReadThread, wrote, gave, P!locals>>
      PROVE  PipeInv' /\ UNCHANGED fifoOfPipe
  BY <1>5, OutsidePipe
<1> QED
  BY <1>1, <1>2, <1>3, <1>4, <1>5 DEF P!Next, P!Step

-----------------------------------------------------------------------------
\* The application.  The object it uses keeps its invariant; one that it does not
\* use stays as it was made, and no thread is inside of it.
SemaphorePC == {"run", "blocked", "waiting", "posting"}

ObjectsInv ==
  /\ use \in {"semaphore", "mailbox", "pipe"}
  /\ use # "semaphore" => "single" \in Careful
  /\ use = "semaphore" => pc \in [Tcb -> SemaphorePC]
  /\ use = "mailbox"   => BoxInv
  /\ use = "pipe"      => PipeLocals /\ OneWrite
  /\ PipeTyped

QueuesStep == /\ M!Queue!FifoNext \/ UNCHANGED boxVars
              /\ P!Queue!FifoNext \/ UNCHANGED fifoOfPipe

\* Both queues start empty.
LEMMA StartsEmpty ==
  ASSUME ObjectsInit
  PROVE  M!Queue!FifoInit /\ P!Queue!FifoInit
<1>1. /\ Read = 0 /\ Write = 0 /\ put = << >> /\ got = << >> /\ pc = [t \in Tcb |-> "run"]
      /\ In = 0 /\ Out = 0 /\ wrote = << >> /\ gave = << >>
  BY DEF ObjectsInit, M!BoxInit, P!PipeInit, SchedInit
<1>2. Claimed = {}
  BY <1>1, ThreadsAre DEF Claimed
<1>3. M!Count = 0
  BY <1>1, SizeIs DEF M!Count
<1>4. M!Stored = 0
  BY <1>2, <1>3, ClaimedNone
<1>5. M!Queue!FifoInit
  BY <1>1, <1>4 DEF M!Queue!FifoInit
<1>6. P!Used = 0
  BY <1>1, LenthIs DEF P!Used
<1>7. P!Queue!FifoInit
  BY <1>1, <1>6 DEF P!Queue!FifoInit
<1> QED
  BY <1>5, <1>7

\* The invariant holds at the start.
LEMMA ObjectsStart ==
  ASSUME ObjectsInit
  PROVE  ObjectsInv
<1>1. /\ use \in {"semaphore", "mailbox", "pipe"} /\ Careful \in Applications[use]
      /\ pc = [t \in Tcb |-> "run"]
  BY DEF ObjectsInit, SchedInit, Applications
<1>2. use # "semaphore" => "single" \in Careful
  BY <1>1 DEF Applications
<1>3. \A t \in Threads : pc[t] = "run"
  BY <1>1, ThreadsAre
<1>4. BoxTyped
  BY <1>1, SizeIs DEF ObjectsInit, M!BoxInit, M!Slots, BoxTyped, Content, MailPC
<1>5. OnePost
  BY <1>3 DEF OnePost, M!InPost
<1>6. PipeTyped
  <2>1. In = 0 /\ Out = 0 /\ buffer = [i \in 0..(P!Lenth - 1) |-> NULL]
    BY DEF ObjectsInit, P!PipeInit
  <2>2. P!Used = 0
    BY <2>1, LenthIs DEF P!Used
  <2> QED
    BY <2>1, <2>2, LenthIs DEF PipeTyped, Bytes
<1>7. PipeLocals
  <2>1. chunk = [t \in Threads |-> << >>] /\ length = [t \in Threads |-> 0]
    BY DEF ObjectsInit, P!PipeInit
  <2>2. << >> \in Seq(Data)
    OBVIOUS
  <2> QED
    BY <1>1, <2>1, <2>2 DEF PipeLocals, PipePC
<1>8. OneWrite
  BY <1>3 DEF OneWrite, Copying
<1> QED
  BY <1>1, <1>2, <1>4, <1>5, <1>6, <1>7, <1>8 DEF ObjectsInv, BoxInv, SemaphorePC

\* A mailbox nobody uses.
LEMMA OtherBox ==
  ASSUME ObjectsInv, ObjectsInv', use # "mailbox", use' = use, UNCHANGED mailboxVars
  PROVE  UNCHANGED boxVars
<1>1. Claimed = {}
  BY ThreadsAre DEF ObjectsInv, PipeLocals, PipePC, P!Writing, SemaphorePC, Claimed
<1>2. Claimed' = {}
  BY ThreadsAre DEF ObjectsInv, PipeLocals, PipePC, P!Writing, SemaphorePC, Claimed
<1> QED
  BY <1>1, <1>2, SameQueue DEF mailboxVars, boxVars

\* A pipe that is not in use stays as it is.
LEMMA OtherPipe ==
  ASSUME PipeTyped, UNCHANGED pipeVars
  PROVE  PipeTyped' /\ UNCHANGED fifoOfPipe
<1>1. P!Used' = P!Used
  BY DEF pipeVars, P!Used
<1> QED
  BY <1>1 DEF pipeVars, PipeTyped, fifoOfPipe, PipeQueue, PipeRing

\* Threads that use the semaphore are at places of the semaphore.
LEMMA SemaphorePlaces ==
  ASSUME pc \in [Tcb -> SemaphorePC], Next
  PROVE  pc' \in [Tcb -> SemaphorePC]
<1>1. pc' = pc \/ \E t \in Threads : \E to \in SemaphorePC : pc' = [pc EXCEPT ![t] = to]
  BY DEF Next, Step, KernelStep, Shift, OtherTick, Switch, Expire, PostFromInterrupt, Fetch,
         Resume, Post, PostReturns, Free, Wait, sched, SemaphorePC
<1> QED
  BY <1>1

\* Every step keeps the invariant and is a step of the queues.
LEMMA ObjectsStep ==
  ASSUME ObjectsInv, ObjectsNext
  PROVE  ObjectsInv' /\ QueuesStep
<1>1. use' = use
  BY DEF ObjectsNext
<1>2. CASE use = "semaphore" /\ Next /\ UNCHANGED <<mailboxVars, pipeVars>>
  <2>1. pc' \in [Tcb -> SemaphorePC]
    BY <1>2, SemaphorePlaces DEF ObjectsInv
  <2>2. PipeTyped' /\ UNCHANGED fifoOfPipe
    BY <1>2, OtherPipe DEF ObjectsInv
  <2>3. ObjectsInv'
    BY <1>1, <1>2, <2>1, <2>2 DEF ObjectsInv
  <2> QED
    BY <1>1, <1>2, <2>2, <2>3, OtherBox DEF QueuesStep
<1>3. CASE use = "mailbox" /\ M!Next /\ UNCHANGED <<semaphoreVars, pipeVars>>
  <2>1. PipeTyped' /\ UNCHANGED fifoOfPipe
    BY <1>3, OtherPipe DEF ObjectsInv
  <2>2. UNCHANGED Careful
    BY <1>3 DEF M!Next
  <2>3. BoxInv' /\ (M!Queue!FifoNext \/ UNCHANGED boxVars)
    BY <1>3, MailboxStep DEF ObjectsInv
  <2>4. ObjectsInv'
    BY <1>1, <1>3, <2>1, <2>2, <2>3 DEF ObjectsInv
  <2> QED
    BY <2>1, <2>3, <2>4 DEF QueuesStep
<1>4. CASE use = "pipe" /\ P!Next /\ UNCHANGED <<semaphoreVars, mailboxVars>>
  <2>1. UNCHANGED Careful
    BY <1>4 DEF P!Next
  <2>2. PipeInv' /\ (P!Queue!FifoNext \/ UNCHANGED fifoOfPipe)
    BY <1>4, PipeStep DEF ObjectsInv, PipeInv
  <2>3. ObjectsInv'
    BY <1>1, <1>4, <2>1, <2>2 DEF ObjectsInv, PipeInv
  <2> QED
    BY <1>1, <1>4, <2>2, <2>3, OtherBox DEF QueuesStep
<1> QED
  BY <1>2, <1>3, <1>4 DEF ObjectsNext

\* So is a stutter.
LEMMA ObjectsStutter ==
  ASSUME ObjectsInv, UNCHANGED objectsVars
  PROVE  ObjectsInv' /\ QueuesStep
<1>1. UNCHANGED <<pc, use, Careful, mailboxVars, pipeVars>>
  BY DEF objectsVars, vars
<1>2. PipeTyped' /\ UNCHANGED fifoOfPipe
  BY <1>1, OtherPipe DEF ObjectsInv
<1>3. UNCHANGED boxVars
  <2>1. Claimed' = Claimed
    BY <1>1 DEF Claimed
  <2> QED
    BY <1>1, <2>1, SameQueue DEF mailboxVars, boxVars
<1>4. use = "mailbox" => BoxInv'
  BY <1>1 DEF ObjectsInv, mailboxVars, BoxInv, BoxTyped, OnePost, M!InPost, M!After
<1>5. use = "pipe" => PipeLocals' /\ OneWrite'
  <2>1. P!Used' = P!Used
    BY <1>1 DEF pipeVars, P!Used
  <2> QED
    BY <1>1, <2>1 DEF ObjectsInv, pipeVars, PipeLocals, OneWrite, Fits, Stands
<1> QED
  BY <1>1, <1>2, <1>3, <1>4, <1>5 DEF ObjectsInv, QueuesStep

\* The invariant holds in every state.
LEMMA ObjectsInvariant == ObjectsSpec => []ObjectsInv
<1>1. ObjectsInit => ObjectsInv
  BY ObjectsStart
<1>2. ObjectsInv /\ [ObjectsNext]_objectsVars => ObjectsInv'
  BY ObjectsStep, ObjectsStutter
<1> QED
  BY <1>1, <1>2, PTL DEF ObjectsSpec

\* Mailbox and pipe implement a queue of their size: whatever is posted or written,
\* one access at a time, is read once and in order, however reads, interrupts and
\* timers come in between and however often the pipe's indices wrap around
\* (mailbox.c:364-378, pipe.c:176-192).
THEOREM ObjectsAreFifo == ObjectsSpec => QueuesAreFifo
<1>1. ObjectsInit => M!Queue!FifoInit /\ P!Queue!FifoInit
  BY StartsEmpty
<1>2. ObjectsInv /\ [ObjectsNext]_objectsVars
        => [M!Queue!FifoNext]_(M!Queue!fifoVars) /\ [P!Queue!FifoNext]_(P!Queue!fifoVars)
  <2> SUFFICES ASSUME ObjectsInv, [ObjectsNext]_objectsVars
               PROVE  /\ [M!Queue!FifoNext]_(M!Queue!fifoVars)
                      /\ [P!Queue!FifoNext]_(P!Queue!fifoVars)
    OBVIOUS
  <2>1. QueuesStep
    BY ObjectsStep, ObjectsStutter
  <2>2. UNCHANGED boxVars => UNCHANGED M!Queue!fifoVars
    BY DEF boxVars, MailQueue, Ring, M!Queue!fifoVars
  <2>3. UNCHANGED fifoOfPipe => UNCHANGED P!Queue!fifoVars
    BY DEF fifoOfPipe, PipeQueue, PipeRing, P!Queue!fifoVars
  <2> QED
    BY <2>1, <2>2, <2>3 DEF QueuesStep
<1>3. ObjectsSpec => M!ImplementsFifo
  BY <1>1, <1>2, ObjectsInvariant, PTL DEF ObjectsSpec, M!ImplementsFifo, M!Queue!FifoSpec
<1>4. ObjectsSpec => P!ImplementsFifo
  BY <1>1, <1>2, ObjectsInvariant, PTL DEF ObjectsSpec, P!ImplementsFifo, P!Queue!FifoSpec
<1> QED
  BY <1>3, <1>4 DEF QueuesAreFifo

-----------------------------------------------------------------------------
(***************************************************************************)
(* Polite applications of a semaphore or a mailbox.  A woken waiter stays  *)
(* first on WaitHead, and posts are paced by it, so the threads form a     *)
(* line: f is the last that waited, those more urgent than f waited before *)
(* and are lost behind it, those less urgent never waited.  Only f and the *)
(* most urgent thread behind it ever run.                                  *)
(***************************************************************************)
OnList(u)  == /\ list[u] = [next |-> Priority[u], prev |-> Priority[u]]
              /\ list[Priority[u]] = [next |-> u, prev |-> u]
OffList(u) == list[Priority[u]] = [next |-> Priority[u], prev |-> Priority[u]]

\* The places inside a post; at the last of them f may have been woken.
Inside == {"posting", "test", "claim", "store", "look", "ready", "return"}
Done   == {"posting", "return"}

\* The threads behind f; all of them while nobody has waited.
Below(f, u) == f = WaitHead \/ Priority[f] < Priority[u]
Waits(u)    == pc[u] \in {"blocked", "waiting"}

\* f asleep, woken and not yet back, and back from its wait: then its ready list
\* is empty although its bit is set.
Dozes(f)  == Waits(f) /\ f \notin woken /\ Priority[f] \notin OS_ActivePrio /\ OffList(f)
Called(f) == Waits(f) /\ f \in woken /\ Priority[f] \in OS_ActivePrio /\ OnList(f)
Roused(f) == /\ pc[f] = "run" /\ f \notin woken /\ Priority[f] \in OS_ActivePrio
             /\ list[f] = [next |-> Priority[f], prev |-> Priority[f]] /\ OffList(f)

LineTypes ==
  /\ list \in Links(Node)
  /\ OS_ActivePrio \subseteq {Priority[t] : t \in Threads}
  /\ OS_This \in Tcb /\ pend \in BOOLEAN
  /\ pc \in [Tcb -> {"run", "blocked", "waiting"} \cup Inside] /\ pc[Idle] = "run"
  /\ timer = [t \in Tcb |-> "off"]
  /\ {"paced", "untimed", "calm"} \subseteq Careful

Lost(f) ==
  \A u \in Threads : f \in Threads /\ Priority[u] < Priority[f] =>
    pc[u] = "waiting" /\ Priority[u] \notin OS_ActivePrio

Fresh(f) ==
  \A u \in Threads : Below(f, u) =>
    OnList(u) /\ Priority[u] \in OS_ActivePrio /\ pc[u] \in {"run"} \cup Inside

OneInside(f) ==
  \A u, v \in Threads :
    Below(f, u) /\ pc[u] # "run" /\ Below(f, v) => Priority[u] <= Priority[v]

FirstIs(f) ==
  /\ list[WaitHead].next = f /\ list[IdlePrio].next = Idle
  /\ woken \subseteq {f} \cap Threads
  /\ f \in Threads => \/ Dozes(f) /\ (pc[f] = "blocked" => OS_This = f /\ ~pend)
                      \/ Called(f) /\ (pc[f] = "blocked" => OS_This = f)
                      \/ Roused(f) /\ OS_This = f /\ ~pend

Topmost(f) == /\ OS_This = Idle \/ (OS_This \in Threads /\ Below(f, OS_This))
              /\ \A v \in Threads : Below(f, v) => Priority[OS_This] <= Priority[v]

Holds(f) ==
  \/ pend
  \/ OS_This = f /\ ~(Dozes(f) /\ pc[f] = "waiting")
  \/ Topmost(f) /\ (f \in Threads => \/ Dozes(f) /\ pc[f] = "waiting"
                                     \/ Called(f) /\ pc[f] = "waiting" /\ pc[OS_This] \in Done)

Line(f) == /\ f \in Threads \cup {WaitHead}
           /\ LineTypes /\ Lost(f) /\ Fresh(f) /\ OneInside(f) /\ FirstIs(f) /\ Holds(f)

\* Threads, list heads and WaitHead are different nodes.
LEMMA LineNodes ==
  /\ Threads \subseteq Tcb /\ Idle \in Tcb /\ Idle \notin Threads /\ Priority[Idle] = 32
  /\ IdlePrio = 32 /\ WaitHead \in Node /\ WaitHead \notin Tcb /\ WaitHead \notin 0..32
  /\ 32 \in Node
  /\ \A t \in Threads : Priority[t] \in 0..31
  /\ \A t \in Tcb : /\ t \in Node /\ Priority[t] \in Node /\ Priority[t] \in 0..32
                    /\ t \notin 0..32 /\ t # WaitHead /\ Priority[t] # WaitHead
  /\ \A t, u \in Tcb : t # Priority[u] /\ (Priority[t] = Priority[u] => t = u)
<1>1. /\ Threads \subseteq Tcb /\ Idle \in Tcb /\ Idle \notin Threads /\ Priority[Idle] = 32
      /\ IdlePrio = 32 /\ WaitHead \in Node /\ WaitHead \notin Tcb
      /\ \A t \in Threads : Priority[t] \in 0..31
  BY BlockingAssumption, NodesAssumption DEF Tcb, Node, IdlePrio
<1>2. \A t \in Tcb : Priority[t] \in 0..32
  BY <1>1 DEF Tcb
<1>3. \A t \in Tcb : t \in Node /\ Priority[t] \in Node /\ t # WaitHead
  BY <1>1 DEF Node, Heads
<1>4. WaitHead \notin 0..32 /\ \A t \in Tcb : t \notin 0..32
  BY <1>1, NodesAssumption
<1>5. \A t, u \in Tcb : Priority[t] = Priority[u] => t = u
  BY BlockingAssumption
<1>6. 32 \in Node
  BY <1>1, <1>3
<1> QED
  BY <1>1, <1>2, <1>3, <1>4, <1>5, <1>6

\* The scan finds the most urgent bit.
LEMMA LineScan ==
  ASSUME NEW S \in SUBSET {Priority[t] : t \in Threads}
  PROVE  /\ bit_scan_forward(S) \in 0..32
         /\ S = {} => bit_scan_forward(S) = 32
         /\ S # {} => bit_scan_forward(S) \in S
         /\ \A r \in S : bit_scan_forward(S) <= r
<1>1. CASE S = {}
  BY <1>1, LineNodes DEF bit_scan_forward
<1>2. CASE S # {}
  <2>1. S \in SUBSET Nat
    BY LineNodes
  <2>2. \E p \in S : \A r \in S : p <= r
    BY <1>2, <2>1, Least
  <2>3. /\ bit_scan_forward(S) \in S
        /\ \A r \in S : bit_scan_forward(S) <= r
    BY <1>2, <2>2 DEF bit_scan_forward
  <2>4. \A p \in S : p \in 0..32
    BY LineNodes
  <2> QED
    BY <1>2, <2>3, <2>4
<1> QED
  BY <1>1, <1>2

\* A post that wakes a more urgent thread than the running one asks for PendSV.
LEMMA ScheduledFor ==
  ASSUME NEW S \in SUBSET {Priority[t] : t \in Threads}, NEW f \in Threads,
         Priority[f] \in S, OS_This \in Tcb, Priority[f] < Priority[OS_This]
  PROVE  Scheduled(S)
<1>1. bit_scan_forward(S) <= Priority[f] /\ bit_scan_forward(S) \in 0..32
  BY LineScan
<1>2. Priority[f] \in 0..32 /\ Priority[OS_This] \in 0..32
  BY LineNodes
<1>3. bit_scan_forward(S) < Priority[OS_This]
  BY <1>1, <1>2
<1> QED
  BY <1>3 DEF Scheduled

\* list_del of a thread that is alone on its ready list, or has been taken off it and
\* keeps its pointers.
LEMMA DelOwn ==
  ASSUME NEW L \in Links(Node), NEW t \in Tcb,
         L[t] = [next |-> Priority[t], prev |-> Priority[t]]
  PROVE  /\ list_del(L, t) \in Links(Node)
         /\ list_del(L, t)[Priority[t]] = [next |-> Priority[t], prev |-> Priority[t]]
         /\ \A n \in Node \ {Priority[t]} : list_del(L, t)[n] = L[n]
<1> DEFINE p == Priority[t]
           K == list_del(L, t)
<1>1. p \in Node /\ L[t].next = p /\ L[t].prev = p /\ t \in Node
  BY LineNodes
<1>2. K \in Links(Node) /\ \A n \in Node : /\ K[n].next = IF n = p THEN p ELSE L[n].next
                                          /\ K[n].prev = IF n = p THEN p ELSE L[n].prev
  BY <1>1, DelShape
<1> HIDE DEF p, K
<1>3. \A n \in Node : /\ K[n] = [next |-> K[n].next, prev |-> K[n].prev]
                      /\ L[n] = [next |-> L[n].next, prev |-> L[n].prev]
  BY <1>2 DEF Links
<1>4. K[p] = [next |-> p, prev |-> p] /\ \A n \in Node \ {p} : K[n] = L[n]
  BY <1>1, <1>2, <1>3
<1> QED
  BY <1>2, <1>4 DEF p, K

\* list_add of a thread to its empty ready list.
LEMMA AddOwn ==
  ASSUME NEW L \in Links(Node), NEW t \in Tcb,
         L[Priority[t]] = [next |-> Priority[t], prev |-> Priority[t]]
  PROVE  /\ list_add(L, t, Priority[t]) \in Links(Node)
         /\ list_add(L, t, Priority[t])[t] = [next |-> Priority[t], prev |-> Priority[t]]
         /\ list_add(L, t, Priority[t])[Priority[t]] = [next |-> t, prev |-> t]
         /\ \A n \in Node \ {t, Priority[t]} : list_add(L, t, Priority[t])[n] = L[n]
<1> DEFINE p == Priority[t]
           K == list_add(L, t, p)
<1>1. p \in Node /\ t \in Node /\ t # p /\ L[p].next = p /\ L[p].prev = p
  BY LineNodes
<1> HIDE DEF p
<1>2. /\ K \in Links(Node) /\ K[t].next = p /\ K[t].prev = p
      /\ K[p].next = t /\ K[p].prev = t
      /\ \A n \in Node \ {t, p} : K[n].next = L[n].next /\ K[n].prev = L[n].prev
  <2>1. K = [L EXCEPT ![p].prev = t, ![t] = [next |-> p, prev |-> p], ![p].next = t]
    BY <1>1 DEF list_add, __list_add
  <2> HIDE DEF K
  <2> QED
    BY <1>1, <2>1 DEF Links
<1> HIDE DEF K
<1>3. \A n \in Node : /\ K[n] = [next |-> K[n].next, prev |-> K[n].prev]
                      /\ L[n] = [next |-> L[n].next, prev |-> L[n].prev]
  BY <1>2 DEF Links
<1>4. /\ K[t] = [next |-> p, prev |-> p] /\ K[p] = [next |-> t, prev |-> t]
      /\ \A n \in Node \ {t, p} : K[n] = L[n]
  BY <1>1, <1>2, <1>3
<1> QED
  BY <1>2, <1>4 DEF p, K

\* list_add to WaitHead, in front of g, which may be the thread itself.
LEMMA AddFirst ==
  ASSUME NEW L \in Links(Node), NEW t \in Threads, NEW g \in Threads \cup {WaitHead},
         L[WaitHead].next = g
  PROVE  /\ list_add(L, t, WaitHead) \in Links(Node)
         /\ list_add(L, t, WaitHead)[WaitHead].next = t
         /\ \A n \in Node \ {t, g, WaitHead} : list_add(L, t, WaitHead)[n] = L[n]
<1>1. t \in Node /\ WaitHead \in Node /\ t # WaitHead /\ g \in Node
  BY LineNodes
<1> QED
  BY <1>1 DEF list_add, __list_add, Links

-----------------------------------------------------------------------------
\* The nodes of a thread behind f.
LEMMA KeptOnList ==
  ASSUME NEW u \in Tcb, OnList(u), list'[u] = list[u], list'[Priority[u]] = list[Priority[u]]
  PROVE  OnList(u)'
BY DEF OnList

\* Who may be running, and where it can be.
LEMMA Runner ==
  ASSUME NEW f, Line(f), NEW t \in Threads, Running(t)
  PROVE  /\ t = f \/ (Below(f, t) /\ t # f /\ Topmost(f) /\ OS_This = t)
         /\ t = f => \/ Dozes(f) /\ pc[f] = "blocked"
                     \/ Called(f)
                     \/ Roused(f)
         /\ t # f /\ f \in Threads => \/ Dozes(f) /\ pc[f] = "waiting"
                                      \/ Called(f) /\ pc[f] = "waiting" /\ pc[t] \in Done
         /\ t # f => pc[t] \in {"run"} \cup Inside
         /\ OS_This = t /\ ~pend
<1>1. OS_This = t /\ ~pend /\ t # Idle /\ t \in Tcb
  BY LineNodes DEF Running
<1>2. t = f => f \in Threads
  OBVIOUS
<1>3. t = f => Dozes(f) \/ Called(f) \/ Roused(f)
  BY <1>2 DEF Line, FirstIs
<1>4. t = f => ~Topmost(f)
  <2> SUFFICES ASSUME t = f, Topmost(f) PROVE FALSE
    OBVIOUS
  <2>1. Below(f, f)
    BY <1>1 DEF Topmost
  <2> QED
    BY <2>1, LineNodes DEF Below
<1>5. t = f => ~(Dozes(f) /\ pc[f] = "waiting")
  BY <1>1, <1>4 DEF Line, Holds
<1>6. t # f => /\ Topmost(f)
               /\ f \in Threads => \/ Dozes(f) /\ pc[f] = "waiting"
                                   \/ Called(f) /\ pc[f] = "waiting" /\ pc[t] \in Done
  BY <1>1 DEF Line, Holds
<1>7. t # f => Below(f, t)
  BY <1>1, <1>6 DEF Topmost
<1> QED
  BY <1>1, <1>3, <1>5, <1>6, <1>7 DEF Dozes, Waits, Line, Fresh

\* PendSV gives the processor to f, if it is ready, and else to the most urgent
\* thread behind it, or to idle (kernel.c:399-409).
LEMMA LineShift ==
  ASSUME NEW f, Line(f), Shift, UNCHANGED Careful
  PROVE  Line(f)'
<1> DEFINE p == bit_scan_forward(OS_ActivePrio)
<1>1. /\ pend /\ pend' = FALSE /\ OS_This' = list[p].next
      /\ UNCHANGED <<list, OS_ActivePrio, pc, timer, woken>>
  BY DEF Shift
<1>2. /\ OS_ActivePrio \subseteq {Priority[t] : t \in Threads}
      /\ OS_ActivePrio = {} => p = 32
      /\ OS_ActivePrio # {} => p \in OS_ActivePrio
      /\ \A r \in OS_ActivePrio : p <= r
  BY LineScan DEF Line, LineTypes
<1>3. f \in Threads => (Dozes(f) /\ pc[f] = "waiting") \/ Called(f)
  BY <1>1 DEF Line, FirstIs, Dozes, Waits
<1> HIDE DEF p
<1>4. CASE OS_ActivePrio = {}
  <2>1. OS_This' = Idle
    BY <1>1, <1>2, <1>4, LineNodes DEF Line, FirstIs
  <2>2. \A v \in Threads : ~Below(f, v)
    BY <1>4 DEF Line, Fresh
  <2>3. f \in Threads => Dozes(f) /\ pc[f] = "waiting"
    BY <1>3, <1>4 DEF Called
  <2> QED
    BY <1>1, <2>1, <2>2, <2>3, LineNodes
       DEF Line, LineTypes, Lost, Fresh, OneInside, FirstIs, Holds, Topmost, Below, Dozes,
           Called, Roused, Waits, OnList, OffList
<1>5. CASE OS_ActivePrio # {}
  <2>1. PICK u \in Threads : p = Priority[u]
    BY <1>2, <1>5
  <2>2. p \in OS_ActivePrio
    BY <1>2, <1>5
  <2>3. (f \in Threads /\ Priority[u] >= Priority[f]) \/ f = WaitHead
    BY <2>1, <2>2, LineNodes DEF Line, Lost
  <2>4. u = f \/ Below(f, u)
    BY <2>1, <2>3, LineNodes DEF Below
  <2>5. OnList(u)
    <3>1. CASE u = f
      BY <1>3, <2>1, <2>2, <3>1 DEF Dozes, Called
    <3>2. CASE Below(f, u)
      BY <3>2 DEF Line, Fresh
    <3> QED
      BY <2>4, <3>1, <3>2
  <2>6. OS_This' = u
    BY <1>1, <2>1, <2>5 DEF OnList
  <2>7. \A v \in Threads : Below(f, v) => Priority[u] <= Priority[v]
    BY <1>2, <2>1 DEF Line, Fresh
  <2>8. u # f /\ f \in Threads => Dozes(f) /\ pc[f] = "waiting"
    <3> SUFFICES ASSUME u # f, f \in Threads, Called(f) PROVE FALSE
      BY <1>3
    <3>1. Priority[f] \in OS_ActivePrio
      BY DEF Called
    <3>2. Priority[u] <= Priority[f] /\ Priority[f] < Priority[u]
      BY <1>2, <2>1, <2>4, <3>1, LineNodes DEF Below
    <3> QED
      BY <3>2, LineNodes
  <2>9. u = f => Called(f)
    BY <1>3, <2>1, <2>2 DEF Dozes
  <2>10. LineTypes' /\ Lost(f)' /\ Fresh(f)' /\ OneInside(f)'
    <3>1. LineTypes'
      BY <1>1, <2>6, LineNodes DEF Line, LineTypes
    <3>2. Lost(f)' /\ OneInside(f)'
      BY <1>1 DEF Line, Lost, OneInside, Below
    <3>3. Fresh(f)'
      BY <1>1 DEF Line, Fresh, Below, OnList
    <3> QED
      BY <3>1, <3>2, <3>3
  <2>11. FirstIs(f)'
    BY <1>1, <1>3, <2>6, <2>8, LineNodes
       DEF Line, FirstIs, Dozes, Called, Roused, Waits, OnList, OffList
  <2>12. Holds(f)'
    <3>1. CASE u = f
      BY <1>1, <2>6, <2>9, <3>1 DEF Holds, Dozes, Called, Waits
    <3>2. CASE u # f
      <4>1. Topmost(f)'
        BY <2>4, <2>6, <2>7, <3>2 DEF Topmost, Below
      <4>2. f \in Threads => Dozes(f)' /\ pc'[f] = "waiting"
        BY <1>1, <2>8, <3>2 DEF Dozes, Waits, OffList
      <4> QED
        BY <4>1, <4>2 DEF Holds
    <3> QED
      BY <3>1, <3>2
  <2> QED
    BY <2>10, <2>11, <2>12 DEF Line
<1> QED
  BY <1>4, <1>5

\* OS_thread_switch of a wait: only f can be there.
LEMMA LineSwitch ==
  ASSUME NEW f, Line(f), NEW t \in Threads, Switch(t), UNCHANGED Careful
  PROVE  Line(f)'
<1>1. /\ Running(t) /\ pc[t] = "blocked" /\ pc' = [pc EXCEPT ![t] = "waiting"]
      /\ pend' = TRUE /\ UNCHANGED <<list, OS_ActivePrio, OS_This, timer, woken>>
  BY DEF Switch
<1>2. t = f
  BY <1>1, Runner DEF Inside
<1>3. /\ pc' \in [Tcb -> {"run", "blocked", "waiting"} \cup Inside]
      /\ pc'[f] = "waiting" /\ \A u \in Tcb \ {f} : pc'[u] = pc[u]
  BY <1>1, <1>2, LineNodes DEF Line, LineTypes
<1>4. \A u \in Threads : Below(f, u) \/ Priority[u] < Priority[f] => u # f
  BY <1>2, LineNodes DEF Below
<1>5. LineTypes'
  BY <1>1, <1>2, <1>3, LineNodes DEF Line, LineTypes
<1>6. Lost(f)' /\ Fresh(f)' /\ OneInside(f)'
  BY <1>1, <1>3, <1>4, LineNodes DEF Line, Lost, Fresh, OneInside, Below, OnList
<1>7. FirstIs(f)'
  BY <1>1, <1>2, <1>3 DEF Line, FirstIs, Dozes, Called, Roused, Waits, OnList, OffList
<1>8. Holds(f)'
  BY <1>1 DEF Holds
<1> QED
  BY <1>5, <1>6, <1>7, <1>8 DEF Line

\* The locked part of a wait: the running thread goes from its ready list to the
\* front of WaitHead, and the line now ends with it (semaphore.c:222-268,
\* mailbox.c:255-300).
LEMMA LineWait ==
  ASSUME NEW f, Line(f), NEW t \in Threads, Running(t), pc[t] = "run",
         list' = list_add(Off(t), t, WaitHead), OS_ActivePrio' = Cleared(t),
         timer' = [timer EXCEPT ![t] = "off"], pc' = [pc EXCEPT ![t] = "blocked"],
         UNCHANGED <<OS_This, pend, woken, Careful>>
  PROVE  Line(t)' /\ woken' = {} /\ (f \in Threads => f \notin woken)
<1> DEFINE K == list_del(list, t)
<1>1. /\ OS_This = t /\ ~pend /\ t \in Tcb
      /\ t # f => Below(f, t) /\ Topmost(f) /\ (f \in Threads => Dozes(f) /\ pc[f] = "waiting")
      /\ t = f => Roused(f)
  BY Runner, LineNodes DEF Done, Dozes, Called, Waits
<1>2. /\ list \in Links(Node) /\ list[WaitHead].next = f /\ f \in Threads \cup {WaitHead}
      /\ list[IdlePrio].next = Idle /\ woken \subseteq {f} \cap Threads
  BY DEF Line, LineTypes, FirstIs
<1>3. list[t] = [next |-> Priority[t], prev |-> Priority[t]]
  <2>1. t # f => OnList(t)
    BY <1>1 DEF Line, Fresh
  <2> QED
    BY <1>1, <2>1 DEF OnList, Roused
<1>4. /\ K \in Links(Node)
      /\ K[Priority[t]] = [next |-> Priority[t], prev |-> Priority[t]]
      /\ \A n \in Node \ {Priority[t]} : K[n] = list[n]
  BY <1>1, <1>2, <1>3, DelOwn
<1>5. OS_ActivePrio' = OS_ActivePrio \ {Priority[t]}
  BY <1>4 DEF Cleared, Off, list_empty
<1>6. /\ list' \in Links(Node) /\ list'[WaitHead].next = t
      /\ \A n \in Node \ {t, f, WaitHead} : list'[n] = K[n]
  <2>1. K[WaitHead].next = f /\ list' = list_add(K, t, WaitHead)
    BY <1>1, <1>2, <1>4, LineNodes DEF Off
  <2> HIDE DEF K
  <2> QED
    BY <1>2, <1>4, <2>1, AddFirst
<1> HIDE DEF K
<1>7. \A n \in Node \ {t, f, WaitHead, Priority[t]} : list'[n] = list[n]
  BY <1>4, <1>6
<1>8. /\ pc' \in [Tcb -> {"run", "blocked", "waiting"} \cup Inside]
      /\ pc'[t] = "blocked" /\ \A u \in Tcb \ {t} : pc'[u] = pc[u]
  BY <1>1 DEF Line, LineTypes
<1>9. woken = {}
  BY <1>1, <1>2 DEF Dozes, Roused
<1>10. LineTypes'
  <2>1. timer' = [u \in Tcb |-> "off"]
    BY <1>1 DEF Line, LineTypes
  <2>2. pc'[Idle] = "run"
    BY <1>8, LineNodes DEF Line, LineTypes
  <2> QED
    BY <1>5, <1>6, <1>8, <2>1, <2>2 DEF Line, LineTypes
<1>11. \A u \in Threads : Priority[t] < Priority[u] => Below(f, u) /\ u # t /\ u # f
  <2>1. f \in Threads => Priority[f] <= Priority[t]
    BY <1>1, LineNodes DEF Below
  <2> QED
    BY <1>2, <2>1, LineNodes DEF Below
<1>12. Lost(t)'
  <2> SUFFICES ASSUME NEW u \in Threads, Priority[u] < Priority[t]
               PROVE  pc'[u] = "waiting" /\ Priority[u] \notin OS_ActivePrio'
    BY DEF Lost
  <2>1. u # t /\ u \in Tcb
    BY LineNodes
  <2>2. f \in Threads
    <3> SUFFICES ASSUME f = WaitHead PROVE FALSE
      BY <1>2
    <3>1. t # f /\ Below(f, u)
      BY LineNodes DEF Below
    <3> QED
      BY <1>1, <3>1, LineNodes DEF Topmost
  <2>3. u = f => pc[u] = "waiting" /\ Priority[u] \notin OS_ActivePrio
    BY <1>1, <2>1 DEF Dozes
  <2>4. u # f => Priority[u] < Priority[f]
    <3> SUFFICES ASSUME u # f, ~(Priority[u] < Priority[f]) PROVE FALSE
      OBVIOUS
    <3>1. Priority[f] < Priority[u]
      BY <2>2, LineNodes
    <3>2. t # f /\ Below(f, u)
      BY <2>2, <3>1, LineNodes DEF Below
    <3> QED
      BY <1>1, <3>2, LineNodes DEF Topmost
  <2>5. pc[u] = "waiting" /\ Priority[u] \notin OS_ActivePrio
    BY <2>2, <2>3, <2>4 DEF Line, Lost
  <2> QED
    BY <1>5, <1>8, <2>1, <2>5
<1>13. Fresh(t)'
  <2> SUFFICES ASSUME NEW u \in Threads, Priority[t] < Priority[u]
               PROVE  /\ OnList(u)' /\ Priority[u] \in OS_ActivePrio'
                      /\ pc'[u] \in {"run"} \cup Inside
    BY LineNodes DEF Fresh, Below
  <2>1. Below(f, u) /\ u # t /\ u # f /\ u \in Tcb
    BY <1>11, LineNodes
  <2>2. list'[u] = list[u] /\ list'[Priority[u]] = list[Priority[u]]
    <3>1. u \in Node \ {t, f, WaitHead, Priority[t]}
      BY <1>1, <2>1, LineNodes
    <3>2. Priority[u] \in Node \ {t, f, WaitHead, Priority[t]}
      BY <1>1, <1>2, <2>1, LineNodes
    <3> QED
      BY <1>7, <3>1, <3>2
  <2>3. OnList(u) /\ Priority[u] \in OS_ActivePrio /\ pc[u] \in {"run"} \cup Inside
    BY <2>1 DEF Line, Fresh
  <2>4. OnList(u)'
    BY <2>1, <2>2, <2>3, KeptOnList
  <2>5. Priority[u] # Priority[t]
    BY <1>1, <2>1, LineNodes
  <2> QED
    BY <1>5, <1>8, <2>1, <2>3, <2>4, <2>5
<1>14. OneInside(t)'
  <2> SUFFICES ASSUME NEW u \in Threads, NEW v \in Threads, Priority[t] < Priority[u],
                      pc'[u] # "run", Priority[t] < Priority[v]
               PROVE  Priority[u] <= Priority[v]
    BY LineNodes DEF OneInside, Below
  <2>1. Below(f, u) /\ Below(f, v) /\ pc[u] # "run"
    BY <1>8, <1>11, LineNodes
  <2> QED
    BY <2>1 DEF Line, OneInside
<1>15. list'[IdlePrio].next = Idle
  <2>1. IdlePrio \in Node \ {t, f, WaitHead, Priority[t]}
    BY <1>1, <1>2, LineNodes
  <2> QED
    BY <1>2, <1>7, <2>1
<1>16. Dozes(t)'
  <2>1. Priority[t] \in Node \ {t, f, WaitHead}
    BY <1>1, <1>2, LineNodes
  <2>2. OffList(t)'
    BY <1>4, <1>6, <2>1 DEF OffList
  <2> QED
    BY <1>5, <1>8, <1>9, <2>2 DEF Dozes, Waits
<1>17. FirstIs(t)' /\ Holds(t)'
  BY <1>1, <1>6, <1>8, <1>9, <1>15, <1>16 DEF FirstIs, Holds
<1> QED
  BY <1>9, <1>10, <1>12, <1>13, <1>14, <1>17 DEF Line

\* The end of a wait: f goes on, its ready list empty and its bit still set
\* (semaphore.c:270-290, mailbox.c:302-325).
LEMMA LineResume ==
  ASSUME NEW f, Line(f), NEW t \in Threads, Running(t), pc[t] = "waiting",
         list' = list_del(list, t), timer' = [timer EXCEPT ![t] = "off"],
         woken' = woken \ {t}, pc' = [pc EXCEPT ![t] = "run"],
         UNCHANGED <<OS_ActivePrio, OS_This, pend, Careful>>
  PROVE  Line(f)' /\ t = f /\ f \in woken /\ woken' = {}
<1>1. t = f /\ Called(f) /\ OS_This = t /\ ~pend /\ t \in Tcb
  BY Runner, LineNodes DEF Dozes, Roused, Inside
<1>2. /\ list \in Links(Node) /\ list[WaitHead].next = f /\ list[IdlePrio].next = Idle
      /\ woken \subseteq {f}
  BY DEF Line, LineTypes, FirstIs
<1>3. /\ list' \in Links(Node)
      /\ list'[Priority[t]] = [next |-> Priority[t], prev |-> Priority[t]]
      /\ \A n \in Node \ {Priority[t]} : list'[n] = list[n]
  BY <1>1, <1>2, DelOwn DEF Called, OnList
<1>4. /\ pc' \in [Tcb -> {"run", "blocked", "waiting"} \cup Inside]
      /\ pc'[t] = "run" /\ \A u \in Tcb \ {t} : pc'[u] = pc[u]
  BY <1>1 DEF Line, LineTypes
<1>5. LineTypes'
  <2>1. timer' = [u \in Tcb |-> "off"]
    BY <1>1 DEF Line, LineTypes
  <2>2. pc'[Idle] = "run"
    BY <1>4, LineNodes DEF Line, LineTypes
  <2> QED
    BY <1>3, <1>4, <2>1, <2>2 DEF Line, LineTypes
<1>6. \A u \in Threads : Below(f, u) \/ Priority[u] < Priority[f] => u # f /\ u \in Tcb
  BY <1>1, LineNodes DEF Below
<1>7. Lost(f)' /\ OneInside(f)'
  BY <1>4, <1>6, <1>1, LineNodes DEF Line, Lost, OneInside, Below
<1>8. Fresh(f)'
  <2> SUFFICES ASSUME NEW u \in Threads, Below(f, u)
               PROVE  /\ OnList(u)' /\ Priority[u] \in OS_ActivePrio'
                      /\ pc'[u] \in {"run"} \cup Inside
    BY DEF Fresh, Below
  <2>1. u # t /\ u \in Tcb /\ OnList(u) /\ Priority[u] \in OS_ActivePrio /\ pc[u] \in {"run"} \cup Inside
    BY <1>1, <1>6 DEF Line, Fresh
  <2>2. list'[u] = list[u] /\ list'[Priority[u]] = list[Priority[u]]
    BY <1>1, <1>3, <2>1, LineNodes
  <2> QED
    BY <1>4, <2>1, <2>2, KeptOnList
<1>9. list'[WaitHead].next = f /\ list'[IdlePrio].next = Idle
  BY <1>1, <1>2, <1>3, LineNodes
<1>10. Roused(f)'
  BY <1>1, <1>3, <1>4, LineNodes DEF Called, Roused, OnList, OffList
<1>11. FirstIs(f)' /\ Holds(f)'
  <2>1. woken' = {}
    BY <1>1, <1>2
  <2>2. pc'[f] = "run"
    BY <1>1, <1>4
  <2> QED
    BY <1>1, <1>9, <1>10, <2>1, <2>2 DEF FirstIs, Holds
<1> QED
  BY <1>1, <1>2, <1>5, <1>7, <1>8, <1>11 DEF Line, Called

\* A post, or the interrupt, makes f ready while it sleeps; the poster goes on to
\* the end of its post, and an interrupt asks for PendSV.
LEMMA LineWake ==
  ASSUME NEW f \in Threads, Line(f), Dozes(f), MakeReady(f), UNCHANGED <<OS_This, timer, Careful>>,
         \/ \E u \in Threads, to \in Done : /\ Running(u) /\ u # f
                                            /\ pc' = [pc EXCEPT ![u] = to] /\ pend' = pend
         \/ pc' = pc /\ pend' = Scheduled(OS_ActivePrio')
  PROVE  Line(f)' /\ woken = {} /\ woken' = {f}
<1>1. f \in Tcb /\ f \in Node /\ Priority[f] \in Node /\ f \in Sleepers
  BY LineNodes DEF Dozes, Waits, Sleepers
<1>2. /\ list \in Links(Node) /\ list[WaitHead].next = f /\ list[IdlePrio].next = Idle
      /\ woken = {} /\ OS_This \in Tcb /\ pend \in BOOLEAN
      /\ OS_ActivePrio \subseteq {Priority[t] : t \in Threads}
  BY DEF Line, LineTypes, FirstIs, Dozes
<1>3. /\ list' \in Links(Node) /\ OnList(f)'
      /\ \A n \in Node \ {f, Priority[f]} : list'[n] = list[n]
  BY <1>1, <1>2, AddOwn DEF Dozes, OffList, OnList, MakeReady
<1>4. OS_ActivePrio' = OS_ActivePrio \cup {Priority[f]} /\ woken' = {f}
  BY <1>1, <1>2 DEF MakeReady
<1>5. /\ pc' \in [Tcb -> {"run", "blocked", "waiting"} \cup Inside]
      /\ pc'[f] = pc[f] /\ pc'[Idle] = "run"
      /\ \A u \in Threads : pc'[u] = pc[u] \/ (pc'[u] \in Done /\ Running(u) /\ u # f)
  <2>1. Done \subseteq {"run", "blocked", "waiting"} \cup Inside
    BY DEF Done, Inside
  <2> QED
    BY <1>1, <2>1, LineNodes DEF Line, LineTypes
<1>6. pend' \in BOOLEAN
  BY <1>2 DEF Scheduled
<1>7. LineTypes'
  BY <1>3, <1>4, <1>5, <1>6 DEF Line, LineTypes
<1>8. \A u \in Threads : Below(f, u) \/ Priority[u] < Priority[f] => u # f /\ u \in Tcb
  BY <1>1, LineNodes DEF Below
<1>9. \A u \in Threads : pc'[u] = pc[u] \/ (pc'[u] \in Done /\ Below(f, u) /\ Topmost(f) /\ OS_This = u)
  BY <1>5, Runner
<1>10. Lost(f)'
  <2> SUFFICES ASSUME NEW u \in Threads, Priority[u] < Priority[f]
               PROVE  pc'[u] = "waiting" /\ Priority[u] \notin OS_ActivePrio'
    BY DEF Lost
  <2>1. pc[u] = "waiting" /\ Priority[u] \notin OS_ActivePrio
    BY DEF Line, Lost
  <2>2. ~Below(f, u) /\ Priority[u] # Priority[f]
    BY <1>1, <1>8, LineNodes DEF Below
  <2> QED
    BY <1>4, <1>9, <2>1, <2>2
<1>11. Fresh(f)'
  <2> SUFFICES ASSUME NEW u \in Threads, Below(f, u)
               PROVE  /\ OnList(u)' /\ Priority[u] \in OS_ActivePrio'
                      /\ pc'[u] \in {"run"} \cup Inside
    BY DEF Fresh, Below
  <2>1. /\ u # f /\ u \in Tcb /\ OnList(u) /\ Priority[u] \in OS_ActivePrio
        /\ pc[u] \in {"run"} \cup Inside
    BY <1>8 DEF Line, Fresh
  <2>2. list'[u] = list[u] /\ list'[Priority[u]] = list[Priority[u]]
    BY <1>1, <1>3, <2>1, LineNodes
  <2> QED
    BY <1>4, <1>9, <2>1, <2>2, KeptOnList DEF Done, Inside
<1>12. OneInside(f)'
  <2> SUFFICES ASSUME NEW u \in Threads, NEW v \in Threads, Below(f, u), pc'[u] # "run", Below(f, v)
               PROVE  Priority[u] <= Priority[v]
    BY DEF OneInside, Below
  <2> QED
    BY <1>9 DEF Line, OneInside, Topmost
<1>13. list'[WaitHead].next = f /\ list'[IdlePrio].next = Idle
  BY <1>1, <1>2, <1>3, LineNodes
<1>14. Called(f)'
  BY <1>3, <1>4, <1>5 DEF Dozes, Called, Waits
<1>15. FirstIs(f)'
  BY <1>4, <1>5, <1>13, <1>14 DEF Line, FirstIs, Dozes, Called, Roused
<1>16. Holds(f)'
  <2>1. CASE OS_This = f
    BY <1>4, <2>1 DEF Holds, Dozes
  <2>2. CASE OS_This # f /\ ~pend
    <3>1. Topmost(f) /\ pc[f] = "waiting"
      BY <2>2 DEF Line, Holds, Dozes, Called
    <3>2. Topmost(f)'
      BY <3>1 DEF Topmost, Below
    <3>3. CASE \E u \in Threads, to \in Done : /\ Running(u) /\ u # f
                                               /\ pc' = [pc EXCEPT ![u] = to] /\ pend' = pend
      <4>1. pc'[OS_This] \in Done
        BY <3>3, LineNodes DEF Running, Line, LineTypes
      <4> QED
        BY <1>5, <1>14, <3>1, <3>2, <4>1 DEF Holds
    <3>4. CASE pc' = pc /\ pend' = Scheduled(OS_ActivePrio')
      <4>1. Priority[f] < Priority[OS_This]
        BY <3>1, <1>1, LineNodes DEF Topmost, Below
      <4>2. OS_ActivePrio' \in SUBSET {Priority[t] : t \in Threads} /\ Priority[f] \in OS_ActivePrio'
        BY <1>2, <1>4
      <4> DEFINE S == OS_ActivePrio'
      <4> HIDE DEF S
      <4>3. Scheduled(S)
        BY <1>2, <4>1, <4>2, ScheduledFor DEF S
      <4> QED
        BY <3>4, <4>3 DEF Holds, S
    <3> QED
      BY <3>3, <3>4
  <2>3. CASE pend
    <3>1. pend'
      BY <2>3 DEF Running, Scheduled
    <3> QED
      BY <3>1 DEF Holds
  <2> QED
    BY <2>1, <2>2, <2>3
<1> QED
  BY <1>2, <1>4, <1>7, <1>10, <1>11, <1>12, <1>15, <1>16 DEF Line

\* A thread behind f goes a step further into its post, or leaves it before it wakes
\* anybody.
LEMMA LineLocal ==
  ASSUME NEW f, Line(f), NEW u \in Threads, Running(u), u # f, pc[u] \notin Done,
         NEW to \in {"run"} \cup Inside, pc' = [pc EXCEPT ![u] = to],
         UNCHANGED <<list, OS_ActivePrio, OS_This, pend, timer, woken, Careful>>
  PROVE  Line(f)'
<1>1. /\ OS_This = u /\ ~pend /\ u \in Tcb /\ Below(f, u) /\ Topmost(f)
      /\ f \in Threads => Dozes(f) /\ pc[f] = "waiting"
  BY Runner, LineNodes
<1>2. /\ pc' \in [Tcb -> {"run", "blocked", "waiting"} \cup Inside]
      /\ pc'[u] = to /\ \A v \in Tcb \ {u} : pc'[v] = pc[v]
  BY <1>1 DEF Line, LineTypes
<1>3. LineTypes'
  BY <1>2, LineNodes DEF Line, LineTypes
<1>4. Lost(f)'
  <2> SUFFICES ASSUME NEW v \in Threads, f \in Threads, Priority[v] < Priority[f]
               PROVE  pc'[v] = "waiting" /\ Priority[v] \notin OS_ActivePrio'
    BY DEF Lost
  <2>1. v # u
    BY <1>1, LineNodes DEF Below
  <2> QED
    BY <1>2, <2>1, LineNodes DEF Line, Lost
<1>5. Fresh(f)'
  BY <1>2, LineNodes DEF Line, Fresh, Below, OnList
<1>6. OneInside(f)'
  <2> SUFFICES ASSUME NEW v \in Threads, NEW w \in Threads, Below(f, v), pc'[v] # "run", Below(f, w)
               PROVE  Priority[v] <= Priority[w]
    BY DEF OneInside, Below
  <2> QED
    BY <1>1, <1>2, LineNodes DEF Line, OneInside, Topmost
<1>7. f \in Threads => Dozes(f)' /\ pc'[f] = "waiting"
  BY <1>1, <1>2, LineNodes DEF Dozes, Waits, OffList
<1>8. FirstIs(f)'
  BY <1>7 DEF Line, FirstIs
<1>9. Holds(f)'
  <2>1. Topmost(f)'
    BY <1>1 DEF Topmost, Below
  <2> QED
    BY <1>7, <2>1 DEF Holds
<1> QED
  BY <1>3, <1>4, <1>5, <1>6, <1>8, <1>9 DEF Line

\* The end of a post: scheduler() hands over to f if it was woken.
LEMMA LineReturn ==
  ASSUME NEW f, Line(f), NEW u \in Threads, Running(u), pc[u] \in Done,
         pc' = [pc EXCEPT ![u] = "run"], pend' = Scheduled(OS_ActivePrio),
         UNCHANGED <<list, OS_ActivePrio, OS_This, timer, woken, Careful>>
  PROVE  Line(f)'
<1>1. /\ OS_This = u /\ ~pend /\ u \in Tcb /\ u # f /\ Below(f, u) /\ Topmost(f)
      /\ f \in Threads => (Dozes(f) \/ Called(f)) /\ pc[f] = "waiting"
  <2>1. u # f
    <3>1. u = f => pc[u] \in {"blocked", "waiting", "run"}
      BY Runner DEF Called, Roused, Waits
    <3> QED
      BY <3>1 DEF Done
  <2> QED
    BY <2>1, Runner, LineNodes
<1>2. /\ pc' \in [Tcb -> {"run", "blocked", "waiting"} \cup Inside]
      /\ pc'[u] = "run" /\ \A v \in Tcb \ {u} : pc'[v] = pc[v]
  BY <1>1 DEF Line, LineTypes
<1>3. pend' \in BOOLEAN
  BY <1>1 DEF Scheduled
<1>4. LineTypes'
  BY <1>2, <1>3, LineNodes DEF Line, LineTypes
<1>5. Lost(f)'
  <2> SUFFICES ASSUME NEW v \in Threads, f \in Threads, Priority[v] < Priority[f]
               PROVE  pc'[v] = "waiting" /\ Priority[v] \notin OS_ActivePrio'
    BY DEF Lost
  <2>1. v # u
    BY <1>1, LineNodes DEF Below
  <2> QED
    BY <1>2, <2>1, LineNodes DEF Line, Lost
<1>6. Fresh(f)' /\ OneInside(f)'
  BY <1>2, LineNodes DEF Line, Fresh, OneInside, Below, OnList
<1>7. f \in Threads => pc'[f] = "waiting" /\ (Dozes(f) => Dozes(f)') /\ (Called(f) => Called(f)')
  BY <1>1, <1>2, LineNodes DEF Dozes, Called, Waits, OnList, OffList
<1>8. FirstIs(f)'
  BY <1>1, <1>7 DEF Line, FirstIs
<1>9. Holds(f)'
  <2>1. CASE f \in Threads /\ Called(f)
    <3>1. Priority[f] < Priority[OS_This] /\ Priority[f] \in OS_ActivePrio
      BY <1>1, <2>1, LineNodes DEF Below, Called
    <3>2. pend'
      BY <1>1, <2>1, <3>1, ScheduledFor DEF Line, LineTypes
    <3> QED
      BY <3>2 DEF Holds
  <2>2. CASE ~(f \in Threads /\ Called(f))
    <3>1. Topmost(f)'
      BY <1>1 DEF Topmost, Below
    <3> QED
      BY <1>1, <1>7, <2>2, <3>1 DEF Holds
  <2> QED
    BY <2>1, <2>2
<1> QED
  BY <1>4, <1>5, <1>6, <1>8, <1>9 DEF Line

\* While nobody has waited, asking for PendSV does no harm.
LEMMA LinePend ==
  ASSUME Line(WaitHead), pend' \in {pend, Scheduled(OS_ActivePrio)},
         UNCHANGED <<list, OS_ActivePrio, OS_This, pc, timer, woken, Careful>>
  PROVE  Line(WaitHead)'
<1>1. WaitHead \notin Threads /\ OS_This # WaitHead
  BY LineNodes DEF Line, LineTypes
<1>2. pend' \in BOOLEAN /\ (pend => pend')
  BY DEF Line, LineTypes, Scheduled
<1>3. LineTypes' /\ Lost(WaitHead)' /\ Fresh(WaitHead)' /\ OneInside(WaitHead)' /\ FirstIs(WaitHead)'
  BY <1>1, <1>2 DEF Line, LineTypes, Lost, Fresh, OneInside, FirstIs, Below, OnList
<1>4. pend \/ Topmost(WaitHead)
  BY <1>1 DEF Line, Holds
<1>5. Holds(WaitHead)'
  BY <1>1, <1>2, <1>4 DEF Holds, Topmost, Below
<1> QED
  BY <1>3, <1>5 DEF Line

\* Nothing of the scheduler changes.
LEMMA LineSame ==
  ASSUME NEW f, Line(f), UNCHANGED <<list, OS_ActivePrio, OS_This, pend, pc, timer, woken, Careful>>
  PROVE  Line(f)'
BY DEF Line, LineTypes, Lost, Fresh, OneInside, FirstIs, Holds, Topmost, Below, Dozes, Called,
       Roused, Waits, OnList, OffList

\* No timer runs and no other thread's timer expires: only PendSV and the switch of
\* a wait are left of the kernel's steps.
LEMMA LineKernel ==
  ASSUME NEW f, Line(f), KernelStep, UNCHANGED Careful
  PROVE  /\ Line(f)' /\ woken' = woken
         /\ \A t \in Threads : pc'[t] = pc[t] \/ (pc[t] = "blocked" /\ pc'[t] = "waiting")
<1>1. \A t \in Threads : timer[t] # "armed"
  BY LineNodes DEF Line, LineTypes
<1>2. Shift \/ \E t \in Threads : Switch(t)
  BY <1>1 DEF KernelStep, OtherTick, Expire, Line, LineTypes
<1>3. CASE Shift
  BY <1>3, LineShift DEF Shift
<1>4. CASE \E t \in Threads : Switch(t)
  BY <1>4, LineSwitch, LineNodes DEF Switch, Line, LineTypes
<1> QED
  BY <1>2, <1>3, <1>4

\* A waiting first of WaitHead sleeps if and only if it dozes.
LEMMA FirstSleeps ==
  ASSUME NEW f \in Threads, Line(f)
  PROVE  f \in Sleepers <=> Dozes(f)
BY LineNodes DEF Line, FirstIs, Dozes, Called, Roused, Waits, Sleepers

\* The most urgent thread.
LEMMA ServerIs ==
  ASSUME Threads # {}
  PROVE  Server \in Threads /\ \A u \in Threads : Priority[Server] <= Priority[u]
<1> DEFINE S == {Priority[t] : t \in Threads}
<1>1. S \in SUBSET Nat /\ S # {}
  BY LineNodes
<1>2. PICK p \in S : \A r \in S : p <= r
  BY <1>1, Least
<1>3. \E t \in Threads : \A u \in Threads : Priority[t] <= Priority[u]
  BY <1>2
<1> QED
  BY <1>3 DEF Server

\* At the start everybody is on its ready list, and WaitHead is empty.
LEMMA StartLists ==
  ASSUME SchedInit
  PROVE  /\ list \in Links(Node) /\ list[WaitHead].next = WaitHead
         /\ \A u \in Tcb : OnList(u)
<1>1. list = [n \in Node |->
       CASE n \in Tcb   -> [next |-> Priority[n], prev |-> Priority[n]]
         [] n \in Heads -> LET t == CHOOSE u \in Tcb : Priority[u] = n
                           IN  [next |-> t, prev |-> t]
         [] OTHER       -> [next |-> n, prev |-> n]]
  BY DEF SchedInit
<1>2. \A u \in Tcb : OnList(u)
  <2> SUFFICES ASSUME NEW u \in Tcb PROVE OnList(u)
    OBVIOUS
  <2>1. u \in Node /\ Priority[u] \in Node /\ Priority[u] \notin Tcb
        /\ Priority[u] \in Heads /\ u \notin Heads
    BY LineNodes DEF Heads
  <2>2. (CHOOSE v \in Tcb : Priority[v] = Priority[u]) = u
    BY BlockingAssumption
  <2>3. list[u] = [next |-> Priority[u], prev |-> Priority[u]]
    BY <1>1, <2>1
  <2>4. list[Priority[u]] = [next |-> u, prev |-> u]
    BY <1>1, <2>1, <2>2
  <2> QED
    BY <2>3, <2>4 DEF OnList
<1>3. list[WaitHead].next = WaitHead
  <2>1. WaitHead \in Node /\ WaitHead \notin Tcb /\ WaitHead \notin Heads
    BY LineNodes DEF Heads
  <2> QED
    BY <1>1, <2>1
<1>4. list \in Links(Node)
  <2>1. \A x \in Node : [next |-> x, prev |-> x] \in [next : Node, prev : Node]
    OBVIOUS
  <2>2. ASSUME NEW n \in Node PROVE list[n] \in [next : Node, prev : Node]
    <3>1. CASE n \in Tcb
      <4>1. list[n] = [next |-> Priority[n], prev |-> Priority[n]] /\ Priority[n] \in Node
        BY <1>2, <3>1, LineNodes DEF OnList
      <4> QED
        BY <2>1, <4>1
    <3>2. CASE n \in Heads
      <4>1. PICK u \in Tcb : n = Priority[u]
        BY <3>2 DEF Heads
      <4>2. list[n] = [next |-> u, prev |-> u] /\ u \in Node
        BY <1>2, <4>1, LineNodes DEF OnList
      <4> QED
        BY <2>1, <4>2
    <3>3. CASE n \notin Tcb /\ n \notin Heads
      BY <1>1, <2>1, <3>3
    <3> QED
      BY <3>1, <3>2, <3>3
  <2> QED
    BY <1>1, <2>2 DEF Links
<1> QED
  BY <1>2, <1>3, <1>4

\* At the start everybody is ready, and nobody has waited.
LEMMA LineStarts ==
  ASSUME SchedInit, Threads # {}, {"paced", "untimed", "calm"} \subseteq Careful
  PROVE  Line(WaitHead)
<1>1. /\ OS_ActivePrio = {Priority[t] : t \in Threads} /\ OS_This = Server /\ pend = FALSE
      /\ pc = [t \in Tcb |-> "run"] /\ timer = [t \in Tcb |-> "off"] /\ woken = {}
  BY DEF SchedInit
<1>2. /\ list \in Links(Node) /\ list[WaitHead].next = WaitHead
      /\ \A u \in Tcb : OnList(u)
  BY StartLists
<1>3. Server \in Threads /\ \A u \in Threads : Priority[Server] <= Priority[u]
  BY ServerIs
<1>4. LineTypes
  BY <1>1, <1>2, <1>3, LineNodes DEF LineTypes
<1>5. list[IdlePrio].next = Idle
  <2>1. OnList(Idle) /\ Priority[Idle] = IdlePrio
    BY <1>2, LineNodes
  <2> QED
    BY <2>1 DEF OnList
<1>6. WaitHead \notin Threads
  BY LineNodes
<1>7. Fresh(WaitHead) /\ Lost(WaitHead) /\ OneInside(WaitHead) /\ FirstIs(WaitHead)
  BY <1>1, <1>2, <1>5, <1>6, LineNodes DEF Fresh, Lost, OneInside, FirstIs
<1>8. Holds(WaitHead)
  BY <1>1, <1>3, <1>6 DEF Holds, Topmost, Below
<1> QED
  BY <1>4, <1>7, <1>8 DEF Line

\* In a line the processor is given to a thread that is ready, or blocking itself.
LEMMA LineRuns ==
  ASSUME NEW f, Line(f)
  PROVE  RunsAThread
<1>1. OS_This \in Tcb
  BY DEF Line, LineTypes
<1>2. ASSUME ~pend, OS_This \in Sleepers
      PROVE  pc[OS_This] = "blocked"
  <2>1. OS_This # Idle
    BY <1>2 DEF Sleepers, Line, LineTypes
  <2>2. OS_This \in Threads
    BY <1>1, <2>1 DEF Tcb
  <2>3. Running(OS_This)
    BY <1>2 DEF Running
  <2>4. pc[OS_This] \in {"blocked", "waiting", "asleep"} /\ OS_This \notin woken
    BY <1>2 DEF Sleepers
  <2>5. CASE OS_This = f
    BY <2>2, <2>3, <2>4, <2>5, Runner DEF Called, Roused
  <2>6. CASE OS_This # f
    BY <2>2, <2>3, <2>4, <2>6, Runner DEF Inside
  <2> QED
    BY <2>5, <2>6
<1> QED
  BY <1>1, <1>2 DEF RunsAThread

\* While nobody has waited nobody sleeps.
LEMMA LineSleeps ==
  ASSUME NEW f, Line(f), Sleepers # {}
  PROVE  f \in Threads
<1> SUFFICES ASSUME f = WaitHead PROVE FALSE
  BY DEF Line
<1>1. \A u \in Threads : pc[u] \in {"run"} \cup Inside
  BY DEF Line, Fresh, Below
<1>2. \A u \in Tcb : pc[u] \in {"run"} \cup Inside
  BY <1>1 DEF Tcb, Line, LineTypes
<1> QED
  BY <1>2 DEF Sleepers, Inside

\* Only one thread is inside a post.
LEMMA OnlyPoster ==
  ASSUME NEW f, Line(f), NEW u \in Threads, NEW v \in Threads, pc[u] \in Inside, pc[v] \in Inside
  PROVE  u = v /\ u # f /\ Below(f, u)
<1>1. \A w \in Threads : pc[w] \in Inside => w # f /\ Below(f, w)
  <2> SUFFICES ASSUME NEW w \in Threads, pc[w] \in Inside PROVE w # f /\ Below(f, w)
    OBVIOUS
  <2>1. w # f
    BY DEF Line, FirstIs, Dozes, Called, Roused, Waits, Inside
  <2>2. f \in Threads => ~(Priority[w] < Priority[f])
    BY DEF Line, Lost, Inside
  <2>3. f \in Threads \cup {WaitHead}
    BY DEF Line
  <2> QED
    BY <2>1, <2>2, <2>3, LineNodes DEF Below
<1>2. pc[u] # "run" /\ pc[v] # "run"
  BY DEF Inside
<1>3. Priority[u] <= Priority[v] /\ Priority[v] <= Priority[u]
  BY <1>1, <1>2 DEF Line, OneInside
<1> QED
  BY <1>1, <1>3, LineNodes

-----------------------------------------------------------------------------
\* The semaphore: while f sleeps, or has taken its unit, there is none, and while it
\* is on its way there is one.
SemLine(f) ==
  /\ Line(f) /\ Counter \in Nat
  /\ f \in Threads => Counter = IF f \in woken THEN 1 ELSE 0

\* A post, by a thread or by an interrupt (semaphore.c:322-341).
LEMMA SemPosted ==
  ASSUME NEW f, SemLine(f), Posted, FirstAsleep, UNCHANGED <<OS_This, timer, Careful>>,
         \/ \E t \in Threads : /\ Running(t) /\ pc[t] = "run" /\ pend' = pend
                               /\ pc' = [pc EXCEPT ![t] = IF list_empty(list, WaitHead)
                                                         THEN "run" ELSE "posting"]
         \/ /\ pc' = pc
            /\ pend' = IF list_empty(list, WaitHead) THEN pend ELSE Scheduled(OS_ActivePrio')
  PROVE  SemLine(f)'
<1>1. Line(f) /\ list[WaitHead].next = f /\ f \in Threads \cup {WaitHead} /\ "paced" \in Careful
  BY DEF SemLine, Line, LineTypes, FirstIs
<1>2. Counter' = Counter + 1 /\ Counter' \in Nat
  BY DEF Posted, SemLine
<1>3. CASE f = WaitHead
  <2>1. UNCHANGED <<list, OS_ActivePrio, woken>> /\ list_empty(list, WaitHead)
    BY <1>1, <1>3 DEF Posted, list_empty
  <2>2. f \notin Threads
    BY <1>3, LineNodes
  <2>3. CASE \E t \in Threads : /\ Running(t) /\ pc[t] = "run" /\ pend' = pend
                                /\ pc' = [pc EXCEPT ![t] = "run"]
    <3>1. PICK t \in Threads : /\ Running(t) /\ pc[t] = "run" /\ t # f
                               /\ pc' = [pc EXCEPT ![t] = "run"] /\ pend' = pend
      BY <2>2, <2>3
    <3>2. pc[t] \notin Done
      BY <3>1 DEF Done
    <3>3. Line(f)'
      BY <1>1, <2>1, <3>1, <3>2, LineLocal
    <3> QED
      BY <1>2, <2>2, <3>3 DEF SemLine
  <2>4. CASE pc' = pc /\ pend' = pend
    <3>1. Line(f)'
      BY <1>1, <2>1, <2>4, LineSame
    <3> QED
      BY <1>2, <2>2, <3>1 DEF SemLine
  <2> QED
    BY <2>1, <2>3, <2>4
<1>4. CASE f \in Threads
  <2>1. f # WaitHead /\ ~list_empty(list, WaitHead)
    BY <1>1, <1>4, LineNodes DEF list_empty
  <2>2. MakeReady(f) /\ f \in Sleepers
    BY <1>1, <2>1 DEF Posted, list_empty, FirstAsleep, Paced
  <2>3. Dozes(f)
    BY <1>1, <1>4, <2>2, FirstSleeps
  <2>4. \/ \E u \in Threads, to \in Done : /\ Running(u) /\ u # f
                                           /\ pc' = [pc EXCEPT ![u] = to] /\ pend' = pend
        \/ pc' = pc /\ pend' = Scheduled(OS_ActivePrio')
    <3>1. CASE \E t \in Threads : /\ Running(t) /\ pc[t] = "run" /\ pend' = pend
                                  /\ pc' = [pc EXCEPT ![t] = "posting"]
      BY <2>3, <3>1 DEF Dozes, Waits, Done
    <3> QED
      BY <2>1, <3>1
  <2>5. Line(f)' /\ woken = {} /\ woken' = {f}
    BY <1>1, <1>4, <2>2, <2>3, <2>4, LineWake
  <2>6. Counter = 0
    BY <1>4, <2>5 DEF SemLine
  <2> QED
    BY <1>2, <2>5, <2>6 DEF SemLine
<1> QED
  BY <1>1, <1>3, <1>4

\* Every step of a polite application keeps the line (semaphore.c:154-341).
LEMMA SemStep ==
  ASSUME NEW f \in Threads \cup {WaitHead}, SemLine(f), Next
  PROVE  \E g \in Threads \cup {WaitHead} : SemLine(g)'
<1>1. Line(f) /\ Counter \in Nat /\ UNCHANGED Careful
  BY DEF SemLine, Next
<1>2. CASE KernelStep /\ UNCHANGED semaphore
  <2>1. Line(f)' /\ woken' = woken
    BY <1>1, <1>2, LineKernel
  <2> QED
    BY <1>2, <2>1 DEF SemLine, semaphore
<1>3. CASE PostFromInterrupt
  BY <1>1, <1>3, SemPosted DEF PostFromInterrupt
<1>4. ASSUME NEW t \in Threads, Fetch(t) PROVE SemLine(f)'
  <2>1. /\ Running(t) /\ pc[t] = "run" /\ Counter > 0 /\ Taken
        /\ UNCHANGED <<list, OS_ActivePrio, OS_This, pend, pc, timer, woken>>
    BY <1>4 DEF Fetch, Calls, sched
  <2>2. Line(f)'
    BY <1>1, <2>1, LineSame
  <2>3. f \notin Threads
    <3> SUFFICES ASSUME f \in Threads PROVE FALSE
      OBVIOUS
    <3>1. f \in woken
      BY <2>1 DEF SemLine
    <3>2. t # f /\ pc[t] \notin Done
      BY <2>1, <3>1, <1>1, Runner DEF Dozes, Roused, Called, Waits, Done
    <3> QED
      BY <1>1, <2>1, <3>1, <3>2, Runner DEF Dozes
  <2>4. Counter' \in Nat
    BY <1>1, <2>1 DEF Taken
  <2> QED
    BY <2>2, <2>3, <2>4 DEF SemLine
<1>5. ASSUME NEW t \in Threads, Resume(t) PROVE SemLine(f)'
  <2>1. Line(f)' /\ t = f /\ f \in woken /\ woken' = {}
    BY <1>1, <1>5, LineResume DEF Resume
  <2>2. Counter = 1
    BY <2>1 DEF SemLine
  <2>3. Counter' = 0
    BY <1>5, <2>2 DEF Resume, Taken
  <2> QED
    BY <2>1, <2>3 DEF SemLine
<1>6. ASSUME NEW t \in Threads, Post(t) PROVE SemLine(f)'
  BY <1>1, <1>6, SemPosted DEF Post, Calls
<1>7. ASSUME NEW t \in Threads, PostReturns(t) PROVE SemLine(f)'
  <2>1. Line(f)'
    BY <1>1, <1>7, LineReturn DEF PostReturns, Done
  <2> QED
    BY <1>7, <2>1 DEF PostReturns, semaphore, SemLine
<1>8. ASSUME NEW t \in Threads, Free(t), UNCHANGED <<Counter, posted>> PROVE SemLine(f)'
  <2>1. Line(f)' /\ woken' = woken
    BY <1>1, <1>8, LineSame DEF Free, sched
  <2> QED
    BY <1>8, <2>1 DEF SemLine
<1>9. ASSUME NEW t \in Threads, NEW timed \in BOOLEAN, Wait(t, timed) PROVE SemLine(t)'
  <2>1. ~timed
    BY <1>1, <1>9 DEF Wait, MayTime, Line, LineTypes
  <2>2. timer' = [timer EXCEPT ![t] = "off"]
    BY <1>9, <2>1 DEF Wait
  <2>3. /\ Running(t) /\ pc[t] = "run" /\ list' = list_add(Off(t), t, WaitHead)
        /\ OS_ActivePrio' = Cleared(t) /\ pc' = [pc EXCEPT ![t] = "blocked"]
        /\ UNCHANGED <<OS_This, pend, woken>> /\ Counter = 0 /\ Counter' = Counter
    BY <1>9 DEF Wait, Calls, semaphore
  <2>4. Line(t)' /\ woken' = {}
    BY <1>1, <2>2, <2>3, LineWait
  <2> QED
    BY <2>3, <2>4 DEF SemLine
<1> QED
  BY <1>2, <1>3, <1>4, <1>5, <1>6, <1>7, <1>8, <1>9 DEF Next, Step

\* What the line says of the semaphore.
LEMMA SemGood ==
  ASSUME NEW f \in Threads \cup {WaitHead}, SemLine(f)
  PROVE  RunsAThread /\ NoLostPost /\ ForeverGetsAUnit
<1>1. Line(f) /\ Counter \in Nat
  BY DEF SemLine
<1>2. ASSUME Sleepers # {} PROVE Counter <= Cardinality(woken)
  <2>1. f \in Threads /\ woken \subseteq {f}
    BY <1>1, <1>2, LineSleeps DEF Line, FirstIs
  <2>2. CASE f \in woken
    <3>1. woken = {f}
      BY <2>1, <2>2
    <3>2. Cardinality(woken) = 1
      BY <3>1, FS_Singleton
    <3> QED
      BY <2>1, <2>2, <3>2 DEF SemLine
  <2>3. CASE f \notin woken
    <3>1. woken = {}
      BY <2>1, <2>3
    <3>2. Cardinality(woken) = 0
      BY <3>1, FS_EmptySet
    <3> QED
      BY <2>1, <2>3, <3>2 DEF SemLine
  <2> QED
    BY <2>2, <2>3
<1>3. ASSUME NEW t \in Threads, Running(t), pc[t] = "waiting" PROVE Counter > 0
  <2>1. t = f /\ f \in woken
    BY <1>1, <1>3, Runner DEF Called, Roused, Inside
  <2> QED
    BY <2>1 DEF SemLine
<1> QED
  BY <1>1, <1>2, <1>3, LineRuns DEF NoLostPost, ForeverGetsAUnit

-----------------------------------------------------------------------------
\* The mailbox: while f sleeps every mail has f woken for it, or a post that is on
\* its way to wake f.
One(S)  == IF S = {} THEN 0 ELSE 1
Wakers  == {t \in Threads : pc[t] \in {"store", "look", "ready"}}
Pending == One(woken) + One(Wakers)

BoxLine(f) ==
  /\ Line(f) /\ "single" \in Careful
  /\ Thread \in [Threads -> Node]
  /\ \A u \in Threads : pc[u] = "ready" => f \in Threads /\ Thread[u] = f
  /\ f \in Threads => M!Count <= Pending

\* The mailbox shares the scheduler.
LEMMA BoxShares ==
  /\ \A t : /\ M!Running(t) <=> Running(t)
            /\ M!MakeReady(t) <=> MakeReady(t)
            /\ M!Off(t) = Off(t) /\ M!Cleared(t) = Cleared(t)
            /\ M!Paced(t) <=> Paced(t)
  /\ \A l, n, h : M!list_add(l, n, h) = list_add(l, n, h)
  /\ \A l, n : M!list_del(l, n) = list_del(l, n) /\ (M!list_empty(l, n) <=> list_empty(l, n))
  /\ \A a : M!Scheduled(a) = Scheduled(a)
  /\ M!Sleepers = Sleepers /\ (M!KernelStep <=> KernelStep) /\ (M!MayTime <=> MayTime)
<1>1. \A l, n, h : M!list_add(l, n, h) = list_add(l, n, h)
  BY DEF M!list_add, list_add, M!__list_add, __list_add
<1>2. \A l, n : M!list_del(l, n) = list_del(l, n) /\ (M!list_empty(l, n) <=> list_empty(l, n))
  BY DEF M!list_del, list_del, M!__list_del, __list_del, M!list_empty, list_empty
<1>3. M!Sleepers = Sleepers
  BY DEF M!Sleepers, Sleepers, M!Tcb, Tcb
<1>4. \A t : M!MakeReady(t) <=> MakeReady(t)
  BY <1>1, <1>3 DEF M!MakeReady, MakeReady
<1>5. \A t : M!Off(t) = Off(t)
  BY <1>2 DEF M!Off, Off
<1>6. \A t : M!Cleared(t) = Cleared(t)
  BY <1>2, <1>5 DEF M!Cleared, Cleared
<1>7. \A S : M!bit_scan_forward(S) = bit_scan_forward(S)
  BY DEF M!bit_scan_forward, bit_scan_forward, M!IdlePrio, IdlePrio
<1>8. \A a : M!Scheduled(a) = Scheduled(a)
  BY <1>7 DEF M!Scheduled, Scheduled, M!Tcb, Tcb
<1>9. M!Shift <=> Shift
  BY <1>7 DEF M!Shift, Shift
<1>10. \A t : M!Running(t) <=> Running(t)
  BY DEF M!Running, Running
<1>11. \A t : (M!Switch(t) <=> Switch(t)) /\ (M!Expire(t) <=> Expire(t))
  BY <1>4, <1>10 DEF M!Switch, Switch, M!Expire, Expire
<1>12. (M!KernelStep <=> KernelStep) /\ (M!MayTime <=> MayTime)
  BY <1>9, <1>11 DEF M!KernelStep, KernelStep, M!OtherTick, OtherTick, M!MayTime, MayTime
<1>13. \A t : M!Paced(t) <=> Paced(t)
  BY <1>3 DEF M!Paced, Paced
<1> QED
  BY <1>1, <1>2, <1>3, <1>4, <1>5, <1>6, <1>8, <1>10, <1>12, <1>13

\* How many mails there are.
LEMMA CountIs ==
  ASSUME BoxInv
  PROVE  /\ M!Count \in Nat /\ (M!Count = 0 <=> Read = Write)
         /\ UNCHANGED <<Read, Write>> => M!Count' = M!Count
         /\ Read # Write /\ M!Taken => M!Count' = M!Count - 1
         /\ M!After(Write) # Read /\ Write' = M!After(Write) /\ UNCHANGED Read
              => M!Count' = M!Count + 1
<1>1. Read \in 0..Size /\ Write \in 0..Size
  BY DEF BoxInv, BoxTyped
<1>2. M!Count \in 0..Size /\ (M!Count = 0 <=> Read = Write)
  BY <1>1, DistanceIs DEF M!Count
<1>3. UNCHANGED <<Read, Write>> => M!Count' = M!Count
  BY DEF M!Count
<1>4. Read # Write /\ M!Taken => M!Count' = M!Count - 1
  BY <1>1, OneLess DEF M!Count, M!Taken
<1>5. M!After(Write) # Read /\ Write' = M!After(Write) /\ UNCHANGED Read
        => M!Count' = M!Count + 1
  BY <1>1, OneMore DEF M!Count
<1>6. \A c \in 0..Size : c \in Nat
  BY SizeIs
<1> QED
  BY <1>2, <1>3, <1>4, <1>5, <1>6

\* A mail from an interrupt comes with its wake-up.
LEMMA BoxInterrupt ==
  ASSUME NEW f, BoxLine(f), BoxInv, NEW m \in Mails, M!PostFromInterrupt(m), UNCHANGED Careful
  PROVE  BoxLine(f)'
<1>1. /\ Line(f) /\ list[WaitHead].next = f /\ f \in Threads \cup {WaitHead}
      /\ "paced" \in Careful /\ woken \subseteq {f}
  BY DEF BoxLine, Line, LineTypes, FirstIs
<1>2. /\ M!FirstAsleep /\ M!After(Write) # Read /\ Write' = M!After(Write)
      /\ UNCHANGED <<OS_This, pc, timer, Read, Thread>>
      /\ list_empty(list, WaitHead) => UNCHANGED <<list, OS_ActivePrio, woken, pend>>
      /\ ~list_empty(list, WaitHead) => /\ MakeReady(list[WaitHead].next)
                                        /\ pend' = Scheduled(OS_ActivePrio')
  <2>1. IF list_empty(list, WaitHead)
        THEN UNCHANGED <<list, OS_ActivePrio, woken, pend>>
        ELSE M!MakeReady(list[WaitHead].next) /\ pend' = M!Scheduled(OS_ActivePrio')
    BY BoxShares DEF M!PostFromInterrupt
  <2>2. M!Scheduled(OS_ActivePrio') = Scheduled(OS_ActivePrio')
    BY BoxShares
  <2> QED
    BY <2>1, <2>2, BoxShares DEF M!PostFromInterrupt, M!locals
<1>3. M!Count' = M!Count + 1 /\ M!Count \in Nat
  BY <1>2, CountIs
<1>4. Wakers' = Wakers
  BY <1>2 DEF Wakers
<1>5. CASE f = WaitHead
  <2>1. f \notin Threads
    BY <1>5, LineNodes
  <2>2. UNCHANGED <<list, OS_ActivePrio, woken, pend>>
    BY <1>1, <1>2, <1>5 DEF list_empty
  <2>3. Line(f)'
    BY <1>1, <1>2, <2>2, LineSame
  <2> QED
    BY <1>2, <2>1, <2>3 DEF BoxLine
<1>6. CASE f \in Threads
  <2>1. f # WaitHead
    BY <1>6, LineNodes
  <2>2. MakeReady(f) /\ f \in Sleepers /\ pend' = Scheduled(OS_ActivePrio')
    BY <1>1, <1>2, <2>1, BoxShares DEF list_empty, M!FirstAsleep, Paced
  <2>3. Dozes(f)
    BY <1>1, <1>6, <2>2, FirstSleeps
  <2>4. Line(f)' /\ woken = {} /\ woken' = {f}
    <3>1. UNCHANGED <<OS_This, timer, Careful>> /\ pc' = pc
      BY <1>2
    <3> QED
      BY <1>1, <1>6, <2>2, <2>3, <3>1, LineWake
  <2>5. One(woken) = 0 /\ One(woken') = 1 /\ One(Wakers) \in Nat
    BY <2>4 DEF One
  <2>6. Pending' = 1 + One(Wakers) /\ Pending = 0 + One(Wakers)
    BY <1>4, <2>4, <2>5 DEF Pending, One
  <2>7. M!Count <= Pending
    BY <1>6 DEF BoxLine
  <2>8. M!Count' <= Pending'
    BY <1>3, <2>5, <2>6, <2>7
  <2> QED
    BY <1>2, <2>4, <2>8 DEF BoxLine
<1> QED
  BY <1>1, <1>5, <1>6

\* A step of a thread inside mail_post that does not wake anybody.
LEMMA BoxLocal ==
  ASSUME NEW f, BoxLine(f), BoxInv, NEW t \in Threads, Running(t), t # f, pc[t] \notin Done,
         NEW to \in {"run"} \cup Inside, pc' = [pc EXCEPT ![t] = to],
         UNCHANGED <<list, OS_ActivePrio, OS_This, pend, timer, woken, Careful>>,
         Thread' \in [Threads -> Node], \A u \in Threads \ {t} : Thread'[u] = Thread[u],
         to = "ready" => f \in Threads /\ Thread'[t] = f,
         f \in Threads => M!Count' <= Pending'
  PROVE  BoxLine(f)'
<1>1. Line(f)'
  BY LineLocal DEF BoxLine
<1>2. \A u \in Threads : pc'[u] = IF u = t THEN to ELSE pc[u]
  BY LineNodes DEF BoxLine, Line, LineTypes
<1> QED
  BY <1>1, <1>2 DEF BoxLine

\* Whoever is on its way to wake a thread is the only one inside mail_post.
LEMMA WakersAre ==
  ASSUME NEW f, Line(f), NEW t \in Threads, pc[t] \in Inside, NEW to,
         pc' = [pc EXCEPT ![t] = to]
  PROVE  /\ One(Wakers) = IF pc[t] \in {"store", "look", "ready"} THEN 1 ELSE 0
         /\ One(Wakers') = IF to \in {"store", "look", "ready"} THEN 1 ELSE 0
<1>1. \A u \in Threads : pc[u] \in {"store", "look", "ready"} => u = t
  BY OnlyPoster DEF Inside
<1>2. \A u \in Threads : pc'[u] = IF u = t THEN to ELSE pc[u]
  BY LineNodes DEF Line, LineTypes
<1>3. Wakers = IF pc[t] \in {"store", "look", "ready"} THEN {t} ELSE {}
  BY <1>1 DEF Wakers
<1>4. Wakers' = IF to \in {"store", "look", "ready"} THEN {t} ELSE {}
  BY <1>1, <1>2 DEF Wakers
<1> QED
  BY <1>3, <1>4 DEF One

\* Steps of a thread that concern neither the line nor the mails on their way.
LEMMA WakersSame ==
  ASSUME NEW f, Line(f), NEW t \in Threads, NEW to, pc' = [pc EXCEPT ![t] = to],
         pc[t] \notin {"store", "look", "ready"}, to \notin {"store", "look", "ready"}
  PROVE  Wakers' = Wakers
<1>1. \A u \in Threads : pc'[u] = IF u = t THEN to ELSE pc[u]
  BY LineNodes DEF Line, LineTypes
<1> QED
  BY <1>1 DEF Wakers

\* NULL is a place to point to.
LEMMA ForgetsThread ==
  ASSUME Thread \in [Threads -> Node], NEW t \in Threads, M!Forget(t)
  PROVE  Thread' \in [Threads -> Node] /\ \A u \in Threads \ {t} : Thread'[u] = Thread[u]
BY DEF M!Forget, Node

\* A thread's way through mail_post, access by access (mailbox.c:364-397).
LEMMA BoxPosts ==
  ASSUME NEW f, BoxLine(f), BoxInv, NEW t \in Threads, M!ThreadPosts(t), UNCHANGED Careful
  PROVE  BoxLine(f)'
<1>1. /\ Line(f) /\ list[WaitHead].next = f /\ f \in Threads \cup {WaitHead}
      /\ "paced" \in Careful /\ woken \subseteq {f} /\ Thread \in [Threads -> Node]
      /\ f \in Threads => M!Count <= Pending
  BY DEF BoxLine, Line, LineTypes, FirstIs
<1>2. M!Count \in Nat /\ (UNCHANGED <<Read, Write>> => M!Count' = M!Count)
  BY CountIs
<1>3. pc[t] \in Inside => t # f
  BY <1>1, OnlyPoster
<1>4. ASSUME NEW m \in Mails, M!Post(t, m) PROVE BoxLine(f)'
  <2>1. /\ Running(t) /\ pc[t] = "run" /\ M!FirstAsleep /\ pc' = [pc EXCEPT ![t] = "test"]
        /\ UNCHANGED <<list, OS_ActivePrio, OS_This, pend, timer, woken, Read, Write, Thread>>
    BY <1>4, BoxShares DEF M!Post, M!Calls, M!box
  <2>2. t # f
    <3> SUFFICES ASSUME t = f PROVE FALSE
      OBVIOUS
    <3>1. f # WaitHead
      BY LineNodes
    <3>2. f \in Sleepers
      BY <1>1, <2>1, <3>1, BoxShares DEF M!FirstAsleep, list_empty, Paced
    <3> QED
      BY <2>1, <3>2 DEF Sleepers
  <2>3. Wakers' = Wakers
    BY <1>1, <2>1, WakersSame
  <2>4. Pending' = Pending
    BY <2>1, <2>3 DEF Pending, One
  <2>5. "test" \in Inside /\ pc[t] \notin Done
    BY <2>1 DEF Inside, Done
  <2> HIDE DEF Inside, Done
  <2> QED
    BY <1>1, <1>2, <2>1, <2>2, <2>4, <2>5, BoxLocal
<1>5. ASSUME M!PostTest(t) PROVE BoxLine(f)'
  <2>1. /\ Running(t) /\ pc[t] = "test"
        /\ UNCHANGED <<list, OS_ActivePrio, OS_This, pend, timer, woken, Read, Write>>
    BY <1>5, BoxShares DEF M!PostTest, M!box
  <2>2. PICK to \in {"run", "claim"} : pc' = [pc EXCEPT ![t] = to]
    BY <1>5 DEF M!PostTest
  <2>3. Thread' \in [Threads -> Node] /\ \A u \in Threads \ {t} : Thread'[u] = Thread[u]
    BY <1>1, <1>5, ForgetsThread DEF M!PostTest, M!locals
  <2>4. Wakers' = Wakers
    BY <1>1, <2>1, <2>2, WakersSame
  <2>5. Pending' = Pending
    BY <2>1, <2>4 DEF Pending, One
  <2>6. to \in {"run"} \cup Inside /\ to # "ready" /\ pc[t] \notin Done /\ pc[t] \in Inside
    BY <2>1 DEF Inside, Done
  <2> HIDE DEF Inside, Done
  <2> QED
    BY <1>1, <1>2, <1>3, <2>1, <2>2, <2>3, <2>5, <2>6, BoxLocal
<1>6. ASSUME M!PostClaim(t) PROVE BoxLine(f)'
  <2>1. /\ Running(t) /\ pc[t] = "claim" /\ pc' = [pc EXCEPT ![t] = "store"] /\ Write' = Index[t]
        /\ UNCHANGED <<list, OS_ActivePrio, OS_This, pend, timer, woken, Read, Thread>>
    BY <1>6, BoxShares DEF M!PostClaim, M!locals
  <2>2. Index[t] = M!After(Write) /\ Index[t] # Read
    BY <2>1 DEF BoxInv, OnePost
  <2>3. M!Count' = M!Count + 1
    BY <2>1, <2>2, CountIs
  <2>4. "store" \in Inside /\ pc[t] \notin Done /\ pc[t] \in Inside
    BY <2>1 DEF Inside, Done
  <2>5. One(Wakers) = 0 /\ One(Wakers') = 1
    BY <1>1, <2>1, <2>4, WakersAre
  <2>6. One(woken) \in Nat
    BY DEF One
  <2>7. One(woken') = One(woken)
    BY <2>1
  <2>8. Pending' = Pending + 1 /\ Pending \in Nat
    BY <2>5, <2>6, <2>7 DEF Pending
  <2>9. f \in Threads => M!Count' <= Pending'
    BY <1>1, <1>2, <2>3, <2>8
  <2> HIDE DEF Inside, Done
  <2> QED
    BY <1>1, <1>3, <2>1, <2>4, <2>9, BoxLocal
<1>7. ASSUME M!PostStore(t) PROVE BoxLine(f)'
  <2>1. /\ Running(t) /\ pc[t] = "store" /\ pc' = [pc EXCEPT ![t] = "look"]
        /\ UNCHANGED <<list, OS_ActivePrio, OS_This, pend, timer, woken, Read, Write, Thread>>
    BY <1>7, BoxShares DEF M!PostStore, M!locals
  <2>2. "look" \in Inside /\ pc[t] \notin Done /\ pc[t] \in Inside
    BY <2>1 DEF Inside, Done
  <2>3. One(Wakers) = 1 /\ One(Wakers') = 1
    BY <1>1, <2>1, <2>2, WakersAre
  <2>4. One(woken') = One(woken)
    BY <2>1
  <2>5. Pending' = Pending
    BY <2>3, <2>4 DEF Pending
  <2> HIDE DEF Inside, Done
  <2> QED
    BY <1>1, <1>2, <1>3, <2>1, <2>2, <2>5, BoxLocal
<1>8. ASSUME M!PostLook(t) PROVE BoxLine(f)'
  <2>1. /\ Running(t) /\ pc[t] = "look"
        /\ UNCHANGED <<list, OS_ActivePrio, OS_This, pend, timer, woken, Read, Write>>
    BY <1>8, BoxShares DEF M!PostLook, M!box
  <2>2. pc[t] \notin Done /\ pc[t] \in Inside /\ "ready" \in Inside
    BY <2>1 DEF Inside, Done
  <2>3. CASE f = WaitHead
    <3>1. f \notin Threads
      BY <2>3, LineNodes
    <3>2. pc' = [pc EXCEPT ![t] = "run"] /\ M!Forget(t)
      BY <1>1, <1>8, <2>3, BoxShares DEF M!PostLook, list_empty
    <3>3. Thread' \in [Threads -> Node] /\ \A u \in Threads \ {t} : Thread'[u] = Thread[u]
      BY <1>1, <3>2, ForgetsThread
    <3> HIDE DEF Inside, Done
    <3> QED
      BY <1>3, <2>1, <2>2, <3>1, <3>2, <3>3, BoxLocal
  <2>4. CASE f \in Threads
    <3>1. f # WaitHead /\ f \in Node
      BY <2>4, LineNodes
    <3>2. pc' = [pc EXCEPT ![t] = "ready"] /\ Thread' = [Thread EXCEPT ![t] = f]
      BY <1>1, <1>8, <3>1, BoxShares DEF M!PostLook, list_empty
    <3>3. /\ Thread' \in [Threads -> Node] /\ Thread'[t] = f
          /\ \A u \in Threads \ {t} : Thread'[u] = Thread[u]
      BY <1>1, <3>1, <3>2
    <3>4. One(Wakers) = 1 /\ One(Wakers') = 1
      BY <1>1, <2>1, <2>2, <3>2, WakersAre
    <3>5. One(woken') = One(woken)
      BY <2>1
    <3>6. Pending' = Pending
      BY <3>4, <3>5 DEF Pending
    <3> HIDE DEF Inside, Done
    <3> QED
      BY <1>1, <1>2, <1>3, <2>1, <2>2, <2>4, <3>2, <3>3, <3>6, BoxLocal
  <2> QED
    BY <1>1, <2>3, <2>4
<1>9. ASSUME M!PostReady(t) PROVE BoxLine(f)'
  <2>1. /\ Running(t) /\ pc[t] = "ready" /\ pc' = [pc EXCEPT ![t] = "return"]
        /\ MakeReady(Thread[t]) /\ UNCHANGED <<OS_This, pend, timer, Read, Write, Thread>>
    BY <1>9, BoxShares DEF M!PostReady, M!box, M!locals
  <2>2. f \in Threads /\ Thread[t] = f
    BY <2>1 DEF BoxLine
  <2>3. pc[t] \notin Done /\ pc[t] \in Inside /\ "return" \in Done
    BY <2>1 DEF Inside, Done
  <2>4. t # f
    BY <1>3, <2>3
  <2>5. Dozes(f)
    BY <1>1, <2>1, <2>2, <2>3, <2>4, Runner
  <2>6. \E u \in Threads, to \in Done : /\ Running(u) /\ u # f
                                        /\ pc' = [pc EXCEPT ![u] = to] /\ pend' = pend
    BY <2>1, <2>3, <2>4
  <2>7. Line(f)' /\ woken = {} /\ woken' = {f}
    <3>1. MakeReady(f) /\ UNCHANGED <<OS_This, timer, Careful>>
      BY <2>1, <2>2
    <3> QED
      BY <1>1, <2>2, <2>5, <2>6, <3>1, LineWake
  <2>8. One(Wakers) = 1 /\ One(Wakers') = 0
    BY <1>1, <2>1, <2>3, WakersAre
  <2>9. One(woken) = 0 /\ One(woken') = 1
    BY <2>7 DEF One
  <2>10. Pending' = Pending
    BY <2>8, <2>9 DEF Pending
  <2>11. \A u \in Threads : pc'[u] = "ready" => pc[u] = "ready"
    BY <1>1, <2>1, LineNodes DEF Line, LineTypes
  <2>12. M!Count' <= Pending'
    BY <1>1, <1>2, <2>1, <2>2, <2>10
  <2>13. Thread' = Thread /\ Careful' = Careful
    BY <2>1
  <2> QED
    BY <2>2, <2>7, <2>11, <2>12, <2>13 DEF BoxLine
<1>10. ASSUME M!PostReturns(t) PROVE BoxLine(f)'
  <2>1. /\ Running(t) /\ pc[t] = "return" /\ pc' = [pc EXCEPT ![t] = "run"] /\ M!Forget(t)
        /\ pend' = M!Scheduled(OS_ActivePrio)
        /\ UNCHANGED <<list, OS_ActivePrio, OS_This, timer, woken, Read, Write>>
    BY <1>10, BoxShares DEF M!PostReturns, M!box
  <2>2. pend' = Scheduled(OS_ActivePrio)
    BY <2>1, BoxShares
  <2>3. pc[t] \in Done /\ pc[t] \in Inside
    BY <2>1 DEF Inside, Done
  <2>4. Line(f)'
    BY <1>1, <2>1, <2>2, <2>3, LineReturn
  <2>5. Wakers' = Wakers
    BY <1>1, <2>1, WakersSame
  <2>6. Pending' = Pending
    BY <2>1, <2>5 DEF Pending, One
  <2>7. Thread' \in [Threads -> Node] /\ \A u \in Threads \ {t} : Thread'[u] = Thread[u]
    BY <1>1, <2>1, ForgetsThread
  <2>8. \A u \in Threads : pc'[u] = "ready" => pc[u] = "ready" /\ u # t
    BY <1>1, <2>1, LineNodes DEF Line, LineTypes
  <2>9. f \in Threads => M!Count' <= Pending'
    BY <1>1, <1>2, <2>1, <2>6
  <2> QED
    BY <2>4, <2>7, <2>8, <2>9 DEF BoxLine
<1> QED
  BY <1>4, <1>5, <1>6, <1>7, <1>8, <1>9, <1>10 DEF M!ThreadPosts

\* Every step of a polite application keeps the line (mailbox.c:198-397).
LEMMA BoxStep ==
  ASSUME NEW f \in Threads \cup {WaitHead}, BoxLine(f), BoxInv, M!Next
  PROVE  \E g \in Threads \cup {WaitHead} : BoxLine(g)'
<1>1. /\ Line(f) /\ "single" \in Careful /\ Thread \in [Threads -> Node] /\ UNCHANGED Careful
      /\ \A u \in Threads : pc[u] = "ready" => f \in Threads /\ Thread[u] = f
      /\ f \in Threads => M!Count <= Pending
  BY DEF BoxLine, M!Next
<1>2. M!Count \in Nat /\ (UNCHANGED <<Read, Write>> => M!Count' = M!Count)
  BY CountIs
<1>3. One(woken) \in Nat /\ One(Wakers) \in Nat /\ Pending = One(woken) + One(Wakers)
  BY DEF One, Pending
<1>4. CASE M!KernelStep /\ UNCHANGED <<M!box, M!locals>>
  <2>1. UNCHANGED <<Read, Write, Thread>> /\ KernelStep
    BY <1>4, BoxShares DEF M!box, M!locals
  <2>2. /\ Line(f)' /\ woken' = woken
        /\ \A t \in Threads : pc'[t] = pc[t] \/ (pc[t] = "blocked" /\ pc'[t] = "waiting")
    BY <1>1, <2>1, LineKernel
  <2>3. Wakers' = Wakers
    BY <2>2 DEF Wakers
  <2>4. Pending' = Pending
    BY <2>2, <2>3 DEF Pending, One
  <2>5. \A u \in Threads : pc'[u] = "ready" => pc[u] = "ready"
    BY <2>2
  <2> QED
    BY <1>1, <1>2, <2>1, <2>2, <2>4, <2>5 DEF BoxLine
<1>5. ASSUME NEW m \in Mails, M!PostFromInterrupt(m) PROVE BoxLine(f)'
  BY <1>1, <1>5, BoxInterrupt
<1>6. ASSUME NEW t \in Threads, M!Fetch(t) PROVE BoxLine(f)'
  <2>1. /\ Read # Write /\ M!Taken /\ UNCHANGED Thread
        /\ UNCHANGED <<list, OS_ActivePrio, OS_This, pend, pc, timer, woken>>
    BY <1>6 DEF M!Fetch, M!sched, M!locals
  <2>2. Line(f)'
    BY <1>1, <2>1, LineSame
  <2>3. Pending' = Pending /\ M!Count' = M!Count - 1
    BY <2>1, CountIs DEF Pending, One, Wakers
  <2>4. f \in Threads => M!Count' <= Pending'
    BY <1>1, <1>2, <1>3, <2>3
  <2> QED
    BY <1>1, <2>1, <2>2, <2>4 DEF BoxLine
<1>7. ASSUME NEW t \in Threads, M!Resume(t) PROVE BoxLine(f)'
  <2>1. /\ Running(t) /\ pc[t] = "waiting" /\ list' = list_del(list, t)
        /\ timer' = [timer EXCEPT ![t] = "off"] /\ woken' = woken \ {t}
        /\ pc' = [pc EXCEPT ![t] = "run"]
        /\ UNCHANGED <<OS_ActivePrio, OS_This, pend, Thread>>
        /\ (Read = Write /\ UNCHANGED <<Read, Write>>) \/ (Read # Write /\ M!Taken)
    BY <1>7, BoxShares DEF M!Resume, M!locals, M!box
  <2>2. Line(f)' /\ t = f /\ f \in woken /\ woken' = {}
    BY <1>1, <2>1, LineResume
  <2>3. One(woken) = 1 /\ One(woken') = 0
    BY <2>2 DEF One
  <2>4. Wakers' = Wakers
    BY <1>1, <2>1, WakersSame
  <2>5. One(Wakers') = One(Wakers)
    BY <2>4
  <2>6. Pending' = One(Wakers) /\ Pending = 1 + One(Wakers)
    BY <1>3, <2>3, <2>5 DEF Pending
  <2>7. M!Count' <= Pending'
    <3>1. CASE Read = Write /\ UNCHANGED <<Read, Write>>
      <4>1. M!Count = 0 /\ M!Count' = M!Count
        BY <3>1, CountIs
      <4> QED
        BY <1>3, <2>6, <4>1
    <3>2. CASE Read # Write /\ M!Taken
      <4>1. M!Count' = M!Count - 1
        BY <3>2, CountIs
      <4> QED
        BY <1>1, <1>2, <1>3, <2>2, <2>6, <4>1
    <3> QED
      BY <2>1, <3>1, <3>2
  <2>8. \A u \in Threads : pc'[u] = "ready" => pc[u] = "ready"
    BY <1>1, <2>1, LineNodes DEF Line, LineTypes
  <2> QED
    BY <1>1, <2>1, <2>2, <2>7, <2>8 DEF BoxLine
<1>8. ASSUME NEW t \in Threads, M!ThreadPosts(t) PROVE BoxLine(f)'
  BY <1>1, <1>8, BoxPosts
<1>9. ASSUME NEW t \in Threads, M!Free(t),
             UNCHANGED <<Read, Write, Mail, put, got, accepted, M!locals>>
      PROVE  BoxLine(f)'
  <2>1. UNCHANGED <<list, OS_ActivePrio, OS_This, pend, pc, timer, woken, Thread, Read, Write>>
    BY <1>9 DEF M!Free, M!sched, M!locals
  <2>2. Line(f)'
    BY <1>1, <2>1, LineSame
  <2>3. Pending' = Pending
    BY <2>1 DEF Pending, One, Wakers
  <2> QED
    BY <1>1, <1>2, <2>1, <2>2, <2>3 DEF BoxLine
<1>10. ASSUME NEW t \in Threads, NEW timed \in BOOLEAN, M!Wait(t, timed) PROVE BoxLine(t)'
  <2>1. ~timed
    BY <1>1, <1>10, BoxShares DEF M!Wait, MayTime, Line, LineTypes
  <2>2. timer' = [timer EXCEPT ![t] = "off"]
    BY <1>10, <2>1 DEF M!Wait
  <2>3. /\ Running(t) /\ pc[t] = "run" /\ list' = list_add(Off(t), t, WaitHead)
        /\ OS_ActivePrio' = Cleared(t) /\ pc' = [pc EXCEPT ![t] = "blocked"]
        /\ UNCHANGED <<OS_This, pend, woken>> /\ Read = Write /\ UNCHANGED <<Read, Write, Thread>>
    BY <1>10, BoxShares DEF M!Wait, M!Calls, M!box, M!locals
  <2>4. Line(t)' /\ woken' = {}
    BY <1>1, <2>2, <2>3, LineWait
  <2>5. M!Count' = 0
    BY <1>2, <2>3, CountIs
  <2>6. Pending' \in Nat
    BY DEF Pending, One
  <2>7. ASSUME NEW u \in Threads, pc'[u] = "ready" PROVE Thread'[u] = t
    <3>1. u # t /\ pc[u] = "ready"
      BY <1>1, <2>3, <2>7, LineNodes DEF Line, LineTypes
    <3>2. Below(f, u) /\ u # f
      BY <1>1, <3>1, OnlyPoster DEF Inside
    <3>3. t = f
      <4> SUFFICES ASSUME t # f PROVE FALSE
        OBVIOUS
      <4>1. Below(f, t) /\ Topmost(f) /\ OS_This = t
        BY <1>1, <2>3, Runner
      <4>2. Priority[t] <= Priority[u]
        BY <3>2, <4>1 DEF Topmost
      <4>3. Priority[u] <= Priority[t]
        BY <1>1, <3>1, <3>2, <4>1 DEF Line, OneInside
      <4> QED
        BY <3>1, <4>2, <4>3, LineNodes
    <3> QED
      BY <1>1, <2>3, <3>1, <3>3
  <2>8. M!Count' <= Pending'
    BY <2>5, <2>6
  <2> QED
    BY <1>1, <2>3, <2>4, <2>7, <2>8 DEF BoxLine
<1> QED
  BY <1>4, <1>5, <1>6, <1>7, <1>8, <1>9, <1>10 DEF M!Next, M!Step

\* What the line says of the mailbox.
LEMMA BoxGood ==
  ASSUME NEW f \in Threads \cup {WaitHead}, BoxLine(f)
  PROVE  RunsAThread /\ M!NoLostMail
<1>1. Line(f)
  BY DEF BoxLine
<1>2. ASSUME Sleepers # {}
      PROVE  M!Count <= Cardinality(woken) + Cardinality(Wakers)
  <2>1. f \in Threads /\ woken \subseteq {f}
    BY <1>1, <1>2, LineSleeps DEF Line, FirstIs
  <2>2. Cardinality(woken) = One(woken)
    <3>1. woken = {} \/ woken = {f}
      BY <2>1
    <3> QED
      BY <3>1, FS_EmptySet, FS_Singleton DEF One
  <2>3. Cardinality(Wakers) = One(Wakers)
    <3>1. CASE Wakers = {}
      BY <3>1, FS_EmptySet DEF One
    <3>2. CASE Wakers # {}
      <4>1. PICK u : u \in Wakers
        BY <3>2
      <4>2. \A v \in Wakers : v = u
        BY <1>1, <4>1, OnlyPoster DEF Wakers, Inside
      <4>3. Wakers = {u}
        BY <4>1, <4>2
      <4> QED
        BY <3>2, <4>3, FS_Singleton DEF One
    <3> QED
      BY <3>1, <3>2
  <2> QED
    BY <2>1, <2>2, <2>3 DEF BoxLine, Pending
<1>3. M!NoLostMail
  BY <1>2, BoxShares, SameCardinality DEF M!NoLostMail, Wakers
<1> QED
  BY <1>1, <1>3, LineRuns

-----------------------------------------------------------------------------
\* The pipe: only the most urgent thread reads, so every other stays on its ready
\* list.  The reader is asleep, and while there is something to read a write is on
\* its way to it; or it was woken and is on its list; or it is up, and no write finds
\* it in pReadThread.
Early == {"copy", "commit", "look", "ready"}

Up == /\ pc[Server] \in {"run"} \cup P!Writing /\ Server \notin woken
      /\ Priority[Server] \in OS_ActivePrio /\ OnList(Server) /\ pReadThread = NULL

PipeTypes ==
  /\ {"single", "paced", "alone", "untimed"} \subseteq Careful
  /\ Server \in Threads /\ list \in Links(Node)
  /\ OS_ActivePrio \subseteq {Priority[t] : t \in Threads}
  /\ OS_This \in Tcb /\ pend \in BOOLEAN
  /\ pc \in [Tcb -> PipePC] /\ pc[Idle] = "run"
  /\ timer = [t \in Tcb |-> "off"]
  /\ woken \subseteq {Server}
  /\ Waker \in [Threads -> Node]

Others ==
  /\ \A t \in Tcb \ {Server} : OnList(t) /\ pc[t] \in {"run"} \cup P!Writing
  /\ \A t \in Threads \ {Server} : Priority[t] \in OS_ActivePrio

Writer ==
  /\ \A t, u \in Threads : pc[t] \in P!Writing /\ pc[u] \in P!Writing => t = u
  /\ \A t \in Threads \ {Server} : pc[t] \in Early => Dozes(Server)
  /\ \A t \in Threads : pc[t] = "ready" => t # Server /\ Waker[t] = Server

Reader ==
  \/ /\ Dozes(Server) /\ pReadThread = Server
     /\ In # Out => \E t \in Threads : pc[t] \in {"look", "ready"}
  \/ Called(Server) /\ pReadThread = Server
  \/ Up

Has ==
  \/ pend
  \/ OS_This = Server /\ (Dozes(Server) => pc[Server] = "blocked")
  \/ OS_This # Server /\ (Dozes(Server) \/ (Called(Server) /\ pc[OS_This] = "return"))

PipeLine == PipeTypes /\ Others /\ Writer /\ Reader /\ Has

\* The pipe shares the scheduler.
LEMMA PipeShares ==
  /\ \A t : /\ P!Running(t) <=> Running(t)
            /\ P!MakeReady(t) <=> MakeReady(t)
            /\ P!Off(t) = Off(t) /\ P!Cleared(t) = Cleared(t)
            /\ P!Paced(t) <=> Paced(t)
            /\ P!MayTake(t) <=> MayTake(t)
  /\ \A a : P!Scheduled(a) = Scheduled(a)
  /\ P!Sleepers = Sleepers /\ (P!KernelStep <=> KernelStep) /\ (P!MayTime <=> MayTime)
<1>1. \A l, n, h : P!list_add(l, n, h) = list_add(l, n, h)
  BY DEF P!list_add, list_add, P!__list_add, __list_add
<1>2. \A l, n : P!list_del(l, n) = list_del(l, n) /\ (P!list_empty(l, n) <=> list_empty(l, n))
  BY DEF P!list_del, list_del, P!__list_del, __list_del, P!list_empty, list_empty
<1>3. P!Sleepers = Sleepers
  BY DEF P!Sleepers, Sleepers, P!Tcb, Tcb
<1>4. \A t : P!MakeReady(t) <=> MakeReady(t)
  BY <1>1, <1>3 DEF P!MakeReady, MakeReady
<1>5. \A t : P!Off(t) = Off(t)
  BY <1>2 DEF P!Off, Off
<1>6. \A t : P!Cleared(t) = Cleared(t)
  BY <1>2, <1>5 DEF P!Cleared, Cleared
<1>7. \A S : P!bit_scan_forward(S) = bit_scan_forward(S)
  BY DEF P!bit_scan_forward, bit_scan_forward, P!IdlePrio, IdlePrio
<1>8. \A a : P!Scheduled(a) = Scheduled(a)
  BY <1>7 DEF P!Scheduled, Scheduled, P!Tcb, Tcb
<1>9. P!Shift <=> Shift
  BY <1>7 DEF P!Shift, Shift
<1>10. \A t : P!Running(t) <=> Running(t)
  BY DEF P!Running, Running
<1>11. \A t : (P!Switch(t) <=> Switch(t)) /\ (P!Expire(t) <=> Expire(t))
  BY <1>4, <1>10 DEF P!Switch, Switch, P!Expire, Expire
<1>12. (P!KernelStep <=> KernelStep) /\ (P!MayTime <=> MayTime)
  BY <1>9, <1>11 DEF P!KernelStep, KernelStep, P!OtherTick, OtherTick, P!MayTime, MayTime
<1>13. \A t : P!Paced(t) <=> Paced(t)
  BY <1>3 DEF P!Paced, Paced
<1>14. \A t : P!MayTake(t) <=> MayTake(t)
  BY DEF P!MayTake, MayTake, P!Server, Server
<1> QED
  BY <1>3, <1>4, <1>5, <1>6, <1>8, <1>10, <1>12, <1>13, <1>14

\* Where the reader is, and who else may run.
LEMMA ReaderIs ==
  ASSUME PipeLine
  PROVE  /\ Server \in Threads /\ Server \in Tcb /\ Server # Idle /\ Server # NULL
         /\ \A u \in Threads : Priority[Server] <= Priority[u]
         /\ \A u \in Tcb \ {Server} : Priority[Server] < Priority[u]
         /\ Server \in Sleepers <=> Dozes(Server)
         /\ Dozes(Server) \/ Called(Server) => pReadThread = Server /\ ~Up
         /\ ~(Dozes(Server) /\ Called(Server))
         /\ pReadThread = NULL <=> Up
         /\ \A t \in Threads : Running(t) /\ t # Server /\ pc[t] # "return" => Dozes(Server)
         /\ \A t \in Threads : Waits(t) => t = Server
<1>1. Server \in Threads /\ Server \in Tcb /\ Server # Idle /\ Server # NULL
  BY LineNodes, NodesAssumption DEF PipeLine, PipeTypes
<1>2. \A u \in Threads : Priority[Server] <= Priority[u]
  BY <1>1, ServerIs
<1>3. \A u \in Tcb \ {Server} : Priority[Server] < Priority[u]
  <2> SUFFICES ASSUME NEW u \in Tcb, u # Server PROVE Priority[Server] < Priority[u]
    OBVIOUS
  <2>1. Priority[u] # Priority[Server] /\ Priority[u] \in 0..32 /\ Priority[Server] \in 0..31
    BY <1>1, LineNodes
  <2>2. u \in Threads \/ Priority[u] = 32
    BY LineNodes DEF Tcb
  <2> QED
    BY <1>2, <2>1, <2>2
<1>4. Dozes(Server) \/ Called(Server) => pReadThread = Server /\ ~Up
  BY <1>1 DEF PipeLine, Reader, Dozes, Called, Up, Waits, P!Writing
<1>5. ~(Dozes(Server) /\ Called(Server))
  BY DEF Dozes, Called
<1>6. pReadThread = NULL <=> Up
  BY <1>1 DEF PipeLine, Reader, Up
<1>7. Server \in Sleepers <=> Dozes(Server)
  BY <1>1 DEF PipeLine, Reader, Sleepers, Dozes, Called, Up, Waits, P!Writing
<1>8. \A t \in Threads : Running(t) /\ t # Server /\ pc[t] # "return" => Dozes(Server)
  BY DEF PipeLine, Has, Running
<1>9. \A t \in Threads : Waits(t) => t = Server
  BY LineNodes DEF PipeLine, Others, Waits, P!Writing
<1> QED
  BY <1>1, <1>2, <1>3, <1>4, <1>5, <1>6, <1>7, <1>8, <1>9

\* PendSV gives the processor to the reader, unless it sleeps (kernel.c:399-409).
LEMMA PipeShift ==
  ASSUME PipeLine, Shift, UNCHANGED <<Careful, In, Out, pReadThread, Waker>>
  PROVE  PipeLine'
<1> DEFINE p == bit_scan_forward(OS_ActivePrio)
<1>1. /\ pend' = FALSE /\ OS_This' = list[p].next
      /\ UNCHANGED <<list, OS_ActivePrio, pc, timer, woken>>
  BY DEF Shift
<1>2. /\ OS_ActivePrio \subseteq {Priority[t] : t \in Threads}
      /\ OS_ActivePrio = {} => p = 32
      /\ OS_ActivePrio # {} => p \in OS_ActivePrio
      /\ \A r \in OS_ActivePrio : p <= r
  BY LineScan DEF PipeLine, PipeTypes
<1> HIDE DEF p
<1>3. \A u \in Tcb : (Dozes(Server) /\ u = Server) \/ OnList(u)
  BY DEF PipeLine, Others, Reader, Called, Up
<1>4. OS_This' \in Tcb /\ (OS_This' = Server <=> Priority[Server] \in OS_ActivePrio)
  <2>1. CASE OS_ActivePrio = {}
    <3>1. p = Priority[Idle] /\ OnList(Idle)
      BY <1>2, <1>3, <2>1, LineNodes, ReaderIs
    <3>2. OS_This' = Idle
      BY <1>1, <3>1 DEF OnList
    <3> QED
      BY <2>1, <3>2, LineNodes, ReaderIs
  <2>2. CASE OS_ActivePrio # {}
    <3>1. PICK u \in Threads : p = Priority[u] /\ Priority[u] \in OS_ActivePrio
      BY <1>2, <2>2
    <3>2. u \in Tcb
      BY LineNodes
    <3>3. OnList(u)
      BY <1>3, <3>1, <3>2 DEF Dozes
    <3>4. OS_This' = u
      BY <1>1, <3>1, <3>3 DEF OnList
    <3>5. Priority[Server] \in OS_ActivePrio => u = Server
      <4> SUFFICES ASSUME Priority[Server] \in OS_ActivePrio, u # Server PROVE FALSE
        OBVIOUS
      <4>1. Priority[u] <= Priority[Server] /\ Priority[Server] < Priority[u]
        BY <1>2, <3>1, <3>2, ReaderIs
      <4> QED
        BY <4>1, <3>2, LineNodes, ReaderIs
    <3> QED
      BY <3>1, <3>2, <3>4, <3>5
  <2> QED
    BY <2>1, <2>2
<1>5. Priority[Server] \notin OS_ActivePrio => Dozes(Server)
  BY DEF PipeLine, Reader, Called, Up
<1>6. (Dozes(Server))' <=> Dozes(Server)
  BY <1>1 DEF Dozes, Waits, OffList
<1>7. PipeTypes' /\ Others' /\ Writer' /\ Reader'
  BY <1>1, <1>4, <1>6 DEF PipeLine, PipeTypes, Others, Writer, Reader, Up, Called, Waits, OnList
<1>8. Has'
  <2>1. CASE OS_This' = Server
    BY <1>4, <1>6, <2>1 DEF Has, Dozes
  <2>2. CASE OS_This' # Server
    BY <1>4, <1>5, <1>6, <2>2 DEF Has
  <2> QED
    BY <2>1, <2>2
<1> QED
  BY <1>7, <1>8 DEF PipeLine

\* PendSV, the switch of a wait, and timers of others.
LEMMA PipeKernel ==
  ASSUME PipeLine, KernelStep, UNCHANGED <<Careful, In, Out, pReadThread, Waker>>
  PROVE  PipeLine'
<1>1. CASE Shift
  BY <1>1, PipeShift
<1>2. CASE OtherTick
  <2>1. pend' = TRUE /\ UNCHANGED <<list, OS_ActivePrio, OS_This, pc, timer, woken>>
    BY <1>2 DEF OtherTick
  <2> QED
    BY <2>1 DEF PipeLine, PipeTypes, Others, Writer, Reader, Has, Up, Dozes, Called, Waits,
                OnList, OffList
<1>3. ASSUME NEW t \in Threads, Switch(t) PROVE PipeLine'
  <2>1. /\ pc[t] = "blocked" /\ pc' = [pc EXCEPT ![t] = "waiting"] /\ pend' = TRUE
        /\ UNCHANGED <<list, OS_ActivePrio, OS_This, timer, woken>>
    BY <1>3 DEF Switch
  <2>2. t = Server
    BY <2>1, ReaderIs DEF Waits
  <2>3. /\ pc' \in [Tcb -> PipePC] /\ pc'[Server] = "waiting"
        /\ \A u \in Tcb \ {Server} : pc'[u] = pc[u]
    BY <2>1, <2>2, LineNodes DEF PipeLine, PipeTypes, PipePC
  <2>4. pc'[Idle] = "run"
    BY <2>3, LineNodes, ReaderIs DEF PipeLine, PipeTypes
  <2>5. (Dozes(Server))' = Dozes(Server) /\ (Called(Server))' = Called(Server) /\ ~Up
    BY <2>1, <2>2, <2>3 DEF Dozes, Called, Waits, OffList, OnList, Up, P!Writing
  <2>6. PipeTypes'
    BY <2>1, <2>3, <2>4 DEF PipeLine, PipeTypes
  <2>7. Others'
    BY <2>1, <2>3 DEF PipeLine, Others, OnList
  <2>8. \A u \in Threads : pc'[u] = pc[u] \/ (u = Server /\ pc'[u] = "waiting")
    BY <2>3, LineNodes
  <2>9. Writer'
    BY <2>5, <2>8 DEF PipeLine, Writer, P!Writing, Early
  <2>10. Reader'
    BY <2>1, <2>2, <2>5, <2>8 DEF PipeLine, Reader
  <2> QED
    BY <2>1, <2>6, <2>7, <2>9, <2>10 DEF PipeLine, Has
<1>4. ASSUME NEW t \in Threads, Expire(t) PROVE FALSE
  BY <1>4, LineNodes DEF Expire, PipeLine, PipeTypes
<1> QED
  BY <1>1, <1>2, <1>3, <1>4 DEF KernelStep

\* The reader is made ready once, by a write of another thread or of an interrupt.
LEMMA ReaderWakes ==
  ASSUME PipeLine, Dozes(Server), MakeReady(Server)
  PROVE  /\ list' \in Links(Node) /\ OnList(Server)'
         /\ \A u \in Tcb \ {Server} : OnList(u)'
         /\ OS_ActivePrio' = OS_ActivePrio \cup {Priority[Server]}
         /\ woken' = {Server}
<1>1. /\ list' = list_add(list, Server, Priority[Server])
      /\ OS_ActivePrio' = OS_ActivePrio \cup {Priority[Server]}
      /\ woken' = woken \cup ({Server} \cap Sleepers)
  BY DEF MakeReady
<1>2. woken' = {Server}
  BY <1>1, ReaderIs DEF PipeLine, PipeTypes
<1>3. /\ list \in Links(Node) /\ Server \in Tcb
      /\ list[Priority[Server]] = [next |-> Priority[Server], prev |-> Priority[Server]]
  BY ReaderIs DEF PipeLine, PipeTypes, Dozes, OffList
<1>4. /\ list' \in Links(Node)
      /\ list'[Server] = [next |-> Priority[Server], prev |-> Priority[Server]]
      /\ list'[Priority[Server]] = [next |-> Server, prev |-> Server]
      /\ \A n \in Node \ {Server, Priority[Server]} : list'[n] = list[n]
  BY <1>1, <1>3, AddOwn
<1>5. ASSUME NEW u \in Tcb \ {Server} PROVE OnList(u)'
  <2>1. OnList(u)
    BY DEF PipeLine, Others
  <2>2. u \in Node \ {Server, Priority[Server]} /\ Priority[u] \in Node \ {Server, Priority[Server]}
    BY <1>3, LineNodes
  <2> QED
    BY <1>4, <2>1, <2>2, KeptOnList
<1> QED
  BY <1>1, <1>2, <1>4, <1>5 DEF OnList

\* A write from an interrupt finds the reader up, or asleep (pipe.c:176-207).
LEMMA PipeInterrupt ==
  ASSUME PipeLine, NEW d \in P!Chunks, P!WriteFromInterrupt(d), UNCHANGED Careful
  PROVE  PipeLine'
<1>1. /\ P!Exclusive(Idle) /\ P!ReaderAsleep
      /\ IF pReadThread = NULL
         THEN UNCHANGED <<list, OS_ActivePrio, woken, pend>>
         ELSE MakeReady(pReadThread) /\ pend' = P!Scheduled(OS_ActivePrio')
      /\ UNCHANGED <<OS_This, pc, timer, Out, pReadThread, Waker>>
  BY PipeShares DEF P!WriteFromInterrupt, P!locals
<1>2. \A u \in Threads : pc[u] \notin P!Writing
  BY <1>1, LineNodes DEF P!Exclusive, PipeLine, PipeTypes
<1>3. CASE pReadThread = NULL
  <2>1. /\ Up /\ UNCHANGED <<list, OS_ActivePrio, woken, pend, OS_This, pc, timer>>
        /\ UNCHANGED <<pReadThread, Waker, Careful>>
    BY <1>1, <1>3, ReaderIs
  <2>2. Up'
    BY <2>1 DEF Up, OnList
  <2>3. PipeTypes' /\ Others' /\ Writer' /\ Has'
    BY <2>1 DEF PipeLine, PipeTypes, Others, Writer, Has, Dozes, Called, Waits, OnList, OffList
  <2> QED
    BY <2>2, <2>3 DEF PipeLine, Reader
<1>4. CASE pReadThread # NULL
  <2>1. pReadThread = Server
    BY <1>4, ReaderIs DEF PipeLine, Reader
  <2>2. Dozes(Server)
    BY <1>1, <1>4, <2>1, ReaderIs, PipeShares DEF P!ReaderAsleep, Paced, PipeLine, PipeTypes
  <2>3. MakeReady(Server) /\ pend' = P!Scheduled(OS_ActivePrio')
    BY <1>1, <1>4, <2>1
  <2>4. pend' = Scheduled(OS_ActivePrio')
    BY <2>3, PipeShares
  <2>5. /\ list' \in Links(Node) /\ OnList(Server)'
        /\ \A u \in Tcb \ {Server} : OnList(u)'
        /\ OS_ActivePrio' = OS_ActivePrio \cup {Priority[Server]}
        /\ woken' = {Server}
    BY <2>2, <2>3, ReaderWakes
  <2>6. Called(Server)' /\ pReadThread' = Server
    BY <1>1, <2>1, <2>2, <2>5 DEF Dozes, Called, Waits
  <2>7. PipeTypes'
    BY <1>1, <2>4, <2>5 DEF PipeLine, PipeTypes, Scheduled
  <2>8. Others' /\ Writer'
    BY <1>1, <1>2, <2>5 DEF PipeLine, Others, Writer, Early, P!Writing
  <2>9. Has'
    <3>1. CASE OS_This = Server
      BY <1>1, <2>5, <3>1 DEF Has, Dozes
    <3>2. CASE OS_This # Server
      <4> DEFINE S == OS_ActivePrio'
      <4>1. S \in SUBSET {Priority[t] : t \in Threads} /\ Priority[Server] \in S
        BY <2>5, ReaderIs DEF PipeLine, PipeTypes
      <4>2. OS_This \in Tcb /\ Priority[Server] < Priority[OS_This] /\ Server \in Threads
        BY <3>2, ReaderIs DEF PipeLine, PipeTypes
      <4> HIDE DEF S
      <4>3. Scheduled(S)
        BY <4>1, <4>2, ScheduledFor
      <4> QED
        BY <2>4, <4>3 DEF Has, S
    <3> QED
      BY <3>1, <3>2
  <2> QED
    BY <2>6, <2>7, <2>8, <2>9 DEF PipeLine, Reader
<1> QED
  BY <1>3, <1>4

\* A step of a thread inside pipe_write that does not touch the scheduler.
LEMMA PipeLocal ==
  ASSUME PipeLine, NEW t \in Threads, Running(t), pc[t] \in {"run"} \cup P!Writing,
         pc[t] # "return", NEW to \in {"run"} \cup P!Writing, pc' = [pc EXCEPT ![t] = to],
         UNCHANGED <<list, OS_ActivePrio, OS_This, pend, timer, woken, pReadThread, Careful>>,
         Waker' \in [Threads -> Node], \A u \in Threads \ {t} : Waker'[u] = Waker[u],
         \A u \in Threads \ {t} : pc[u] \notin P!Writing,
         to = "ready" => t # Server /\ Waker'[t] = Server,
         Dozes(Server) /\ In' # Out' => to \in {"look", "ready"}
  PROVE  PipeLine'
<1>1. \A u \in Tcb : pc'[u] = IF u = t THEN to ELSE pc[u]
  BY LineNodes DEF PipeLine, PipeTypes
<1>2. t \in Tcb /\ t # Idle /\ OS_This = t /\ ~pend
  BY LineNodes DEF Running
<1>3. t # Server => Dozes(Server)
  BY ReaderIs
<1>4. t = Server => Up
  BY DEF PipeLine, Reader, Dozes, Called, Waits, P!Writing
<1>5. /\ Dozes(Server)' <=> Dozes(Server)
      /\ Called(Server)' <=> Called(Server)
      /\ Up' <=> Up
  <2>1. CASE t = Server
    BY <1>1, <1>2, <1>4, <2>1 DEF Dozes, Called, Up, Waits, OnList, OffList, P!Writing
  <2>2. CASE t # Server
    BY <1>1, <2>2, ReaderIs DEF Dozes, Called, Up, Waits, OnList, OffList
  <2> QED
    BY <2>1, <2>2
<1>6. PipeTypes'
  BY <1>1, <1>2, LineNodes DEF PipeLine, PipeTypes, PipePC
<1>7. Others'
  BY <1>1, <1>2 DEF PipeLine, Others, OnList
<1>8. Writer'
  <2>1. \A u \in Threads : pc'[u] \in P!Writing => u = t
    BY <1>1, LineNodes
  <2>2. \A u \in Threads : pc'[u] \in Early \cup {"ready"} => u = t
    BY <2>1 DEF Early, P!Writing
  <2>3. pc'[t] = to
    BY <1>1, <1>2
  <2>4. \A u \in Threads \ {Server} : pc'[u] \in Early => Dozes(Server)'
    BY <1>3, <1>5, <2>2
  <2>5. \A u \in Threads : pc'[u] = "ready" => u # Server /\ Waker'[u] = Server
    BY <2>2, <2>3
  <2> QED
    BY <2>1, <2>4, <2>5 DEF Writer
<1>9. Reader'
  <2>1. pc'[t] = to
    BY <1>1, <1>2
  <2>2. CASE Dozes(Server)
    <3>1. pReadThread' = Server /\ Dozes(Server)'
      BY <1>5, <2>2, ReaderIs
    <3>2. In' # Out' => \E u \in Threads : pc'[u] \in {"look", "ready"}
      BY <2>1, <2>2
    <3> QED
      BY <3>1, <3>2 DEF Reader
  <2>3. CASE ~Dozes(Server)
    BY <1>5, <2>3 DEF PipeLine, Reader
  <2> QED
    BY <2>2, <2>3
<1>10. Has'
  BY <1>2, <1>3, <1>4, <1>5 DEF Has, Up, Dozes
<1> QED
  BY <1>6, <1>7, <1>8, <1>9, <1>10 DEF PipeLine

\* A thread's way through pipe_write, access by access (pipe.c:164-210).
LEMMA PipeWrites ==
  ASSUME PipeLine, NEW t \in Threads, P!ThreadWrites(t), UNCHANGED Careful
  PROVE  PipeLine'
<1>1. Waker \in [Threads -> Node] /\ "single" \in Careful /\ t \in Tcb
  BY LineNodes DEF PipeLine, PipeTypes
<1>2. pc[t] \in P!Writing => \A u \in Threads \ {t} : pc[u] \notin P!Writing
  BY DEF PipeLine, Writer
<1>3. ASSUME NEW d \in P!Chunks, P!Write(t, d) PROVE PipeLine'
  <2>1. /\ Running(t) /\ pc[t] = "run" /\ P!Exclusive(t) /\ pc' = [pc EXCEPT ![t] = "copy"]
        /\ UNCHANGED <<list, OS_ActivePrio, OS_This, pend, timer, woken, pReadThread, Waker, In, Out>>
    BY <1>3, PipeShares DEF P!Write, P!Calls, P!pipe
  <2>2. \A u \in Threads \ {t} : pc[u] \notin P!Writing
    BY <1>1, <2>1 DEF P!Exclusive
  <2>3. Dozes(Server) => In' = Out'
    <3>1. \A u \in Threads : pc[u] \notin {"look", "ready"}
      BY <2>1, <2>2 DEF P!Writing
    <3> QED
      BY <2>1, <3>1, ReaderIs DEF PipeLine, Reader
  <2>4. "copy" \in P!Writing
    BY DEF P!Writing
  <2> QED
    BY <1>1, <2>1, <2>2, <2>3, <2>4, PipeLocal
<1>4. ASSUME P!WriteCopy(t) PROVE PipeLine'
  <2>1. /\ Running(t) /\ pc[t] = "copy" /\ pc' = [pc EXCEPT ![t] = "commit"]
        /\ UNCHANGED <<list, OS_ActivePrio, OS_This, pend, timer, woken, pReadThread, Waker, In, Out>>
    BY <1>4, PipeShares DEF P!WriteCopy, P!locals
  <2>2. pc[t] \in P!Writing /\ "commit" \in P!Writing
    BY <2>1 DEF P!Writing
  <2>3. Dozes(Server) => In' = Out'
    <3>1. \A u \in Threads : pc[u] \notin {"look", "ready"}
      BY <1>2, <2>1, <2>2 DEF P!Writing
    <3> QED
      BY <2>1, <3>1, ReaderIs DEF PipeLine, Reader
  <2> QED
    BY <1>1, <1>2, <2>1, <2>2, <2>3, PipeLocal
<1>5. ASSUME P!WriteCommit(t) PROVE PipeLine'
  <2>1. /\ Running(t) /\ pc[t] = "commit" /\ pc' = [pc EXCEPT ![t] = "look"]
        /\ UNCHANGED <<list, OS_ActivePrio, OS_This, pend, timer, woken, pReadThread, Waker>>
    BY <1>5, PipeShares DEF P!WriteCommit, P!locals
  <2>2. pc[t] \in P!Writing /\ "look" \in P!Writing
    BY <2>1 DEF P!Writing
  <2> QED
    BY <1>1, <1>2, <2>1, <2>2, PipeLocal
<1>6. ASSUME P!WriteLook(t) PROVE PipeLine'
  <2>1. /\ Running(t) /\ pc[t] = "look"
        /\ UNCHANGED <<list, OS_ActivePrio, OS_This, pend, timer, woken, pReadThread, In, Out>>
    BY <1>6, PipeShares DEF P!WriteLook, P!pipe
  <2>2. pc[t] \in P!Writing /\ "ready" \in P!Writing
    BY <2>1 DEF P!Writing
  <2>3. CASE pReadThread = NULL
    <3>1. pc' = [pc EXCEPT ![t] = "run"] /\ Waker' = [Waker EXCEPT ![t] = NULL]
      BY <1>6, <2>3 DEF P!WriteLook, P!Returned
    <3>2. Waker' \in [Threads -> Node] /\ \A u \in Threads \ {t} : Waker'[u] = Waker[u]
      BY <1>1, <3>1 DEF Node
    <3>3. ~Dozes(Server)
      BY <2>3, ReaderIs
    <3> QED
      BY <1>2, <2>1, <2>2, <3>1, <3>2, <3>3, PipeLocal
  <2>4. CASE pReadThread # NULL
    <3>1. pReadThread = Server /\ t # Server
      <4>1. pReadThread = Server
        BY <2>4, ReaderIs DEF PipeLine, Reader
      <4>2. t = Server => Up
        BY <2>1 DEF PipeLine, Reader, Dozes, Called, Waits
      <4> QED
        BY <2>4, <4>1, <4>2 DEF Up
    <3>2. pc' = [pc EXCEPT ![t] = "ready"] /\ Waker' = [Waker EXCEPT ![t] = Server]
      BY <1>6, <2>4, <3>1 DEF P!WriteLook
    <3>3. /\ Waker' \in [Threads -> Node] /\ Waker'[t] = Server
          /\ \A u \in Threads \ {t} : Waker'[u] = Waker[u]
      BY <1>1, <3>2, LineNodes, ReaderIs
    <3> QED
      BY <1>2, <2>1, <2>2, <3>1, <3>2, <3>3, PipeLocal
  <2> QED
    BY <2>3, <2>4
<1>7. ASSUME P!WriteReady(t) PROVE PipeLine'
  <2>1. /\ Running(t) /\ pc[t] = "ready" /\ pc' = [pc EXCEPT ![t] = "return"]
        /\ MakeReady(Waker[t]) /\ UNCHANGED <<OS_This, pend, timer, pReadThread, Waker, In, Out>>
    BY <1>7, PipeShares DEF P!WriteReady, P!pipe, P!locals
  <2>2. t # Server /\ Waker[t] = Server
    BY <2>1 DEF PipeLine, Writer
  <2>3. Dozes(Server) /\ MakeReady(Server)
    BY <2>1, <2>2, ReaderIs
  <2>4. /\ list' \in Links(Node) /\ OnList(Server)'
        /\ \A u \in Tcb \ {Server} : OnList(u)'
        /\ OS_ActivePrio' = OS_ActivePrio \cup {Priority[Server]}
        /\ woken' = {Server}
    BY <2>3, ReaderWakes
  <2>5. \A u \in Tcb : pc'[u] = IF u = t THEN "return" ELSE pc[u]
    BY <1>1, <2>1 DEF PipeLine, PipeTypes
  <2>6. Called(Server)' /\ pReadThread' = Server
    BY <2>1, <2>2, <2>3, <2>4, <2>5, ReaderIs DEF Dozes, Called, Waits
  <2>7. pc' \in [Tcb -> PipePC] /\ pc'[Idle] = "run"
    BY <1>1, <2>1, LineNodes DEF PipeLine, PipeTypes, PipePC, P!Writing
  <2>8. PipeTypes'
    BY <2>1, <2>4, <2>7, ReaderIs DEF PipeLine, PipeTypes
  <2>9. Others'
    BY <2>4, <2>5 DEF PipeLine, Others, P!Writing
  <2>10. \A u \in Threads : pc'[u] \in P!Writing => u = t
    BY <1>2, <2>1, <2>5, LineNodes DEF P!Writing
  <2>11. Writer'
    BY <1>1, <2>5, <2>10 DEF Writer, Early, P!Writing
  <2>12. Has'
    BY <1>1, <2>1, <2>2, <2>5, <2>6 DEF Has, Running
  <2> QED
    BY <2>6, <2>8, <2>9, <2>11, <2>12 DEF PipeLine, Reader
<1>8. ASSUME P!WriteReturns(t) PROVE PipeLine'
  <2>1. /\ Running(t) /\ pc[t] = "return" /\ pc' = [pc EXCEPT ![t] = "run"]
        /\ pend' = P!Scheduled(OS_ActivePrio) /\ Waker' = [Waker EXCEPT ![t] = NULL]
        /\ UNCHANGED <<list, OS_ActivePrio, OS_This, timer, woken, pReadThread, In, Out>>
    BY <1>8, PipeShares DEF P!WriteReturns, P!Returned, P!pipe
  <2>2. pend' = Scheduled(OS_ActivePrio)
    BY <2>1, PipeShares
  <2>3. \A u \in Tcb : pc'[u] = IF u = t THEN "run" ELSE pc[u]
    BY <1>1, <2>1 DEF PipeLine, PipeTypes
  <2>4. /\ Waker' \in [Threads -> Node]
        /\ \A u \in Threads \ {t} : Waker'[u] = Waker[u]
    BY <1>1, <2>1 DEF Node
  <2>5. /\ Dozes(Server)' <=> Dozes(Server)
        /\ Called(Server)' <=> Called(Server)
        /\ Up' <=> Up
    BY <2>1, <2>3, ReaderIs DEF Dozes, Called, Up, Waits, OnList, OffList, P!Writing
  <2>6. pc' \in [Tcb -> PipePC] /\ pc'[Idle] = "run"
    BY <1>1, <2>1, LineNodes DEF PipeLine, PipeTypes, PipePC
  <2>7. PipeTypes'
    BY <2>1, <2>2, <2>4, <2>6 DEF PipeLine, PipeTypes, Scheduled
  <2>8. Others'
    BY <2>1, <2>3 DEF PipeLine, Others, OnList
  <2>9. Writer'
    BY <2>3, <2>4, <2>5, LineNodes DEF PipeLine, Writer, Early, P!Writing
  <2>10. Reader'
    <3>1. \A u \in Threads : pc[u] \in {"look", "ready"} => pc'[u] = pc[u]
      BY <2>1, <2>3, LineNodes
    <3> QED
      BY <2>1, <2>5, <3>1 DEF PipeLine, Reader
  <2>11. Has'
    <3>1. OS_This = t /\ OS_This' = t
      BY <2>1 DEF Running
    <3>2. CASE t = Server
      <4>1. ~Dozes(Server)
        BY <2>1, <3>2 DEF Dozes, Waits
      <4> QED
        BY <2>5, <3>1, <3>2, <4>1 DEF Has
    <3>3. CASE t # Server /\ Dozes(Server)
      BY <2>5, <3>1, <3>3 DEF Has
    <3>4. CASE t # Server /\ ~Dozes(Server)
      <4>1. Called(Server)
        BY <2>1, <3>1, <3>4 DEF PipeLine, Has, Running
      <4>2. Priority[Server] \in OS_ActivePrio /\ OS_ActivePrio \in SUBSET {Priority[u] : u \in Threads}
        BY <4>1 DEF Called, PipeLine, PipeTypes
      <4>3. Priority[Server] < Priority[OS_This] /\ OS_This \in Tcb /\ Server \in Threads
        BY <1>1, <3>1, <3>4, ReaderIs
      <4>4. Scheduled(OS_ActivePrio)
        BY <4>2, <4>3, ScheduledFor
      <4> QED
        BY <2>2, <4>4 DEF Has
    <3> QED
      BY <3>2, <3>3, <3>4
  <2> QED
    BY <2>7, <2>8, <2>9, <2>10, <2>11 DEF PipeLine
<1> QED
  BY <1>3, <1>4, <1>5, <1>6, <1>7, <1>8 DEF P!ThreadWrites

\* The reader takes itself off its ready list and sleeps (pipe.c:255-279).
LEMMA PipeWaits ==
  ASSUME PipeLine, NEW t \in Threads, NEW timed \in BOOLEAN, P!Wait(t, timed), UNCHANGED Careful
  PROVE  PipeLine'
<1>1. ~timed
  BY PipeShares DEF P!Wait, MayTime, PipeLine, PipeTypes
<1>2. t = Server
  BY PipeShares DEF P!Wait, MayTake, PipeLine, PipeTypes
<1>3. /\ Running(t) /\ pc[t] = "run" /\ In = Out /\ pReadThread' = t /\ list' = Off(t)
      /\ OS_ActivePrio' = Cleared(t) /\ timer' = [timer EXCEPT ![t] = "off"]
      /\ pc' = [pc EXCEPT ![t] = "blocked"]
      /\ UNCHANGED <<OS_This, pend, woken, In, Out, Waker>>
  BY <1>1, PipeShares DEF P!Wait, P!Calls, P!locals
<1>4. Up /\ Server \in Tcb
  BY <1>2, <1>3, ReaderIs DEF PipeLine, Reader, Dozes, Called, Waits
<1>5. /\ list \in Links(Node)
      /\ list[Server] = [next |-> Priority[Server], prev |-> Priority[Server]]
  BY <1>4 DEF PipeLine, PipeTypes, Up, OnList
<1>6. /\ list' \in Links(Node)
      /\ list'[Priority[Server]] = [next |-> Priority[Server], prev |-> Priority[Server]]
      /\ \A n \in Node \ {Priority[Server]} : list'[n] = list[n]
  BY <1>2, <1>3, <1>4, <1>5, DelOwn DEF Off
<1>7. OS_ActivePrio' = OS_ActivePrio \ {Priority[Server]}
  BY <1>2, <1>3, <1>6 DEF Cleared, list_empty
<1>8. \A u \in Tcb : pc'[u] = IF u = Server THEN "blocked" ELSE pc[u]
  BY <1>2, <1>3 DEF PipeLine, PipeTypes
<1>9. Dozes(Server)'
  BY <1>3, <1>4, <1>6, <1>7, <1>8 DEF Dozes, Waits, OffList, Up
<1>10. pc' \in [Tcb -> PipePC] /\ pc'[Idle] = "run" /\ timer' = [u \in Tcb |-> "off"]
  BY <1>2, <1>3, <1>8, LineNodes, ReaderIs DEF PipeLine, PipeTypes, PipePC
<1>11. PipeTypes'
  BY <1>3, <1>6, <1>7, <1>10 DEF PipeLine, PipeTypes
<1>12. Others'
  <2>1. ASSUME NEW u \in Tcb \ {Server} PROVE OnList(u)' /\ pc'[u] \in {"run"} \cup P!Writing
    <3>1. OnList(u) /\ pc[u] \in {"run"} \cup P!Writing
      BY DEF PipeLine, Others
    <3>2. u \in Node \ {Priority[Server]} /\ Priority[u] \in Node \ {Priority[Server]}
      BY <1>4, LineNodes
    <3> QED
      BY <1>6, <1>8, <3>1, <3>2, KeptOnList
  <2>2. ASSUME NEW u \in Threads \ {Server} PROVE Priority[u] \in OS_ActivePrio'
    BY <1>4, <1>7, LineNodes DEF PipeLine, Others
  <2> QED
    BY <2>1, <2>2 DEF Others
<1>13. Writer'
  <2>1. \A u \in Threads : pc'[u] \in P!Writing \cup {"ready"} => pc'[u] = pc[u] /\ u # Server
    BY <1>8, LineNodes DEF P!Writing
  <2> QED
    BY <1>3, <1>9, <2>1 DEF PipeLine, Writer
<1>14. Reader'
  BY <1>2, <1>3, <1>9 DEF Reader
<1>15. Has'
  BY <1>2, <1>3, <1>4, <1>8 DEF Has, Running
<1> QED
  BY <1>11, <1>12, <1>13, <1>14, <1>15 DEF PipeLine

\* A reader that runs again was woken (pipe.c:281-307).
LEMMA PipeResumes ==
  ASSUME PipeLine, NEW t \in Threads, NEW n \in 1..MaxChunk, P!Resume(t, n), UNCHANGED Careful
  PROVE  PipeLine'
<1>1. /\ Running(t) /\ pc[t] = "waiting" /\ timer' = [timer EXCEPT ![t] = "off"]
      /\ pReadThread' = NULL /\ woken' = woken \ {t} /\ pc' = [pc EXCEPT ![t] = "run"]
      /\ UNCHANGED <<list, OS_ActivePrio, OS_This, pend, Waker>>
  BY PipeShares DEF P!Resume, P!locals
<1>2. t = Server /\ Server \in Tcb
  BY <1>1, ReaderIs DEF Waits
<1>3. Called(Server)
  BY <1>1, <1>2 DEF PipeLine, Has, Reader, Up, Running, P!Writing
<1>4. \A u \in Tcb : pc'[u] = IF u = Server THEN "run" ELSE pc[u]
  BY <1>1, <1>2 DEF PipeLine, PipeTypes
<1>5. Up' /\ ~Dozes(Server)'
  BY <1>1, <1>2, <1>3, <1>4 DEF Up, Called, OnList, Dozes, Waits
<1>6. pc' \in [Tcb -> PipePC] /\ pc'[Idle] = "run" /\ timer' = [u \in Tcb |-> "off"]
  BY <1>1, <1>2, <1>4, LineNodes, ReaderIs DEF PipeLine, PipeTypes, PipePC
<1>7. PipeTypes'
  BY <1>1, <1>6 DEF PipeLine, PipeTypes
<1>8. Others'
  BY <1>1, <1>4 DEF PipeLine, Others, OnList
<1>9. Writer'
  <2>1. \A u \in Threads : pc'[u] \in P!Writing \cup Early \cup {"ready"} => pc'[u] = pc[u] /\ u # Server
    BY <1>4, LineNodes DEF P!Writing, Early
  <2>2. \A u \in Threads \ {Server} : pc[u] \notin Early
    BY <1>3, ReaderIs DEF PipeLine, Writer
  <2> QED
    BY <1>1, <2>1, <2>2 DEF PipeLine, Writer
<1>10. Has'
  BY <1>1, <1>2, <1>5 DEF Has, Running
<1> QED
  BY <1>5, <1>7, <1>8, <1>9, <1>10 DEF PipeLine, Reader

\* Steps that leave the scheduler alone while the reader is up, or the pipe as it is.
LEMMA PipeSame ==
  ASSUME PipeLine, UNCHANGED <<Careful, list, OS_ActivePrio, OS_This, pend, pc, timer, woken,
                               pReadThread, Waker>>,
         Up \/ UNCHANGED <<In, Out>>
  PROVE  PipeLine'
<1>1. (Dozes(Server))' = Dozes(Server) /\ (Called(Server))' = Called(Server) /\ Up' = Up
  BY DEF Dozes, Called, Up, Waits, OnList, OffList
<1>2. PipeTypes' /\ Others' /\ Writer' /\ Has'
  BY <1>1 DEF PipeLine, PipeTypes, Others, Writer, Has, OnList
<1>3. Reader'
  BY <1>1 DEF PipeLine, Reader
<1> QED
  BY <1>2, <1>3 DEF PipeLine

\* Every step of a polite application (pipe.c:143-307).
LEMMA PipeLineStep ==
  ASSUME PipeLine, P!Next
  PROVE  PipeLine'
<1>1. UNCHANGED Careful
  BY DEF P!Next
<1>2. CASE P!KernelStep /\ UNCHANGED <<P!pipe, P!locals>>
  BY <1>1, <1>2, PipeShares, PipeKernel DEF P!pipe, P!locals
<1>3. ASSUME NEW d \in P!Chunks, P!WriteFromInterrupt(d) PROVE PipeLine'
  BY <1>1, <1>3, PipeInterrupt
<1>4. ASSUME NEW t \in Threads, P!ThreadWrites(t) PROVE PipeLine'
  BY <1>1, <1>4, PipeWrites
<1>5. ASSUME NEW t \in Threads, NEW n \in 1..MaxChunk, P!ReadNow(t, n) PROVE PipeLine'
  <2>1. /\ pc[t] = "run" /\ UNCHANGED <<pReadThread, Waker>>
        /\ UNCHANGED <<list, OS_ActivePrio, OS_This, pend, pc, timer, woken>>
    BY <1>5 DEF P!ReadNow, P!Calls, P!sched, P!locals
  <2>2. t = Server
    BY <1>5, PipeShares DEF P!ReadNow, MayTake, PipeLine, PipeTypes
  <2>3. Up
    BY <2>1, <2>2 DEF PipeLine, Reader, Dozes, Called, Waits
  <2> QED
    BY <1>1, <2>1, <2>3, PipeSame
<1>6. ASSUME NEW t \in Threads, NEW n \in 1..MaxChunk, P!Resume(t, n) PROVE PipeLine'
  BY <1>1, <1>6, PipeResumes
<1>7. ASSUME NEW t \in Threads, NEW timed \in BOOLEAN, P!Wait(t, timed) PROVE PipeLine'
  BY <1>1, <1>7, PipeWaits
<1>8. ASSUME NEW t \in Threads,
             P!Free(t) /\ UNCHANGED <<In, Out, buffer, pReadThread, wrote, gave, P!locals>>
      PROVE  PipeLine'
  <2>1. UNCHANGED <<list, OS_ActivePrio, OS_This, pend, pc, timer, woken, pReadThread, Waker, In, Out>>
    BY <1>8 DEF P!Free, P!sched, P!locals
  <2> QED
    BY <1>1, <2>1, PipeSame
<1> QED
  BY <1>2, <1>3, <1>4, <1>5, <1>6, <1>7, <1>8 DEF P!Next, P!Step, P!ThreadReads

\* What it says of the pipe.
LEMMA PipeGood ==
  ASSUME PipeLine
  PROVE  RunsAThread /\ ReadyQueues /\ P!NoLostWrite
<1>1. \A t \in Tcb : t \in Sleepers <=> t = Server /\ Dozes(Server)
  <2> SUFFICES ASSUME NEW t \in Tcb, t # Server PROVE t \notin Sleepers
    BY ReaderIs
  <2> QED
    BY DEF PipeLine, Others, Sleepers, P!Writing
<1>2. RunsAThread
  BY <1>1 DEF RunsAThread, PipeLine, PipeTypes, Has
<1>3. ASSUME NEW t \in Tcb PROVE IsList(list, Priority[t], {t} \ Sleepers)
  <2>1. t # Priority[t]
    BY LineNodes
  <2>2. CASE t \in Sleepers
    <3>1. list[Priority[t]].next = Priority[t] /\ list[Priority[t]].prev = Priority[t]
      BY <1>1, <2>2 DEF Dozes, OffList
    <3> QED
      BY <2>2, <3>1 DEF IsList, Linked, Reachable
  <2>3. CASE t \notin Sleepers
    <3>1. OnList(t)
      BY <1>1, <2>3 DEF PipeLine, Others, Reader, Called, Up
    <3>2. /\ list[t].next = Priority[t] /\ list[t].prev = Priority[t]
          /\ list[Priority[t]].next = t /\ list[Priority[t]].prev = t
      BY <3>1 DEF OnList
    <3>3. {t} \ Sleepers = {t}
      BY <2>3
    <3>4. IsList(list, Priority[t], {t})
      BY <2>1, <3>2 DEF IsList, Linked, Reachable
    <3> QED
      BY <3>3, <3>4
  <2> QED
    BY <2>2, <2>3
<1>4. P!NoLostWrite
  <2> SUFFICES ASSUME P!Sleepers # {}, In # Out
               PROVE  \E t \in Threads : pc[t] \in {"look", "ready"}
    BY DEF P!NoLostWrite
  <2>1. Dozes(Server)
    <3>1. PICK t : t \in Sleepers
      BY PipeShares
    <3> QED
      BY <1>1, <3>1 DEF Sleepers
  <2> QED
    BY <2>1, ReaderIs DEF PipeLine, Reader
<1> QED
  BY <1>2, <1>3, <1>4 DEF ReadyQueues

\* At the start everybody is up.
LEMMA PipeStarts ==
  ASSUME SchedInit, P!PipeInit, Threads # {},
         {"single", "paced", "alone", "untimed"} \subseteq Careful
  PROVE  PipeLine
<1>1. /\ OS_ActivePrio = {Priority[t] : t \in Threads} /\ OS_This = Server /\ pend = FALSE
      /\ pc = [t \in Tcb |-> "run"] /\ timer = [t \in Tcb |-> "off"] /\ woken = {}
      /\ pReadThread = NULL /\ Waker = [t \in Threads |-> NULL]
  BY DEF SchedInit, P!PipeInit
<1>2. list \in Links(Node) /\ \A u \in Tcb : OnList(u)
  BY StartLists
<1>3. Server \in Threads /\ Server \in Tcb /\ Idle \in Tcb
  BY ServerIs, LineNodes
<1>4. Up
  BY <1>1, <1>2, <1>3 DEF Up
<1>5. PipeTypes
  BY <1>1, <1>2, <1>3 DEF PipeTypes, PipePC, Node
<1>6. Others
  BY <1>1, <1>2, LineNodes DEF Others
<1>7. \A u \in Threads : pc[u] = "run"
  BY <1>1, LineNodes
<1>8. Writer
  BY <1>7 DEF Writer, Early, P!Writing
<1>9. Has
  BY <1>1, <1>3 DEF Has, Dozes, Waits
<1> QED
  BY <1>4, <1>5, <1>6, <1>8, <1>9 DEF PipeLine, Reader

-----------------------------------------------------------------------------
\* The polite applications of the three objects.
PoliteInv ==
  /\ ObjectsInv
  /\ use = "semaphore" /\ Polite   => \E f \in Threads \cup {WaitHead} : SemLine(f)
  /\ use = "mailbox"   /\ M!Polite => \E f \in Threads \cup {WaitHead} : BoxLine(f)
  /\ use = "pipe"      /\ P!Polite => PipeLine

\* They start with every thread ready.
LEMMA PoliteStart ==
  ASSUME Threads # {}, ObjectsInit
  PROVE  PoliteInv
<1>1. ObjectsInv
  BY ObjectsStart
<1>2. SchedInit /\ SemaphoreInit /\ M!BoxInit /\ P!PipeInit
  BY DEF ObjectsInit
<1>3. WaitHead \notin Threads /\ \A t \in Threads : pc[t] = "run"
  BY <1>2, LineNodes DEF SchedInit
<1>4. ASSUME Polite PROVE SemLine(WaitHead)
  <2>1. Line(WaitHead)
    BY <1>2, <1>4, LineStarts DEF Polite
  <2> QED
    BY <1>2, <1>3, <2>1, SemaphoreAssumption DEF SemLine, SemaphoreInit
<1>5. ASSUME M!Polite PROVE BoxLine(WaitHead)
  <2>1. Line(WaitHead) /\ "single" \in Careful
    BY <1>2, <1>5, LineStarts DEF M!Polite
  <2>2. Thread \in [Threads -> Node]
    BY <1>2 DEF M!BoxInit, Node
  <2> QED
    BY <1>3, <2>1, <2>2 DEF BoxLine
<1>6. ASSUME P!Polite PROVE PipeLine
  BY <1>2, <1>6, PipeStarts DEF P!Polite
<1> QED
  BY <1>1, <1>4, <1>5, <1>6 DEF PoliteInv

\* Every step keeps the application polite, and its threads where they belong.
LEMMA PoliteStep ==
  ASSUME PoliteInv, ObjectsNext
  PROVE  PoliteInv'
<1>1. ObjectsInv' /\ use' = use
  BY ObjectsStep DEF PoliteInv, ObjectsNext
<1>2. UNCHANGED Careful
  BY DEF ObjectsNext, Next, M!Next, P!Next
<1>3. ASSUME use = "semaphore", Polite PROVE \E f \in Threads \cup {WaitHead} : SemLine(f)'
  <2>1. Next
    BY <1>3 DEF ObjectsNext
  <2> QED
    BY <1>3, <2>1, SemStep DEF PoliteInv
<1>4. ASSUME use = "mailbox", M!Polite PROVE \E f \in Threads \cup {WaitHead} : BoxLine(f)'
  <2>1. M!Next /\ BoxInv
    BY <1>4 DEF ObjectsNext, PoliteInv, ObjectsInv
  <2> QED
    BY <1>4, <2>1, BoxStep DEF PoliteInv
<1>5. ASSUME use = "pipe", P!Polite PROVE PipeLine'
  <2>1. P!Next
    BY <1>5 DEF ObjectsNext
  <2> QED
    BY <1>5, <2>1, PipeLineStep DEF PoliteInv
<1>6. (Polite' <=> Polite) /\ (M!Polite' <=> M!Polite) /\ (P!Polite' <=> P!Polite)
  BY <1>2 DEF Polite, M!Polite, P!Polite
<1> QED
  BY <1>1, <1>3, <1>4, <1>5, <1>6 DEF PoliteInv

\* So does a stutter.
LEMMA PoliteStutter ==
  ASSUME PoliteInv, UNCHANGED objectsVars
  PROVE  PoliteInv'
<1>1. /\ UNCHANGED <<list, OS_ActivePrio, OS_This, pend, pc, timer, woken, Careful, use, Counter>>
      /\ UNCHANGED <<Read, Write, Thread, In, Out, pReadThread, Waker>>
  BY DEF objectsVars, vars, mailboxVars, pipeVars
<1>2. ObjectsInv'
  BY ObjectsStutter DEF PoliteInv
<1>3. ASSUME NEW f, SemLine(f) PROVE SemLine(f)'
  <2>1. Line(f)'
    BY <1>1, <1>3, LineSame DEF SemLine
  <2> QED
    BY <1>1, <1>3, <2>1 DEF SemLine
<1>4. ASSUME NEW f, BoxLine(f) PROVE BoxLine(f)'
  <2>1. Line(f)'
    BY <1>1, <1>4, LineSame DEF BoxLine
  <2>2. Pending' = Pending /\ M!Count' = M!Count
    BY <1>1 DEF Pending, One, Wakers, M!Count
  <2> QED
    BY <1>1, <1>4, <2>1, <2>2 DEF BoxLine
<1>5. PipeLine => PipeLine'
  BY <1>1, PipeSame
<1>6. (Polite' <=> Polite) /\ (M!Polite' <=> M!Polite) /\ (P!Polite' <=> P!Polite)
  BY <1>1 DEF Polite, M!Polite, P!Polite
<1> QED
  BY <1>1, <1>2, <1>3, <1>4, <1>5, <1>6 DEF PoliteInv

\* The invariant holds in every state.
LEMMA PoliteInvariant ==
  ASSUME Threads # {}
  PROVE  ObjectsSpec => []PoliteInv
<1>1. ObjectsInit => PoliteInv
  BY PoliteStart
<1>2. PoliteInv /\ [ObjectsNext]_objectsVars => PoliteInv'
  BY PoliteStep, PoliteStutter
<1> QED
  BY <1>1, <1>2, PTL DEF ObjectsSpec

\* However many threads wait on the object, a polite application leaves the processor
\* to a thread that is ready or blocking itself, never to the head of an empty list,
\* and the reader of a pipe is on its ready list once exactly while it does not sleep
\* (semaphore.c:275, mailbox.c:307, pipe.c:205, 284, kernel.c:399-409).
THEOREM PoliteApplicationsRun ==
  ASSUME Threads # {}
  PROVE  ObjectsSpec => []PoliteRuns
<1>1. PoliteInv => PoliteRuns
  BY SemGood, BoxGood, PipeGood DEF PoliteInv, PoliteRuns
<1> QED
  BY <1>1, PoliteInvariant, PTL

\* In a polite application of any number of threads no unit, mail or element is left
\* beside a thread asleep, and a wait for ever ends with a unit (semaphore.c:181, 278,
\* 337, mailbox.c:381-393, pipe.c:194-205).
THEOREM PoliteThreadsWake ==
  ASSUME Threads # {}
  PROVE  ObjectsSpec => []PoliteWakeups
<1>1. PoliteInv => PoliteWakeups
  <2> SUFFICES ASSUME PoliteInv PROVE PoliteWakeups
    OBVIOUS
  <2>1. use = "semaphore" => NoLostPost /\ ForeverGetsAUnit
    BY SemGood DEF PoliteInv, NoLostPost, ForeverGetsAUnit
  <2>2. use = "mailbox" => M!NoLostMail
    BY BoxGood DEF PoliteInv, M!NoLostMail
  <2>3. use = "pipe" => P!NoLostWrite
    BY PipeGood DEF PoliteInv, P!NoLostWrite
  <2>4. use \in {"semaphore", "mailbox", "pipe"}
    BY DEF PoliteInv, ObjectsInv
  <2> QED
    BY <2>1, <2>2, <2>3, <2>4 DEF PoliteWakeups
<1> QED
  BY <1>1, PoliteInvariant, PTL
-----------------------------------------------------------------------------
(***************************************************************************)
(* The lock of malloc and free, when h and l are the threads, h the more   *)
(* urgent.  Only h ever waits; l cannot, for it does not run while h is    *)
(* inside.  When l posts it runs no further than the scheduler before h    *)
(* had its turn, so that h finds the unit, although nobody looks at what   *)
(* the wait returned.  The invariant has to follow h through the lists as  *)
(* the code leaves them: WaitHead may go on naming h after its wait, a     *)
(* post then enters h into its ready list a second time, where its next is *)
(* itself, and h never sleeps again: but then l never runs again either.   *)
(***************************************************************************)
Two(h, l) == Threads = {h, l} /\ Priority[h] < Priority[l]

UpNow(h)    == Priority[h] \in OS_ActivePrio
Alone(h) == [next |-> Priority[h], prev |-> Priority[h]]
Looped(h) == [next |-> h, prev |-> Priority[h]]

LockTypes(h, l) ==
  /\ "untimed" \in Careful /\ "calm" \in Careful
  /\ list \in Links(Node)
  /\ OS_ActivePrio \subseteq {Priority[h], Priority[l]}
  /\ pend \in BOOLEAN
  /\ pc \in [Tcb -> {"run", "blocked", "waiting", "posting", "asleep"}]
  /\ timer \in [Tcb -> {"off", "armed", "rung"}]
  /\ timer[h] = "armed" => pc[h] = "asleep"
  /\ timer[l] = "armed" => pc[l] = "asleep"

\* Who is first on the four lists, and where h and l are linked.
Firsts(h, l) ==
  /\ list[WaitHead].next \in {WaitHead, h}
  /\ list[Priority[h]].next \in {h, Priority[h]}
  /\ list[Priority[l]].next \in {l, Priority[l]}
  /\ list[IdlePrio].next = Idle
  /\ list[l] \in {Alone(l), Looped(l)}
  /\ ~UpNow(h) => list[Priority[h]].next = Priority[h]
  /\ list[h] \in {Alone(h), Looped(h)} \/ (Waits(h) /\ ~UpNow(h))

\* The one unit is in the semaphore or with the thread inside.
OneUnit(h, l) ==
  \/ inside = {}  /\ Counter = 1
  \/ inside = {h} /\ Counter = 0 /\ pc[h] = "run" /\ UpNow(h) /\ OS_This \in {h, Priority[h]}
  \/ inside = {l} /\ Counter = 0 /\ pc[l] = "run"

\* While h waits l is inside, and when it is made ready the unit is there.
OnlyOneWaits(h, l) ==
  /\ ~Waits(l)
  /\ Waits(h) /\ ~UpNow(h) => inside = {l} /\ list[WaitHead].next = h
  /\ Waits(h) /\ UpNow(h)  => inside = {} /\ list[h] = Alone(h) /\ list[Priority[h]].next = h

\* When h is ready l gets no further than the end of its post.
Turns(h, l) ==
  /\ UpNow(h)  => pend \/ OS_This \in {h, Priority[h]} \/ (OS_This = l /\ pc[l] = "posting")
  /\ ~UpNow(h) => pc[h] \notin {"run", "posting"} /\ (pend \/ OS_This # h \/ pc[h] = "blocked")

\* l is not inside where h may be, or is, entered twice.
Doubles(h, l) ==
  /\ UpNow(h) /\ timer[h] = "armed" => inside # {l}
  /\ list[h] # Alone(h) /\ ~Waits(h) => UpNow(h) /\ inside # {l}

LockInv(h, l) ==
  /\ LockTypes(h, l) /\ Firsts(h, l) /\ OneUnit(h, l)
  /\ OnlyOneWaits(h, l) /\ Turns(h, l) /\ Doubles(h, l)

\* The nodes that matter are different nodes.
LEMMA TwoNodes ==
  ASSUME NEW h, NEW l, Two(h, l)
  PROVE  /\ Threads = {h, l} /\ Tcb = {h, l, Idle} /\ h # l /\ h # Idle /\ l # Idle
         /\ Priority[h] \in 0..31 /\ Priority[l] \in 0..31 /\ Priority[h] < Priority[l]
         /\ h \in Node /\ l \in Node /\ Idle \in Node /\ WaitHead \in Node
         /\ Priority[h] \in Node /\ Priority[l] \in Node /\ IdlePrio \in Node
         /\ Priority[h] \notin {h, l, Idle, WaitHead, Priority[l], IdlePrio}
         /\ Priority[l] \notin {h, l, Idle, WaitHead, IdlePrio}
         /\ IdlePrio \notin {h, l, Idle, WaitHead}
         /\ WaitHead \notin {h, l, Idle}
         /\ \A n \in Node : n \in {h, l, Idle, Priority[h], Priority[l], IdlePrio, WaitHead, NULL}
<1>1. Threads = {h, l} /\ Tcb = {h, l, Idle} /\ Priority[h] < Priority[l]
  BY DEF Two, Tcb
<1>2. Priority[h] \in 0..31 /\ Priority[l] \in 0..31 /\ Priority[Idle] = IdlePrio /\ IdlePrio = 32
  BY <1>1, BlockingAssumption DEF IdlePrio
<1>3. h # l /\ h # Idle /\ l # Idle
  BY <1>1, <1>2, BlockingAssumption
<1>4. Node = {h, l, Idle, Priority[h], Priority[l], IdlePrio, WaitHead, NULL}
  BY <1>1, <1>2 DEF Node, Heads
<1>5. /\ Priority[h] \notin {h, l, Idle, WaitHead, Priority[l], IdlePrio}
      /\ Priority[l] \notin {h, l, Idle, WaitHead, IdlePrio}
      /\ IdlePrio \notin {h, l, Idle, WaitHead}
      /\ WaitHead \notin {h, l, Idle}
  <2>1. \A x \in {h, l, Idle, WaitHead} : x \notin 0..32
    BY <1>1, <1>2, NodesAssumption
  <2>2. WaitHead \notin {h, l, Idle}
    BY <1>1, NodesAssumption
  <2>3. Priority[h] \in 0..32 /\ Priority[l] \in 0..32 /\ 32 \in 0..32
    BY <1>2
  <2>4. Priority[h] # Priority[l] /\ Priority[h] # 32 /\ Priority[l] # 32
    BY <1>1, <1>2
  <2> QED
    BY <1>2, <2>1, <2>2, <2>3, <2>4
<1> QED
  BY <1>1, <1>2, <1>3, <1>4, <1>5

\* What Shift chooses.
LEMMA TwoScan ==
  ASSUME NEW h, NEW l, Two(h, l), NEW S \in SUBSET {Priority[h], Priority[l]}
  PROVE  bit_scan_forward(S) = IF Priority[h] \in S THEN Priority[h]
                               ELSE IF Priority[l] \in S THEN Priority[l] ELSE IdlePrio
<1> DEFINE a == Priority[h]
           b == Priority[l]
<1>1. a \in 0..31 /\ b \in 0..31 /\ a < b
  BY TwoNodes
<1>2. CASE a \in S
  <2>1. \A r \in S : a <= r
    BY <1>1
  <2>2. \A p \in S : (\A r \in S : p <= r) => p = a
    BY <1>1, <1>2
  <2> QED
    BY <1>2, <2>1, <2>2 DEF bit_scan_forward
<1>3. CASE a \notin S /\ b \in S
  <2>1. S = {b}
    BY <1>3
  <2> QED
    BY <1>1, <1>3, <2>1 DEF bit_scan_forward
<1>4. CASE S = {}
  BY <1>4 DEF bit_scan_forward
<1> QED
  BY <1>2, <1>3, <1>4

\* list_del of a thread that hangs on its own ready list.
LEMMA DelSelf ==
  ASSUME NEW h, NEW l, Two(h, l), NEW t \in {h, l}, NEW L \in Links(Node),
         L[t] \in {Alone(t), Looped(t)}
  PROVE  /\ list_del(L, t) \in Links(Node)
         /\ list_del(L, t)[Priority[t]].next = L[t].next
         /\ \A n \in Node \ {Priority[t]} : list_del(L, t)[n] = L[n]
<1>1. t \in Node /\ Priority[t] \in Node /\ t # Priority[t]
  <2>1. t = h \/ t = l
    OBVIOUS
  <2> QED
    BY <2>1, TwoNodes
<1>2. L[t].prev = Priority[t] /\ L[t].next \in {t, Priority[t]}
  BY DEF Alone, Looped
<1> QED
  BY <1>1, <1>2 DEF list_del, __list_del, Links

\* list_add of a thread to its ready list, on which it may be already.
LEMMA AddSelf ==
  ASSUME NEW h, NEW l, Two(h, l), NEW t \in {h, l}, NEW L \in Links(Node),
         L[Priority[t]].next \in {t, Priority[t]}
  PROVE  /\ list_add(L, t, Priority[t]) \in Links(Node)
         /\ list_add(L, t, Priority[t])[Priority[t]].next = t
         /\ list_add(L, t, Priority[t])[t] =
              IF L[Priority[t]].next = t THEN Looped(t) ELSE Alone(t)
         /\ \A n \in Node \ {t, Priority[t]} : list_add(L, t, Priority[t])[n] = L[n]
<1>1. t \in Node /\ Priority[t] \in Node /\ t # Priority[t]
  <2>1. t = h \/ t = l
    OBVIOUS
  <2> QED
    BY <2>1, TwoNodes
<1>2. CASE L[Priority[t]].next = t
  BY <1>1, <1>2 DEF list_add, __list_add, Links, Looped
<1>3. CASE L[Priority[t]].next = Priority[t]
  BY <1>1, <1>3 DEF list_add, __list_add, Links, Alone
<1> QED
  BY <1>2, <1>3

\* list_add of h to WaitHead, which may name it already.
LEMMA AddWait ==
  ASSUME NEW h, NEW l, Two(h, l), NEW L \in Links(Node),
         L[WaitHead].next \in {WaitHead, h}
  PROVE  /\ list_add(L, h, WaitHead) \in Links(Node)
         /\ list_add(L, h, WaitHead)[WaitHead].next = h
         /\ \A n \in Node \ {h, WaitHead} : list_add(L, h, WaitHead)[n] = L[n]
<1>1. h \in Node /\ WaitHead \in Node /\ h # WaitHead
  BY TwoNodes
<1> QED
  BY <1>1 DEF list_add, __list_add, Links

\* PendSV: h if it is ready, and else l or idle (kernel.c:399-409).
LEMMA LockShift ==
  ASSUME NEW h, NEW l, Two(h, l), LockInv(h, l), Shift, UNCHANGED <<semaphore, inside, Careful>>
  PROVE  LockInv(h, l)'
<1>1. /\ pend /\ pend' = FALSE
      /\ OS_This' = list[bit_scan_forward(OS_ActivePrio)].next
      /\ UNCHANGED <<list, OS_ActivePrio, pc, timer, Counter, inside, Careful>>
  BY DEF Shift, semaphore
<1>2. bit_scan_forward(OS_ActivePrio) =
        IF UpNow(h) THEN Priority[h] ELSE IF UpNow(l) THEN Priority[l] ELSE IdlePrio
  BY TwoScan DEF LockInv, LockTypes, UpNow
<1>3. /\ UpNow(h) => OS_This' \in {h, Priority[h]}
      /\ ~UpNow(h) => OS_This' # h
  BY <1>1, <1>2, TwoNodes DEF LockInv, Firsts
<1>4. LockTypes(h, l)' /\ Firsts(h, l)' /\ OnlyOneWaits(h, l)' /\ Doubles(h, l)'
  BY <1>1 DEF LockInv, LockTypes, Firsts, OnlyOneWaits, Doubles, UpNow, Waits, Alone, Looped
<1>5. OneUnit(h, l)'
  BY <1>1, <1>3 DEF LockInv, OneUnit, UpNow
<1>6. Turns(h, l)'
  BY <1>1, <1>3 DEF LockInv, Turns, UpNow
<1> QED
  BY <1>4, <1>5, <1>6 DEF LockInv

\* Only h ever comes to the OS_thread_switch of a wait.
LEMMA LockSwitch ==
  ASSUME NEW h, NEW l, Two(h, l), LockInv(h, l), NEW t \in Threads, Switch(t),
         UNCHANGED <<semaphore, inside, Careful>>
  PROVE  LockInv(h, l)'
<1>1. t = h
  BY TwoNodes DEF Switch, LockInv, OnlyOneWaits, Waits
<1>2. /\ pc[h] = "blocked" /\ pc' = [pc EXCEPT ![h] = "waiting"] /\ pend' = TRUE
      /\ UNCHANGED <<list, OS_ActivePrio, OS_This, timer, Counter, inside, Careful>>
  BY <1>1 DEF Switch, semaphore
<1>3. pc'[h] = "waiting" /\ pc'[l] = pc[l] /\ h # l
  BY <1>2, TwoNodes DEF LockInv, LockTypes
<1>4. LockTypes(h, l)'
  BY <1>2, <1>3, TwoNodes DEF LockInv, LockTypes
<1>5. Firsts(h, l)' /\ OnlyOneWaits(h, l)' /\ Doubles(h, l)'
  BY <1>2, <1>3 DEF LockInv, Firsts, OnlyOneWaits, Doubles, UpNow, Waits, Alone, Looped
<1>6. OneUnit(h, l)' /\ Turns(h, l)'
  BY <1>2, <1>3 DEF LockInv, OneUnit, Turns, UpNow
<1> QED
  BY <1>4, <1>5, <1>6 DEF LockInv

\* h made ready, by its timer or by a post: it comes onto its ready list, once if it
\* was not ready.
LEMMA LockReady ==
  ASSUME NEW h, NEW l, Two(h, l), LockInv(h, l), MakeReady(h)
  PROVE  /\ list' \in Links(Node)
         /\ OS_ActivePrio' = OS_ActivePrio \cup {Priority[h]}
         /\ list'[Priority[h]].next = h
         /\ list'[h] = IF list[Priority[h]].next = h THEN Looped(h) ELSE Alone(h)
         /\ \A n \in {l, WaitHead, Priority[l], IdlePrio} : list'[n] = list[n]
<1>1. list \in Links(Node) /\ list[Priority[h]].next \in {h, Priority[h]}
  BY DEF LockInv, LockTypes, Firsts
<1>2. list' = list_add(list, h, Priority[h])
  BY DEF MakeReady
<1> QED
  BY <1>1, <1>2, AddSelf, TwoNodes DEF MakeReady

\* The timer of sleep rings, for h or for l (ticker.c:290-301).
LEMMA LockExpire ==
  ASSUME NEW h, NEW l, Two(h, l), LockInv(h, l), NEW t \in Threads, Expire(t),
         UNCHANGED <<semaphore, inside, Careful>>
  PROVE  LockInv(h, l)'
<1>1. /\ timer[t] = "armed" /\ timer' = [timer EXCEPT ![t] = "rung"] /\ pend' = TRUE
      /\ UNCHANGED <<OS_This, pc, Counter, inside, Careful>> /\ MakeReady(t)
  BY DEF Expire, semaphore
<1>2. timer' \in [Tcb -> {"off", "armed", "rung"}] /\ timer'[t] = "rung"
      /\ \A u \in Threads \ {t} : timer'[u] = timer[u]
  BY <1>1, TwoNodes DEF LockInv, LockTypes
<1>3. CASE t = h
  <2>1. pc[h] = "asleep" /\ inside # {h}
    BY <1>1, <1>3 DEF LockInv, LockTypes, OneUnit
  <2>2. list' \in Links(Node) /\ UpNow(h)' /\ list'[Priority[h]].next = h
        /\ list'[h] = (IF list[Priority[h]].next = h THEN Looped(h) ELSE Alone(h))
        /\ \A n \in {l, WaitHead, Priority[l], IdlePrio} : list'[n] = list[n]
        /\ OS_ActivePrio' = OS_ActivePrio \cup {Priority[h]}
    BY <1>1, <1>3, LockReady DEF UpNow
  <2>3. LockTypes(h, l)'
    BY <1>1, <1>2, <1>3, <2>2, TwoNodes DEF LockInv, LockTypes
  <2>4. Firsts(h, l)'
    BY <1>1, <2>2 DEF LockInv, Firsts, Looped, Alone
  <2>5. OneUnit(h, l)' /\ OnlyOneWaits(h, l)' /\ Turns(h, l)'
    BY <1>1, <2>1, <2>2 DEF LockInv, OneUnit, OnlyOneWaits, Turns, Waits
  <2>6. Doubles(h, l)'
    BY <1>1, <1>2, <1>3, <2>1, <2>2, TwoNodes DEF LockInv, Doubles, Firsts, Waits
  <2> QED
    BY <2>3, <2>4, <2>5, <2>6 DEF LockInv
<1>4. CASE t = l
  <2>1. list' = list_add(list, l, Priority[l]) /\ OS_ActivePrio' = OS_ActivePrio \cup {Priority[l]}
    BY <1>1, <1>4 DEF MakeReady
  <2>2. /\ list' \in Links(Node) /\ list'[Priority[l]].next = l
        /\ list'[l] \in {Looped(l), Alone(l)}
        /\ \A n \in {h, WaitHead, Priority[h], IdlePrio} : list'[n] = list[n]
    BY <2>1, AddSelf, TwoNodes DEF LockInv, LockTypes, Firsts
  <2>3. UpNow(h)' <=> UpNow(h)
    BY <2>1, TwoNodes DEF UpNow
  <2>4. LockTypes(h, l)'
    BY <1>1, <1>2, <1>4, <2>1, <2>2, TwoNodes DEF LockInv, LockTypes
  <2>5. Firsts(h, l)'
    BY <1>1, <2>2, <2>3 DEF LockInv, Firsts, Waits, Alone, Looped
  <2>6. OneUnit(h, l)' /\ OnlyOneWaits(h, l)' /\ Turns(h, l)'
    BY <1>1, <2>2, <2>3 DEF LockInv, OneUnit, OnlyOneWaits, Turns, Waits, Alone
  <2>7. Doubles(h, l)'
    BY <1>1, <1>2, <1>4, <2>2, <2>3, TwoNodes DEF LockInv, Doubles, Waits, Alone
  <2> QED
    BY <2>4, <2>5, <2>6, <2>7 DEF LockInv
<1> QED
  BY <1>3, <1>4, TwoNodes

\* Nobody is inside and the unit is there.
LEMMA LockEnter ==
  ASSUME NEW h, NEW l, Two(h, l), LockInv(h, l), NEW t \in Threads, Enter(t), UNCHANGED Careful
  PROVE  LockInv(h, l)'
<1>1. /\ OS_This = t /\ ~pend /\ pc[t] = "run" /\ Counter > 0 /\ Counter' = Counter - 1
      /\ inside' = inside \cup {t}
      /\ UNCHANGED <<list, OS_ActivePrio, OS_This, pend, pc, timer, Careful>>
  BY DEF Enter, Fetch, Calls, Running, Taken, sched
<1>2. inside = {} /\ Counter = 1 /\ inside' = {t} /\ Counter' = 0
  BY <1>1 DEF LockInv, OneUnit
<1>3. t = h => UpNow(h)
  BY <1>1 DEF LockInv, Turns
<1>4. t = l => ~UpNow(h)
  BY <1>1, TwoNodes DEF LockInv, Turns
<1>5. LockTypes(h, l)' /\ Firsts(h, l)' /\ Turns(h, l)'
  BY <1>1 DEF LockInv, LockTypes, Firsts, Turns, UpNow, Waits, Alone, Looped
<1>6. OneUnit(h, l)'
  BY <1>1, <1>2, <1>3, TwoNodes DEF OneUnit, UpNow
<1>7. ~Waits(h)
  BY <1>1, <1>2, <1>4, TwoNodes DEF LockInv, OnlyOneWaits, Waits
<1>8. OnlyOneWaits(h, l)'
  BY <1>1, <1>7 DEF LockInv, OnlyOneWaits, Waits
<1>9. Doubles(h, l)'
  BY <1>1, <1>2, <1>4, TwoNodes DEF LockInv, Doubles, UpNow, Alone, Waits
<1> QED
  BY <1>5, <1>6, <1>8, <1>9 DEF LockInv

\* l never finds the semaphore without its unit, and h finds it so only while l is
\* inside, when h leaves its ready list for WaitHead (semaphore.c:220-250).
LEMMA LockWaits ==
  ASSUME NEW h, NEW l, Two(h, l), LockInv(h, l), NEW t \in Threads, EnterWaits(t),
         UNCHANGED Careful
  PROVE  LockInv(h, l)'
<1>1. /\ t \notin inside /\ OS_This = t /\ ~pend /\ pc[t] = "run" /\ Counter = 0
      /\ list' = list_add(Off(t), t, WaitHead) /\ OS_ActivePrio' = Cleared(t)
      /\ timer' = [timer EXCEPT ![t] = "off"] /\ pc' = [pc EXCEPT ![t] = "blocked"]
      /\ UNCHANGED <<OS_This, pend, Counter, inside, Careful>>
  BY DEF EnterWaits, Wait, Calls, Running, semaphore
<1>2. t = h /\ inside = {l}
  BY <1>1, TwoNodes DEF LockInv, OneUnit
<1>3. list[h] = Alone(h) /\ list \in Links(Node) /\ list[WaitHead].next \in {WaitHead, h}
  BY <1>1, <1>2 DEF LockInv, LockTypes, Firsts, Doubles, Waits
<1>4. /\ Off(h) \in Links(Node) /\ Off(h)[Priority[h]].next = Priority[h]
      /\ \A n \in Node \ {Priority[h]} : Off(h)[n] = list[n]
  BY <1>3, DelSelf DEF Off, Alone
<1>5. /\ list' \in Links(Node) /\ list'[WaitHead].next = h
      /\ \A n \in Node \ {h, WaitHead} : list'[n] = Off(h)[n]
  <2>1. Off(h)[WaitHead].next \in {WaitHead, h}
    BY <1>3, <1>4, TwoNodes
  <2> QED
    BY <1>1, <1>2, <1>4, <2>1, AddWait
<1>6. /\ list'[Priority[h]].next = Priority[h]
      /\ \A n \in {l, Priority[l], IdlePrio} : list'[n] = list[n]
  BY <1>4, <1>5, TwoNodes
<1>7. OS_ActivePrio' = OS_ActivePrio \ {Priority[h]} /\ ~UpNow(h)'
  BY <1>1, <1>2, <1>4 DEF Cleared, list_empty, UpNow
<1>8. pc'[h] = "blocked" /\ pc'[l] = pc[l] /\ timer'[h] = "off" /\ timer'[l] = timer[l]
  BY <1>1, <1>2, TwoNodes DEF LockInv, LockTypes
<1>9. LockTypes(h, l)'
  BY <1>1, <1>2, <1>5, <1>7, <1>8, TwoNodes DEF LockInv, LockTypes
<1>10. Firsts(h, l)'
  BY <1>5, <1>6, <1>7, <1>8 DEF LockInv, Firsts, Waits, Alone, Looped
<1>11. OneUnit(h, l)' /\ OnlyOneWaits(h, l)'
  BY <1>1, <1>2, <1>5, <1>7, <1>8, TwoNodes DEF LockInv, OneUnit, OnlyOneWaits, Waits
<1>12. Turns(h, l)' /\ Doubles(h, l)'
  BY <1>7, <1>8 DEF Turns, Doubles, Waits
<1> QED
  BY <1>9, <1>10, <1>11, <1>12 DEF LockInv

\* The wait of h comes back with the unit, and takes h off its ready list
\* (semaphore.c:275-283).
LEMMA LockResumes ==
  ASSUME NEW h, NEW l, Two(h, l), LockInv(h, l), NEW t \in Threads, EnterResumes(t),
         UNCHANGED Careful
  PROVE  LockInv(h, l)'
<1>1. /\ OS_This = t /\ ~pend /\ pc[t] = "waiting"
      /\ timer' = [timer EXCEPT ![t] = "off"] /\ list' = list_del(list, t)
      /\ pc' = [pc EXCEPT ![t] = "run"] /\ inside' = inside \cup {t}
      /\ Counter > 0 => Counter' = Counter - 1
      /\ UNCHANGED <<OS_ActivePrio, OS_This, pend, Careful>>
  BY DEF EnterResumes, Resume, Running, Taken
<1>2. t = h /\ UpNow(h)
  BY <1>1, TwoNodes DEF LockInv, OnlyOneWaits, Turns, Waits
<1>3. inside = {} /\ Counter = 1 /\ list[h] = Alone(h) /\ list \in Links(Node)
  BY <1>1, <1>2 DEF LockInv, LockTypes, OnlyOneWaits, OneUnit, Waits
<1>4. /\ list' \in Links(Node) /\ list'[Priority[h]].next = Priority[h]
      /\ \A n \in Node \ {Priority[h]} : list'[n] = list[n]
  BY <1>1, <1>2, <1>3, DelSelf DEF Alone
<1>5. \A n \in {h, l, WaitHead, Priority[l], IdlePrio} : list'[n] = list[n]
  BY <1>4, TwoNodes
<1>6. pc'[h] = "run" /\ pc'[l] = pc[l] /\ timer'[h] = "off" /\ timer'[l] = timer[l]
  BY <1>1, <1>2, TwoNodes DEF LockInv, LockTypes
<1>7. inside' = {h} /\ Counter' = 0 /\ (UpNow(h)' <=> UpNow(h))
  BY <1>1, <1>2, <1>3 DEF UpNow
<1>8. LockTypes(h, l)'
  BY <1>1, <1>2, <1>4, <1>6, TwoNodes DEF LockInv, LockTypes
<1>9. Firsts(h, l)'
  BY <1>2, <1>3, <1>4, <1>5, <1>7 DEF LockInv, Firsts, Alone, Looped
<1>10. OneUnit(h, l)' /\ OnlyOneWaits(h, l)'
  BY <1>1, <1>2, <1>6, <1>7 DEF LockInv, OneUnit, OnlyOneWaits, Waits
<1>11. Turns(h, l)' /\ Doubles(h, l)'
  BY <1>1, <1>2, <1>3, <1>5, <1>6, <1>7, TwoNodes DEF Turns, Doubles, Waits, Alone
<1> QED
  BY <1>8, <1>9, <1>10, <1>11 DEF LockInv

\* A post wakes h where it waits, or enters it again where WaitHead still names it
\* (semaphore.c:322-341).
LEMMA LockLeave ==
  ASSUME NEW h, NEW l, Two(h, l), LockInv(h, l), NEW t \in Threads, Leave(t),
         UNCHANGED Careful
  PROVE  LockInv(h, l)'
<1>1. /\ OS_This = t /\ ~pend /\ pc[t] = "run" /\ inside' = inside \ {t} /\ t \in inside
      /\ Counter' = Counter + 1
      /\ pc' = [pc EXCEPT ![t] = IF list_empty(list, WaitHead) THEN "run" ELSE "posting"]
      /\ UNCHANGED <<OS_This, pend, timer, Careful>>
      /\ IF list_empty(list, WaitHead) THEN UNCHANGED <<list, OS_ActivePrio>>
         ELSE MakeReady(list[WaitHead].next)
  BY DEF Leave, Post, Posted, Calls, Running
<1>2. inside = {t} /\ inside' = {} /\ Counter' = 1
  BY <1>1, TwoNodes DEF LockInv, OneUnit
<1>3. /\ pc'[t] = (IF list_empty(list, WaitHead) THEN "run" ELSE "posting")
      /\ \A u \in {h, l} \ {t} : pc'[u] = pc[u]
      /\ pc' \in [Tcb -> {"run", "blocked", "waiting", "posting", "asleep"}]
  BY <1>1, TwoNodes DEF LockInv, LockTypes
<1>4. t = l => ~UpNow(h)
  BY <1>1, TwoNodes DEF LockInv, Turns
<1>5. t = h => UpNow(h)
  BY <1>1 DEF LockInv, Turns
<1>6. CASE list[WaitHead].next = WaitHead
  <2>1. UNCHANGED <<list, OS_ActivePrio>> /\ (UpNow(h)' <=> UpNow(h))
    BY <1>1, <1>6 DEF list_empty, UpNow
  <2>2. ~Waits(h) /\ ~Waits(h)' /\ ~Waits(l)'
    BY <1>1, <1>3, <1>4, <1>6, TwoNodes DEF LockInv, OnlyOneWaits, Waits
  <2>3. LockTypes(h, l)'
    BY <1>1, <1>3, <2>1, TwoNodes DEF LockInv, LockTypes
  <2>4. Firsts(h, l)' /\ OneUnit(h, l)' /\ OnlyOneWaits(h, l)'
    BY <1>2, <2>1, <2>2 DEF LockInv, Firsts, OneUnit, OnlyOneWaits, Alone, Looped
  <2>5. pc' = pc
    BY <1>1, <1>6, TwoNodes DEF LockInv, LockTypes, list_empty
  <2>6. Turns(h, l)' /\ Doubles(h, l)'
    BY <1>1, <1>2, <1>4, <1>5, <2>1, <2>2, <2>5, TwoNodes DEF LockInv, Turns, Doubles, Alone
  <2> QED
    BY <2>3, <2>4, <2>6 DEF LockInv
<1>7. CASE list[WaitHead].next = h
  <2>0. pc'[t] = "posting"
    BY <1>3, <1>7, TwoNodes DEF list_empty
  <2>1. /\ list' \in Links(Node) /\ UpNow(h)' /\ list'[Priority[h]].next = h
        /\ list'[h] = (IF list[Priority[h]].next = h THEN Looped(h) ELSE Alone(h))
        /\ \A n \in {l, WaitHead, Priority[l], IdlePrio} : list'[n] = list[n]
        /\ OS_ActivePrio' = OS_ActivePrio \cup {Priority[h]}
    BY <1>1, <1>7, LockReady, TwoNodes DEF list_empty, UpNow
  <2>2. ~Waits(l)' /\ (Waits(h)' => t = l /\ Waits(h) /\ list[Priority[h]].next = Priority[h])
    BY <1>1, <1>3, <1>4, <2>0, TwoNodes DEF LockInv, OnlyOneWaits, Firsts, Waits
  <2>3. LockTypes(h, l)'
    BY <1>1, <1>3, <2>1, TwoNodes DEF LockInv, LockTypes
  <2>4. Firsts(h, l)' /\ OneUnit(h, l)'
    BY <1>2, <1>7, <2>1, <2>2 DEF LockInv, Firsts, OneUnit, Alone, Looped
  <2>5. OnlyOneWaits(h, l)'
    BY <1>2, <2>1, <2>2, TwoNodes DEF OnlyOneWaits
  <2>6. Turns(h, l)' /\ Doubles(h, l)'
    BY <1>1, <1>2, <1>3, <2>0, <2>1, TwoNodes DEF Turns, Doubles
  <2> QED
    BY <2>3, <2>4, <2>5, <2>6 DEF LockInv
<1> QED
  BY <1>6, <1>7 DEF LockInv, Firsts

\* The end of a post: with h ready, l goes no further (semaphore.c:346).
LEMMA LockPostReturns ==
  ASSUME NEW h, NEW l, Two(h, l), LockInv(h, l), NEW t \in Threads, PostReturns(t),
         UNCHANGED <<inside, Careful>>
  PROVE  LockInv(h, l)'
<1>1. /\ OS_This = t /\ ~pend /\ pc[t] = "posting"
      /\ pend' = Scheduled(OS_ActivePrio) /\ pc' = [pc EXCEPT ![t] = "run"]
      /\ UNCHANGED <<list, OS_ActivePrio, OS_This, timer, Counter, inside, Careful>>
  BY DEF PostReturns, Running, semaphore
<1>2. /\ pc'[t] = "run" /\ \A u \in {h, l} \ {t} : pc'[u] = pc[u]
      /\ pc' \in [Tcb -> {"run", "blocked", "waiting", "posting", "asleep"}]
  BY <1>1, TwoNodes DEF LockInv, LockTypes
<1>3. t = l /\ UpNow(h) => pend' = TRUE
  <2> SUFFICES ASSUME t = l, UpNow(h) PROVE pend' = TRUE
    OBVIOUS
  <2>1. bit_scan_forward(OS_ActivePrio) = Priority[h]
    BY TwoScan DEF LockInv, LockTypes, UpNow
  <2>2. OS_This = l /\ l \in Tcb /\ Priority[h] < Priority[l]
    BY <1>1, TwoNodes
  <2>3. OS_This \in Tcb /\ bit_scan_forward(OS_ActivePrio) < Priority[OS_This]
    BY <2>1, <2>2
  <2> QED
    BY <1>1, <2>3, Zenon DEF Scheduled
<1>4. pend' \in BOOLEAN
  BY <1>1, Zenon DEF Scheduled
<1>5. UpNow(h)' <=> UpNow(h)
  BY <1>1 DEF UpNow
<1>6. LockTypes(h, l)'
  BY <1>1, <1>2, <1>4, TwoNodes DEF LockInv, LockTypes
<1>7. Firsts(h, l)' /\ OneUnit(h, l)' /\ OnlyOneWaits(h, l)'
  BY <1>1, <1>2, <1>5, TwoNodes
     DEF LockInv, Firsts, OneUnit, OnlyOneWaits, Waits, Alone, Looped
<1>8. Turns(h, l)' /\ Doubles(h, l)'
  BY <1>1, <1>2, <1>3, <1>5, TwoNodes DEF LockInv, Turns, Doubles, Waits, Alone
<1> QED
  BY <1>6, <1>7, <1>8 DEF LockInv

\* h leaves its ready list to sleep, or stays on it for good when it was entered
\* twice; what l does to its own list does not matter.
LEMMA LockSleep ==
  ASSUME NEW h, NEW l, Two(h, l), LockInv(h, l), NEW t \in Threads, Sleep(t),
         UNCHANGED Careful
  PROVE  LockInv(h, l)'
<1>1. /\ OS_This = t /\ ~pend /\ pc[t] = "run" /\ t \notin inside
      /\ list' = Off(t) /\ OS_ActivePrio' = Cleared(t)
      /\ timer' = [timer EXCEPT ![t] = "armed"] /\ pc' = [pc EXCEPT ![t] = "asleep"]
      /\ pend' = TRUE /\ UNCHANGED <<OS_This, Counter, inside, Careful>>
  BY DEF Sleep, Calls, Running, semaphore
<1>2. /\ pc'[t] = "asleep" /\ \A u \in {h, l} \ {t} : pc'[u] = pc[u] /\ timer'[u] = timer[u]
      /\ pc' \in [Tcb -> {"run", "blocked", "waiting", "posting", "asleep"}]
      /\ timer' \in [Tcb -> {"off", "armed", "rung"}]
  BY <1>1, TwoNodes DEF LockInv, LockTypes
<1>3. t \in {h, l} /\ list \in Links(Node) /\ list[t] \in {Alone(t), Looped(t)}
  BY <1>1, TwoNodes DEF LockInv, LockTypes, Firsts, Waits
<1>4. /\ list' \in Links(Node) /\ list'[Priority[t]].next = list[t].next
      /\ \A n \in Node \ {Priority[t]} : list'[n] = list[n]
  BY <1>1, <1>3, DelSelf DEF Off
<1>5. \A n \in {h, l, WaitHead, IdlePrio} : list'[n] = list[n]
  BY <1>3, <1>4, TwoNodes
<1>6. OS_ActivePrio' \subseteq OS_ActivePrio
  BY <1>1 DEF Cleared
<1>7. LockTypes(h, l)'
  BY <1>1, <1>2, <1>3, <1>4, <1>6, TwoNodes DEF LockInv, LockTypes
<1>8. CASE t = h /\ list[h] = Alone(h)
  <2>1. list'[Priority[h]].next = Priority[h] /\ list'[Priority[l]] = list[Priority[l]]
    BY <1>4, <1>8, TwoNodes DEF Alone
  <2>2. ~UpNow(h)'
    BY <1>1, <1>8, <2>1 DEF Cleared, list_empty, UpNow
  <2>3. Firsts(h, l)'
    BY <1>5, <1>8, <2>1, <2>2 DEF LockInv, Firsts, Alone, Looped
  <2>4. OneUnit(h, l)' /\ OnlyOneWaits(h, l)'
    BY <1>1, <1>2, <1>8, TwoNodes DEF LockInv, OneUnit, OnlyOneWaits, Waits
  <2>5. Turns(h, l)' /\ Doubles(h, l)'
    BY <1>1, <1>2, <1>5, <1>8, <2>2 DEF Turns, Doubles, Alone
  <2> QED
    BY <1>7, <2>3, <2>4, <2>5 DEF LockInv
<1>9. CASE t = h /\ list[h] # Alone(h)
  <2>1. list'[Priority[h]].next = h /\ list'[Priority[l]] = list[Priority[l]]
    BY <1>3, <1>4, <1>9, TwoNodes DEF Looped
  <2>2. UpNow(h) /\ UpNow(h)' /\ inside # {l} /\ inside # {h}
    BY <1>1, <1>9, <2>1, TwoNodes DEF LockInv, Doubles, Cleared, list_empty, UpNow, Waits
  <2>3. Firsts(h, l)'
    BY <1>3, <1>5, <1>9, <2>1, <2>2 DEF LockInv, Firsts, Alone, Looped
  <2>4. OneUnit(h, l)' /\ OnlyOneWaits(h, l)'
    BY <1>1, <1>2, <1>9, <2>2, TwoNodes DEF LockInv, OneUnit, OnlyOneWaits, Waits
  <2>5. Turns(h, l)' /\ Doubles(h, l)'
    BY <1>1, <2>2 DEF Turns, Doubles
  <2> QED
    BY <1>7, <2>3, <2>4, <2>5 DEF LockInv
<1>10. CASE t = l
  <2>1. /\ list'[Priority[l]].next \in {l, Priority[l]}
        /\ list'[Priority[h]] = list[Priority[h]]
    BY <1>3, <1>4, <1>10, TwoNodes DEF Alone, Looped
  <2>2. UpNow(h)' <=> UpNow(h)
    BY <1>1, <1>10, TwoNodes DEF Cleared, UpNow
  <2>3. ~UpNow(h) /\ inside # {l}
    BY <1>1, <1>10, TwoNodes DEF LockInv, Turns
  <2>4. Firsts(h, l)'
    BY <1>2, <1>5, <1>10, <2>1, <2>2, TwoNodes DEF LockInv, Firsts, Waits, Alone, Looped
  <2>5. OneUnit(h, l)' /\ OnlyOneWaits(h, l)'
    BY <1>1, <1>2, <1>10, <2>2, <2>3, TwoNodes DEF LockInv, OneUnit, OnlyOneWaits, Waits
  <2>6. Turns(h, l)' /\ Doubles(h, l)'
    BY <1>1, <1>2, <1>5, <1>10, <2>2, <2>3, TwoNodes DEF LockInv, Turns, Doubles, Waits, Alone
  <2> QED
    BY <1>7, <2>4, <2>5, <2>6 DEF LockInv
<1> QED
  BY <1>3, <1>8, <1>9, <1>10

\* Whoever runs after its sleep is ready.
LEMMA LockSleepReturns ==
  ASSUME NEW h, NEW l, Two(h, l), LockInv(h, l), NEW t \in Threads, SleepReturns(t),
         UNCHANGED Careful
  PROVE  LockInv(h, l)'
<1>1. /\ OS_This = t /\ ~pend /\ pc[t] = "asleep"
      /\ timer' = [timer EXCEPT ![t] = "off"] /\ pc' = [pc EXCEPT ![t] = "run"]
      /\ UNCHANGED <<list, OS_ActivePrio, OS_This, pend, Counter, inside, Careful>>
  BY DEF SleepReturns, Running, semaphore
<1>2. /\ pc'[t] = "run" /\ \A u \in {h, l} \ {t} : pc'[u] = pc[u] /\ timer'[u] = timer[u]
      /\ timer'[t] = "off"
      /\ pc' \in [Tcb -> {"run", "blocked", "waiting", "posting", "asleep"}]
      /\ timer' \in [Tcb -> {"off", "armed", "rung"}]
  BY <1>1, TwoNodes DEF LockInv, LockTypes
<1>3. (t = h => UpNow(h)) /\ (t = l => ~UpNow(h))
  BY <1>1, TwoNodes DEF LockInv, Turns
<1>4. UpNow(h)' <=> UpNow(h)
  BY <1>1 DEF UpNow
<1>5. LockTypes(h, l)'
  BY <1>1, <1>2, TwoNodes DEF LockInv, LockTypes
<1>6. Firsts(h, l)' /\ OneUnit(h, l)' /\ OnlyOneWaits(h, l)'
  BY <1>1, <1>2, <1>4, TwoNodes
     DEF LockInv, Firsts, OneUnit, OnlyOneWaits, Waits, Alone, Looped
<1>7. Turns(h, l)' /\ Doubles(h, l)'
  BY <1>1, <1>2, <1>3, <1>4, TwoNodes DEF LockInv, Turns, Doubles, Waits, Alone
<1> QED
  BY <1>5, <1>6, <1>7 DEF LockInv

\* At the start both threads are ready, the more urgent runs and nobody is inside.
LEMMA LockStarts ==
  ASSUME NEW h, NEW l, Two(h, l), Amount = 1, LockInit
  PROVE  LockInv(h, l)
<1>1. /\ Counter = 1 /\ inside = {} /\ Careful = {"untimed", "calm"}
      /\ OS_ActivePrio = {Priority[t] : t \in Threads} /\ OS_This = Server /\ pend = FALSE
      /\ pc = [t \in Tcb |-> "run"] /\ timer = [t \in Tcb |-> "off"]
  BY DEF LockInit, Init, SchedInit, SemaphoreInit
<1>2. Server = h
  <2>1. h \in Threads /\ \A u \in Threads : Priority[h] <= Priority[u]
    BY TwoNodes
  <2>2. \A t \in Threads : (\A u \in Threads : Priority[t] <= Priority[u]) => t = h
    BY TwoNodes
  <2> QED
    BY <2>1, <2>2 DEF Server
<1>3. OS_ActivePrio = {Priority[h], Priority[l]} /\ UpNow(h)
  BY <1>1, TwoNodes DEF UpNow
<1>4. list = [n \in Node |->
       CASE n \in Tcb   -> [next |-> Priority[n], prev |-> Priority[n]]
         [] n \in Heads -> LET t == CHOOSE u \in Tcb : Priority[u] = n
                           IN  [next |-> t, prev |-> t]
         [] OTHER       -> [next |-> n, prev |-> n]]
  BY DEF LockInit, Init, SchedInit
<1>5. Tcb \cap Heads = {} /\ Heads = {Priority[h], Priority[l], IdlePrio}
  BY TwoNodes, BlockingAssumption DEF Heads
<1>6. \A n \in Tcb : list[n] = Alone(n) /\ list[n] \in [next : Node, prev : Node]
  BY <1>4, <1>5, BlockingAssumption DEF Alone, Node, Heads
<1>7. \A u \in Tcb : list[Priority[u]] = [next |-> u, prev |-> u]
  <2> SUFFICES ASSUME NEW u \in Tcb PROVE list[Priority[u]] = [next |-> u, prev |-> u]
    OBVIOUS
  <2>1. Priority[u] \in Heads /\ Priority[u] \in Node /\ Priority[u] \notin Tcb
    BY <1>5 DEF Heads, Node
  <2>2. (CHOOSE v \in Tcb : Priority[v] = Priority[u]) = u
    BY BlockingAssumption
  <2> QED
    BY <1>4, <2>1, <2>2
<1>8. \A n \in Node : n \notin Tcb /\ n \notin Heads => list[n] = [next |-> n, prev |-> n]
  BY <1>4
<1>9. list \in Links(Node)
  <2>1. \A x \in Node : [next |-> x, prev |-> x] \in [next : Node, prev : Node]
    OBVIOUS
  <2>2. \A n \in Node : list[n] \in [next : Node, prev : Node]
    <3> SUFFICES ASSUME NEW n \in Node PROVE list[n] \in [next : Node, prev : Node]
      OBVIOUS
    <3>1. CASE n \in Tcb
      BY <1>6, <3>1
    <3>2. CASE n \in Heads
      <4>1. PICK u \in Tcb : n = Priority[u]
        BY <3>2 DEF Heads
      <4>2. u \in Node
        BY DEF Node
      <4> QED
        BY <1>7, <2>1, <4>1, <4>2, Zenon
    <3>3. CASE n \notin Tcb /\ n \notin Heads
      BY <1>8, <2>1, <3>3, Zenon
    <3> QED
      BY <3>1, <3>2, <3>3
  <2> QED
    BY <1>4, <2>2 DEF Links
<1>10. LockTypes(h, l)
  <2>1. pc[h] = "run" /\ pc[l] = "run" /\ timer[h] = "off" /\ timer[l] = "off"
    BY <1>1, TwoNodes
  <2>2. pc \in [Tcb -> {"run", "blocked", "waiting", "posting", "asleep"}]
        /\ timer \in [Tcb -> {"off", "armed", "rung"}]
    BY <1>1
  <2> QED
    BY <1>1, <1>3, <1>9, <2>1, <2>2 DEF LockTypes
<1>11. /\ list[WaitHead].next = WaitHead /\ list[Priority[h]].next = h
       /\ list[Priority[l]].next = l /\ list[IdlePrio].next = Idle
       /\ list[h] = Alone(h) /\ list[l] = Alone(l)
  <2>1. WaitHead \notin Tcb /\ WaitHead \notin Heads /\ WaitHead \in Node
    BY <1>5, TwoNodes
  <2>2. h \in Tcb /\ l \in Tcb /\ Idle \in Tcb /\ Priority[Idle] = IdlePrio
    BY TwoNodes, BlockingAssumption
  <2>3. list[WaitHead] = [next |-> WaitHead, prev |-> WaitHead]
    BY <1>8, <2>1, Zenon
  <2>4. list[h] = Alone(h) /\ list[l] = Alone(l)
    BY <1>6, <2>2, Zenon
  <2>5. /\ list[Priority[h]] = [next |-> h, prev |-> h]
        /\ list[Priority[l]] = [next |-> l, prev |-> l]
        /\ list[IdlePrio] = [next |-> Idle, prev |-> Idle]
    BY <1>7, <2>2, Zenon
  <2> QED
    BY <2>3, <2>4, <2>5
<1>12. Firsts(h, l)
  BY <1>3, <1>11 DEF Firsts
<1>13. pc[h] = "run" /\ pc[l] = "run" /\ timer[h] = "off"
  BY <1>1, TwoNodes
<1>14. OneUnit(h, l) /\ OnlyOneWaits(h, l) /\ Turns(h, l) /\ Doubles(h, l)
  BY <1>1, <1>2, <1>3, <1>11, <1>13, TwoNodes
     DEF OneUnit, OnlyOneWaits, Turns, Doubles, Waits
<1> QED
  BY <1>10, <1>12, <1>14 DEF LockInv

\* Every step of two threads that call malloc and free keeps LockInv: the locked
\* sections of wait and post, the wake-ups and what a thread does after one.
LEMMA LockSteps ==
  ASSUME NEW h, NEW l, Two(h, l), LockInv(h, l), [LockNext]_<<lockVars, Careful>>
  PROVE  LockInv(h, l)'
<1>1. CASE UNCHANGED <<lockVars, Careful>>
  BY <1>1 DEF lockVars, vars, LockInv, LockTypes, Firsts, OneUnit, OnlyOneWaits, Turns,
              Doubles, UpNow, Waits, Alone, Looped
<1>2. CASE KernelStep /\ UNCHANGED <<semaphore, inside, Careful>>
  <2>1. ~OtherTick
    BY DEF OtherTick, LockInv, LockTypes
  <2> QED
    BY <1>2, <2>1, LockShift, LockSwitch, LockExpire DEF KernelStep
<1>3. ASSUME NEW t \in Threads, UNCHANGED Careful,
             \/ Enter(t) \/ EnterWaits(t) \/ EnterResumes(t) \/ Leave(t)
             \/ Sleep(t) \/ SleepReturns(t) \/ (PostReturns(t) /\ UNCHANGED inside)
      PROVE  LockInv(h, l)'
  BY <1>3, LockEnter, LockWaits, LockResumes, LockLeave, LockSleep, LockSleepReturns,
     LockPostReturns
<1>4. CASE LockNext
  <2>1. UNCHANGED Careful
    BY <1>4 DEF LockNext
  <2>2. CASE KernelStep /\ UNCHANGED <<semaphore, inside>>
    BY <1>2, <2>1, <2>2
  <2>3. CASE ~(KernelStep /\ UNCHANGED <<semaphore, inside>>)
    BY <1>3, <1>4, <2>1, <2>3, Zenon DEF LockNext, LockStep
  <2> QED
    BY <2>2, <2>3
<1> QED
  BY <1>1, <1>4

\* Two threads of two priorities never work on the heap together, whether or
\* not they sleep in between, and however often they allocate, although malloc and
\* free do not look at what the wait for the lock returned (malloc.c:1090, 1174) and
\* posts leave the lists of the kernel as they do; with three it fails.
THEOREM TwoThreadsExclude ==
  ASSUME NEW CONSTANT h, NEW CONSTANT l, Two(h, l), Amount = 1
  PROVE  LockSpec => []MutualExclusion
<1>1. LockInit => LockInv(h, l)
  BY LockStarts
<1>2. LockInv(h, l) /\ [LockNext]_<<lockVars, Careful>> => LockInv(h, l)'
  BY LockSteps
<1>3. LockInv(h, l) => MutualExclusion
  <2> SUFFICES ASSUME LockInv(h, l) PROVE MutualExclusion
    OBVIOUS
  <2>1. inside = {} \/ \E t : inside = {t}
    BY DEF LockInv, OneUnit
  <2> QED
    BY <2>1, FS_EmptySet, FS_Singleton DEF MutualExclusion
<1> QED
  BY <1>1, <1>2, <1>3, PTL DEF LockSpec
=============================================================================
