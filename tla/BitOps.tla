------------------------------- MODULE BitOps -------------------------------
(***************************************************************************)
(* The bit arithmetic the scheduler and the allocator stand on             *)
(* (library/bit/bit.c, library/malloc/malloc.c), on 32-bit words.  A word  *)
(* is the set of its one bits, so that sums and differences wrap around as *)
(* the machine's do; the properties say which bits the results are.        *)
(***************************************************************************)
EXTENDS Naturals, FiniteSets

CONSTANT Near      \* bound: the words with at most Near ones, or Near zeros

ASSUME BitOpsAssumption == Near \in 0..32

VARIABLE word      \* the argument

Bits == 0..31

-----------------------------------------------------------------------------
\* The machine's operations.
Shl(a, n)  == {b + n : b \in a} \cap Bits
Shr(a, n)  == {b - n : b \in {c \in a : c >= n}}
Xor(a, b)  == (a \ b) \cup (b \ a)

\* Two ones carry, and the carry goes on as long as there is a one.
Plus(a, b) ==
  LET carried == {i \in Bits : \E j \in a \cap b : j < i /\ \A k \in j + 1 .. i - 1 : k \in a \cup b}
  IN  Xor(Xor(a, b), carried)

Neg(a)      == Plus(Bits \ a, {0})
Minus(a, b) == Plus(a, Neg(b))

\* The number that a word with no more than its six lowest bits stands for.
Value(a) == CHOOSE n \in 0..63 : a = {b \in 0..5 : (n \div 2^b) % 2 = 1}

-----------------------------------------------------------------------------
Thirds == {3 * i : i \in 0..10}                                 \* 0x49249249
Pairs  == {b \in Bits : b % 6 \in {0, 1, 2}}                    \* 0xc71c71c7

\* Three bits to a digit, six bits to a digit, and the sum of the digits.
bit_count_Short(R0) ==
  LET a == Minus(R0, Shr(R0 \cap Shl(Thirds, 1), 1))
      b == Plus(a, a \cap Shr(Thirds, 1))
      c == Plus(b, Shr(b, 3)) \cap Pairs
      d == Plus(c, Shr(c, 6))
      e == Plus(d, Shr(d, 12))
  IN  Value(e \cap 0..5)

bit_count(R0) ==
  LET a == Minus(R0, Shr(R0 \cap Shl(Thirds, 1), 1))
      b == Plus(a, a \cap Shr(Thirds, 1))
      c == Plus(b, Shr(b, 3)) \cap Pairs
      d == Plus(c, Shr(c, 6))
      e == Plus(d, Shr(d, 12))
      f == Plus(e, Shr(e, 24))
  IN  Value(f \cap 0..5)

bit_algorithm_1(R0) == Xor(R0, Minus(R0, {0}))
bit_algorithm_2(R0) == Minus(R0 \cap Neg(R0), {0})

bit_scan_forward(R0) == bit_count(bit_algorithm_2(R0))

\* The halves of every group of 2n bits change places.
Swapped(R0, n) == Shr(R0 \cap {b \in Bits : (b \div n) % 2 = 1}, n)
                    \cup Shl(R0 \cap {b \in Bits : (b \div n) % 2 = 0}, n)

bit32_order_reverse(R0) ==
  Swapped(Swapped(Swapped(Swapped(Swapped(R0, 16), 8), 4), 2), 1)

bit8_order_reverse(R0) == Swapped(Swapped(Swapped(R0, 4), 2), 1) \cap 0..7

-----------------------------------------------------------------------------
\* malloc.c: the tree a free block of Size bytes belongs to.
tree_size_to_index_Whole(Size) ==
  LET y == Shr(Size, 8)
  IN  CASE y = {} -> 0
        [] y \cap 16..31 # {} -> 31
        [] OTHER -> 2 * (CHOOSE k \in y : \A b \in y : b <= k)

tree_size_to_index(Size) ==
  LET X == Shr(Size, 8)
      n == Value(Shr(Minus(X, {8}), 16) \cap {3})
      y == Shl(X, n)
      k == Value(Shr(Minus(y, {12}), 16) \cap {2})
      z == Shl(y, k)
      m == Value(Shr(Minus(z, {14}), 16) \cap {1})
      w == Shl(z, m)
      K == (14 - (n + k + m)) + Value(Shr(w, 15))
  IN  CASE X = {} -> 0
        [] X \cap 16..31 # {} -> 31
        [] OTHER -> 2 * K + IF K + 7 \in Size THEN 1 ELSE 0

\* How far a size is shifted to have the bit that chooses the first branch on top.
leftshift_for_tree_index(Index) == IF Index = 31 THEN 0 ELSE 25 - (Index \div 2)

-----------------------------------------------------------------------------
\* Every word that differs in a few bits from 0 or from ~0, one flip after another.
IsNear(w) == Cardinality(w) <= Near \/ Cardinality(w) >= 32 - Near

BitInit == word \in {{}, Bits}
Flip(b) == word' = Xor(word, {b}) /\ IsNear(word')
BitNext == \E b \in Bits : Flip(b)
BitSpec == BitInit /\ [][BitNext]_word

-----------------------------------------------------------------------------
Lowest(w)  == CHOOSE b \in w : \A c \in w : b <= c
Highest(w) == CHOOSE b \in w : \A c \in w : b >= c

\* What the scheduler takes for granted of its bitmap: the scan returns the
\* lowest one bit, and 32, the level of idle, when there is none; the count of
\* ones in between never overflows a digit (bit.c:189-239, kernel.c:405); the two
\* masks bit.c describes have the ones up to the lowest, with it and without; a
\* reversal turns a word, or its low byte, end for end (bit.c:305-345).
BitsRight ==
  /\ bit_scan_forward(word) = (IF word = {} THEN 32 ELSE Lowest(word))
  /\ bit_count(word) = Cardinality(word)
  /\ bit_algorithm_1(word) = (IF word = {} THEN Bits ELSE 0 .. Lowest(word))
  /\ bit_algorithm_2(word) = bit_algorithm_1(word) \ (IF word = {} THEN {} ELSE {Lowest(word)})
  /\ bit32_order_reverse(word) = {31 - b : b \in word}
  /\ bit8_order_reverse(word \cap 0..7) = {7 - b : b \in word \cap 0..7}

\* The branch-free index of a tree is twice the power of two a size lies in,
\* counted from 256, and the next bit; the branches below it are chosen by the
\* bits that follow, none left out and none used twice (malloc.c:326-382).
TreeIndexRight ==
  LET top == Highest(word)
      i   == tree_size_to_index(word)
  IN  /\ (\A b \in word : b < 8) => i = 0
      /\ (\E b \in word : b >= 24) => i = 31
      /\ word # {} /\ top \in 8..23 =>
           /\ i = 2 * (top - 8) + (IF top - 1 \in word THEN 1 ELSE 0)
           /\ i # 31 => 31 - leftshift_for_tree_index(i) = top - 2
=============================================================================
