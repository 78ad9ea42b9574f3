--------------------------- MODULE ConsoleProofs ----------------------------
(***************************************************************************)
(* The line editor, for every size of the buffer and every set of letters. *)
(***************************************************************************)
EXTENDS Console, WellFoundedInduction, TLAPS

EInv == ConsoleTypeOK /\ SingleSpaced

\* The last byte of the buffer, which is kept for the NUL, is not its first.
LEMMA LastPositive == LastByte \in Nat /\ LastByte > 0 /\ LastByte = CMD_LINE_SIZE - 1
BY ConsoleAssumption DEF LastByte

\* Cutting the line into its name and its option leaves a buffer, and an end to
\* it, whatever the line is.
LEMMA ServiceBuffer ==
  ASSUME NEW buffer \in [0..LastByte -> Char \cup {NUL}], buffer[LastByte] = NUL, service(buffer)
  PROVE  /\ aCmdBuffer' \in [0..LastByte -> Char \cup {NUL}]
         /\ aCmdBuffer'[LastByte] = NUL
<1>1. PICK size : aCmdBuffer' = [buffer EXCEPT ![size] = NUL]
  BY Zenon DEF service
<1>2. LastByte \in 0..LastByte
  BY LastPositive
<1> QED
  BY <1>1, <1>2

\* A line that is complete leaves an empty one.
LEMMA CompleteEInv ==
  ASSUME NEW buffer \in [0..LastByte -> Char \cup {NUL}], buffer[LastByte] = NUL,
         NEW count, Complete(buffer, count)
  PROVE  EInv'
<1>0. LastByte \in 0..LastByte
  BY LastPositive
<1>1. /\ [buffer EXCEPT ![count] = NUL] \in [0..LastByte -> Char \cup {NUL}]
      /\ [buffer EXCEPT ![count] = NUL][LastByte] = NUL
  BY <1>0
<1>2. /\ aCmdBuffer' \in [0..LastByte -> Char \cup {NUL}]
      /\ aCmdBuffer'[LastByte] = NUL
  BY <1>1, ServiceBuffer DEF Complete
<1>3. CharCounter' = 0
  BY DEF Complete
<1>4. ConsoleTypeOK'
  BY <1>2, <1>3, LastPositive DEF ConsoleTypeOK
<1>5. SingleSpaced'
  BY <1>3 DEF SingleSpaced
<1> QED
  BY <1>4, <1>5 DEF EInv

\* Storing a key keeps the line inside the buffer and its spaces single, also when the
\* key fills the buffer and the line is handed to service().
LEMMA StoreEInv ==
  ASSUME EInv, NEW key, Store(key)
  PROVE  EInv'
<1> DEFINE buffer == [aCmdBuffer EXCEPT ![CharCounter] = key]
<1>1. key \in Char /\ ~Skipped(key) /\ key # NUL
  BY ConsoleAssumption DEF Store, Char, Space, NUL
<1>2. /\ CharCounter \in 0 .. LastByte - 1 /\ CharCounter \in 0..LastByte /\ CharCounter # LastByte
      /\ LastByte \in 0..LastByte
  BY LastPositive DEF EInv, ConsoleTypeOK
<1>3. buffer \in [0..LastByte -> Char \cup {NUL}] /\ buffer[LastByte] = NUL
  BY <1>1, <1>2 DEF EInv, ConsoleTypeOK
<1>4. CASE CharCounter + 1 < Limit
  <2>1. aCmdBuffer' = buffer /\ CharCounter' = CharCounter + 1
    BY <1>4 DEF Store, More
  <2>2. ConsoleTypeOK'
    BY <2>1, <1>2, <1>3, <1>4, LastPositive DEF ConsoleTypeOK, Limit
  <2>3. SingleSpaced'
    <3> SUFFICES ASSUME NEW i \in 0 .. CharCounter
                 PROVE  /\ buffer[i] # NUL
                        /\ buffer[i] = Space => i > 0 /\ buffer[i - 1] # Space
      BY <2>1, <1>2 DEF SingleSpaced
    <3>1. CASE i = CharCounter
      BY <3>1, <1>1, <1>2, LastPositive DEF EInv, ConsoleTypeOK, Skipped
    <3>2. CASE i # CharCounter
      <4>1. i \in 0 .. CharCounter - 1 /\ i \in 0..LastByte /\ (i > 0 => i - 1 \in 0..LastByte)
        BY <3>2, <1>2
      <4>2. buffer[i] = aCmdBuffer[i] /\ (i > 0 => buffer[i - 1] = aCmdBuffer[i - 1])
        BY <4>1, <1>2 DEF EInv, ConsoleTypeOK
      <4> QED
        BY <4>1, <4>2 DEF EInv, SingleSpaced
    <3> QED
      BY <3>1, <3>2
  <2> QED
    BY <2>2, <2>3 DEF EInv
<1>5. CASE ~(CharCounter + 1 < Limit)
  <2>1. Complete(buffer, CharCounter + 1)
    BY <1>5 DEF Store
  <2> HIDE DEF buffer
  <2> QED
    BY <2>1, <1>3, CompleteEInv
<1> QED
  BY <1>4, <1>5

\* Backspace only shortens the line.
LEMMA EraseEInv ==
  ASSUME EInv, Erase
  PROVE  EInv'
<1>1. aCmdBuffer' = aCmdBuffer /\ CharCounter' = CharCounter - 1 /\ CharCounter > 0
  BY DEF Erase, More
<1>2. ConsoleTypeOK'
  BY <1>1, LastPositive DEF EInv, ConsoleTypeOK
<1>3. SingleSpaced'
  BY <1>1, LastPositive DEF EInv, ConsoleTypeOK, SingleSpaced
<1> QED
  BY <1>2, <1>3 DEF EInv

\* A step that changes nothing keeps both.
LEMMA SameEInv ==
  ASSUME EInv, UNCHANGED consoleVars
  PROVE  EInv'
BY DEF EInv, ConsoleTypeOK, SingleSpaced, consoleVars

\* Every key keeps both, whatever earlier lines left in the buffer.
LEMMA NextEInv ==
  ASSUME EInv, [ConsoleNext]_consoleVars
  PROVE  EInv'
<1>1. CASE Return
  <2>1. CASE Complete(aCmdBuffer, CharCounter)
    BY <2>1, CompleteEInv DEF EInv, ConsoleTypeOK
  <2> QED
    BY <1>1, <2>1, SameEInv DEF Return
<1>2. ASSUME NEW key, Skip(key)
      PROVE  EInv'
  BY <1>2, SameEInv DEF Skip
<1> QED
  BY <1>1, <1>2, StoreEInv, EraseEInv, SameEInv DEF ConsoleNext

\* For every size of the buffer: whatever is typed, erased and entered, there is
\* room for one more character and the NUL behind it, and the buffer is a string
\* even over the remains of earlier lines (console.c:183-247).
THEOREM ConsoleFits == ConsoleSpec => []ConsoleTypeOK
<1>1. ConsoleInit => EInv
  BY LastPositive DEF ConsoleInit, EInv, ConsoleTypeOK, SingleSpaced, Char
<1>2. EInv /\ [ConsoleNext]_consoleVars => EInv'
  BY NextEInv
<1>3. EInv => ConsoleTypeOK
  BY DEF EInv
<1> QED
  BY <1>1, <1>2, <1>3, PTL DEF ConsoleSpec

\* For every size of the buffer: no line starts with a space or has two in a row,
\* also after a space or the letter between two of them was erased
\* (console.c:195-229).
THEOREM ConsoleSpaced == ConsoleSpec => []SingleSpaced
<1>1. ConsoleInit => EInv
  BY LastPositive DEF ConsoleInit, EInv, ConsoleTypeOK, SingleSpaced, Char
<1>2. EInv /\ [ConsoleNext]_consoleVars => EInv'
  BY NextEInv
<1>3. EInv => SingleSpaced
  BY DEF EInv
<1> QED
  BY <1>1, <1>2, <1>3, PTL DEF ConsoleSpec
-----------------------------------------------------------------------------
\* A set of numbers that is not empty has a least one.
LEMMA Least ==
  ASSUME NEW S \in SUBSET Nat, S # {}
  PROVE  \E p \in S : \A r \in S : p <= r
<1>1. IsWellFoundedOn(OpToRel(<, Nat), Nat)
  BY NatLessThanWellFounded
<1>2. PICK x \in S : \A y \in S : ~(<<y, x>> \in OpToRel(<, Nat))
  BY <1>1, WFMin
<1>3. \A y \in S : ~(y < x)
  BY <1>2 DEF OpToRel
<1> QED
  BY <1>3

\* z is the first NUL of the buffer from i on.
EndsAt(buffer, i, z) ==
  /\ z \in i..LastByte
  /\ buffer[z] = NUL
  /\ \A j \in i .. z - 1 : buffer[j] # NUL

\* In a buffer that ends with NUL every string ends inside.
LEMMA StringEnds ==
  ASSUME NEW buffer, buffer[LastByte] = NUL, NEW i \in 0..LastByte
  PROVE  \E z \in i..LastByte : EndsAt(buffer, i, z)
<1> DEFINE S == {j \in i..LastByte : buffer[j] = NUL}
<1>1. S \in SUBSET Nat /\ LastByte \in S
  BY LastPositive
<1>2. PICK z \in S : \A r \in S : z <= r
  BY <1>1, Least
<1>3. \A j \in i .. z - 1 : j \in i..LastByte /\ ~(z <= j)
  BY <1>2, LastPositive
<1> QED
  BY <1>2, <1>3 DEF EndsAt

\* A string is what lies in front of its NUL.
LEMMA StringIs ==
  ASSUME NEW buffer, NEW i \in 0..LastByte, NEW z, EndsAt(buffer, i, z)
  PROVE  String(buffer, i) = [k \in 1 .. z - i |-> buffer[(i + k) - 1]]
<1> DEFINE S == {j \in i..LastByte : buffer[j] = NUL}
           first == CHOOSE j \in S : \A k \in S : j <= k
<1>1. z \in S /\ S \subseteq Nat /\ z \in Nat
  BY LastPositive DEF EndsAt
<1>2. \A k \in S : z <= k
  <2> SUFFICES ASSUME NEW k \in S, k < z PROVE FALSE
    BY <1>1
  <2>1. k \in i .. z - 1
    BY <1>1, LastPositive
  <2> QED
    BY <2>1 DEF EndsAt
<1>3. first \in S /\ \A k \in S : first <= k
  BY <1>1, <1>2
<1>4. first = z
  BY <1>1, <1>2, <1>3
<1>5. S # {}
  BY <1>1
<1>6. String(buffer, i) = [k \in 1 .. first - i |-> buffer[(i + k) - 1]]
  BY <1>5 DEF String
<1> QED
  BY <1>4, <1>6

\* The call of a line with a space: the name in front of the first one, the option
\* behind it.
LEMMA ServiceCuts ==
  ASSUME NEW buffer \in [0..LastByte -> Char \cup {NUL}], buffer[LastByte] = NUL, service(buffer)
  PROVE  CutRight'
<1> DEFINE line == String(buffer, 0)
           size == CmdSize(line)
           name == SubSeq(line, 1, size)
           cut  == [buffer EXCEPT ![size] = NUL]
           option == String(cut, OptionAt(size))
           stops == {i \in DOMAIN line : line[i] = Space}
<1>1. called' = IF name \in Commands THEN [line |-> line, name |-> name, option |-> option]
                ELSE Nothing
  BY DEF service
<1>2. CASE called' = Nothing
  BY <1>2 DEF CutRight, Nothing, Range
<1>3. CASE called' = [line |-> line, name |-> name, option |-> option]
  <2> SUFFICES ASSUME Space \in Range(line)
               PROVE  line = name \o <<Space>> \o option /\ Space \notin Range(name)
    BY <1>3 DEF CutRight
  <2>1. PICK z : EndsAt(buffer, 0, z)
    BY StringEnds, LastPositive
  <2>2. z \in 0..LastByte /\ z \in Nat /\ LastByte \in Nat
    BY <2>1, LastPositive DEF EndsAt
  <2>3. line = [k \in 1..z |-> buffer[k - 1]]
    <3>1. line = [k \in 1 .. z - 0 |-> buffer[(0 + k) - 1]]
      BY <2>1, StringIs, LastPositive
    <3> QED
      BY <3>1, <2>2
  <2>4. stops \in SUBSET Nat /\ stops # {} /\ stops \subseteq 1..z
    BY <2>3, <2>2 DEF Range
  <2>5. PICK s \in stops : \A r \in stops : s <= r
    BY <2>4, Least
  <2>6. s \in 1..z /\ line[s] = Space /\ s \in Nat
    BY <2>4, <2>5
  <2>7. (CHOOSE i \in stops : \A j \in stops : i <= j) = s
    <3> DEFINE c == CHOOSE i \in stops : \A j \in stops : i <= j
    <3>1. c \in stops /\ \A j \in stops : c <= j
      BY <2>5
    <3> QED
      BY <3>1, <2>4, <2>5
  <2>8. size = s - 1
    BY <2>4, <2>7 DEF CmdSize
  <2> HIDE DEF size, line
  <2>9. \A i \in 1 .. s - 1 : i \in 1..z /\ line[i] # Space
    <3> SUFFICES ASSUME NEW i \in 1 .. s - 1 PROVE i \in 1..z /\ line[i] # Space
      OBVIOUS
    <3>1. i \in 1..z /\ ~(s <= i)
      BY <2>6, <2>2
    <3>2. DOMAIN line = 1..z
      BY <2>3
    <3> QED
      BY <3>1, <3>2, <2>5
  <2>10. buffer[s - 1] = Space /\ Space # NUL /\ buffer[z] = NUL
    BY <2>1, <2>3, <2>6 DEF EndsAt, Space, NUL
  <2>11. s \in 0..LastByte /\ s - 1 \in 0..LastByte /\ OptionAt(size) = s
    BY <2>2, <2>6, <2>8 DEF OptionAt
  <2>12. EndsAt(cut, s, z)
    <3>1. \A j \in s..LastByte : cut[j] = buffer[j]
      BY <2>8, <2>11, <2>2
    <3> QED
      BY <3>1, <2>1, <2>6, <2>2 DEF EndsAt
  <2>13. option = [k \in 1 .. z - s |-> cut[(s + k) - 1]]
    <3> HIDE DEF cut
    <3>1. String(cut, s) = [k \in 1 .. z - s |-> cut[(s + k) - 1]]
      BY <2>11, <2>12, StringIs
    <3> QED
      BY <3>1, <2>11
  <2>14. \A k \in 1 .. z - s : cut[(s + k) - 1] = buffer[(s + k) - 1]
    <3> SUFFICES ASSUME NEW k \in 1 .. z - s PROVE cut[(s + k) - 1] = buffer[(s + k) - 1]
      OBVIOUS
    <3>1. (s + k) - 1 \in 0..LastByte /\ (s + k) - 1 # size
      BY <2>2, <2>6, <2>8
    <3> QED
      BY <3>1
  <2>15. option = [k \in 1 .. z - s |-> buffer[(s + k) - 1]]
    BY <2>13, <2>14
  <2> HIDE DEF option, cut
  <2>16. name = [k \in 1 .. s - 1 |-> buffer[k - 1]]
    <3>1. \A k \in 1 .. s - 1 : k \in 1..z
      BY <2>6, <2>2
    <3>2. line \in Seq(Char \cup {NUL}) /\ Len(line) = z
      <4>1. \A k \in 1..z : buffer[k - 1] \in Char \cup {NUL}
        BY <2>2
      <4> DEFINE A == Char \cup {NUL}
      <4> HIDE DEF A
      <4>2. [k \in 1..z |-> buffer[k - 1]] \in Seq(A)
        BY <4>1, <2>2 DEF A
      <4> QED
        BY <2>2, <2>3, <4>2 DEF A
    <3>3. name = [k \in 1 .. s - 1 |-> line[k]]
      BY <3>2, <2>6, <2>8, <2>2
    <3> QED
      BY <3>1, <3>3, <2>3
  <2> HIDE DEF name
  <2>17. Space \notin Range(name)
    BY <2>16, <2>9, <2>3, <2>6 DEF Range
  <2>18. /\ Len(name) = s - 1 /\ Len(option) = z - s /\ name \in Seq(Char \cup {NUL})
         /\ option \in Seq(Char \cup {NUL})
    <3>1. \A k \in 1 .. s - 1 : buffer[k - 1] \in Char \cup {NUL}
      BY <2>2, <2>6
    <3>2. \A k \in 1 .. z - s : buffer[(s + k) - 1] \in Char \cup {NUL}
      BY <2>2, <2>6
    <3>3. s - 1 \in Nat /\ z - s \in Nat
      BY <2>2, <2>6
    <3> DEFINE A == Char \cup {NUL}
    <3>4. name \in Seq(A)
      <4> HIDE DEF A
      <4> QED BY <2>16, <3>1, <3>3 DEF A
    <3>5. option \in Seq(A)
      <4> HIDE DEF A
      <4> QED BY <2>15, <3>2, <3>3 DEF A
    <3> QED
      BY <2>15, <2>16, <3>3, <3>4, <3>5
  <2>19. name \o <<Space>> \o option = [k \in 1..z |-> buffer[k - 1]]
    <3> DEFINE front == name \o <<Space>>
               all   == front \o option
    <3>1. /\ front \in Seq(Char \cup {NUL}) /\ Len(front) = s
          /\ \A k \in 1..s : front[k] = buffer[k - 1]
      BY <2>18, <2>16, <2>10, <2>6 DEF Char
    <3> HIDE DEF front
    <3>2. /\ all \in Seq(Char \cup {NUL}) /\ Len(all) = z
      BY <3>1, <2>18, <2>6, <2>2
    <3>3. \A k \in 1..z : all[k] = IF k <= s THEN front[k] ELSE option[k - s]
      BY <3>1, <2>18, <2>6, <2>2
    <3>4. \A k \in 1..z : all[k] = buffer[k - 1]
      BY <3>3, <3>1, <2>15, <2>6, <2>2
    <3> HIDE DEF all
    <3>5. all = [k \in 1..z |-> buffer[k - 1]]
      BY <3>2, <3>4
    <3> QED
      BY <3>5 DEF all, front
  <2> QED
    BY <2>3, <2>17, <2>19 DEF line
<1> QED
  BY <1>1, <1>2, <1>3

\* For every size of the buffer and every set of commands: a line with a space is
\* cut at the first one, and the command gets all that follows it and nothing of
\* an earlier line (console.c:106-141).
THEOREM ConsoleCuts == ConsoleSpec => []CutRight
<1>1. ConsoleInit => CutRight
  BY DEF ConsoleInit, CutRight, Nothing, Range
<1>2. ASSUME EInv, CutRight, [ConsoleNext]_consoleVars
      PROVE  CutRight'
  <2>1. ASSUME NEW buffer \in [0..LastByte -> Char \cup {NUL}], buffer[LastByte] = NUL,
               NEW count, Complete(buffer, count)
        PROVE  CutRight'
    <3>1. /\ [buffer EXCEPT ![count] = NUL] \in [0..LastByte -> Char \cup {NUL}]
          /\ [buffer EXCEPT ![count] = NUL][LastByte] = NUL
      <4>1. LastByte \in 0..LastByte
        BY LastPositive
      <4> QED
        BY <2>1, <4>1
    <3> QED
      BY <3>1, <2>1, ServiceCuts DEF Complete
  <2>2. called' = called => CutRight'
    BY <1>2 DEF CutRight
  <2>3. ASSUME NEW key, Store(key)
        PROVE  CutRight'
    <3> DEFINE buffer == [aCmdBuffer EXCEPT ![CharCounter] = key]
    <3>1. buffer \in [0..LastByte -> Char \cup {NUL}] /\ buffer[LastByte] = NUL
      BY <2>3, <1>2, LastPositive DEF EInv, ConsoleTypeOK, Store
    <3>2. CASE More(buffer, CharCounter + 1)
      BY <3>2, <2>2 DEF More
    <3>3. CASE Complete(buffer, CharCounter + 1)
      <4> HIDE DEF buffer
      <4> QED
        BY <3>1, <3>3, <2>1
    <3> QED
      BY <2>3, <3>2, <3>3 DEF Store
  <2>4. CASE Erase
    BY <2>4, <2>2 DEF Erase, More
  <2>5. CASE Return
    <3>1. CASE Complete(aCmdBuffer, CharCounter)
      BY <3>1, <2>1, <1>2 DEF EInv, ConsoleTypeOK
    <3> QED
      BY <2>5, <3>1, <2>2 DEF Return, consoleVars
  <2>6. ASSUME NEW key, Skip(key)
        PROVE  CutRight'
    BY <2>6, <2>2 DEF Skip, consoleVars
  <2>7. CASE UNCHANGED consoleVars
    BY <2>7, <2>2 DEF consoleVars
  <2> QED
    BY <1>2, <2>3, <2>4, <2>5, <2>6, <2>7 DEF ConsoleNext
<1>3. ConsoleInit => EInv
  BY LastPositive DEF ConsoleInit, EInv, ConsoleTypeOK, SingleSpaced, Char
<1>4. EInv /\ [ConsoleNext]_consoleVars => EInv'
  BY NextEInv
<1> QED
  BY <1>1, <1>2, <1>3, <1>4, PTL DEF ConsoleSpec
=============================================================================
