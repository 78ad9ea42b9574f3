------------------------------ MODULE ListRings ------------------------------
(***************************************************************************)
(* list.h driven through every sequence of its calls that respects the     *)
(* usage its comments ask for, next to what the calls promise: each head   *)
(* carries a sequence of entries.  L is the heap of struct list_head, q is *)
(* the promise.                                                            *)
(***************************************************************************)
EXTENDS List, Naturals, Sequences, SequencesExt

CONSTANTS Heads,    \* struct list_head variables used as list heads
          Entries   \* struct list_head members of other structures

ASSUME RingsAssumption == Heads \cap Entries = {} /\ Heads # {}

VARIABLES L, q

vars == <<L, q>>

Node   == Heads \cup Entries
OnList == UNION {ToSet(q[h]) : h \in Heads}
Free   == Entries \ OnList
HeadOf(e) == CHOOSE h \in Heads : e \in ToSet(q[h])

\* Heads are LIST_HEAD()s; an entry that was never used is LIST_HEAD_INITed too.
Init == /\ L = [n \in Node |-> [next |-> n, prev |-> n]]
        /\ q = [h \in Heads |-> <<>>]

Place(s, e)   == CHOOSE i \in 1..Len(s) : s[i] = e
Without(s, e) == RemoveAt(s, Place(s, e))

Add(e, h) ==
  /\ e \in Free
  /\ L' = list_add(L, e, h)
  /\ q' = [q EXCEPT ![h] = <<e>> \o @]

AddTail(e, h) ==
  /\ e \in Free
  /\ L' = list_add_tail(L, e, h)
  /\ q' = [q EXCEPT ![h] = Append(@, e)]

Del(e) ==
  /\ e \in OnList
  /\ L' \in {list_del(L, e), list_del_init(L, e)}
  /\ q' = [q EXCEPT ![HeadOf(e)] = Without(@, e)]

Move(e, h) ==
  /\ e \in OnList
  /\ L' = list_move(L, e, h)
  /\ q' = [[q EXCEPT ![HeadOf(e)] = Without(@, e)] EXCEPT ![h] = <<e>> \o @]

MoveTail(e, h) ==
  /\ e \in OnList
  /\ L' = list_move_tail(L, e, h)
  /\ q' = [[q EXCEPT ![HeadOf(e)] = Without(@, e)] EXCEPT ![h] = Append(@, e)]

Replace(old, new) ==
  /\ old \in OnList /\ new \in Free
  /\ L' \in {list_replace(L, old, new), list_replace_init(L, old, new)}
  /\ q' = [q EXCEPT ![HeadOf(old)] = ReplaceAll(@, old, new)]

Rotate(h) ==
  /\ L' = list_rotate_left(L, h)
  /\ q' = [q EXCEPT ![h] = IF @ = <<>> THEN <<>> ELSE Append(Tail(@), Head(@))]

\* "@list should be an empty list", "@entry an element you know is on @head"
\* or the head itself.
Cut(list, h, e) ==
  /\ list # h /\ q[list] = <<>> /\ e \in ToSet(q[h]) \cup {h}
  /\ L' = list_cut_position(L, list, h, e)
  /\ LET k == IF e = h THEN 0 ELSE Place(q[h], e)
     IN  q' = [q EXCEPT ![list] = SubSeq(q[h], 1, k),
                        ![h]    = SubSeq(q[h], k + 1, Len(q[h]))]

Splice(list, h) ==
  /\ list # h
  /\ L' = list_splice_init(L, list, h)
  /\ q' = [q EXCEPT ![list] = <<>>, ![h] = q[list] \o @]

SpliceTail(list, h) ==
  /\ list # h
  /\ L' = list_splice_tail_init(L, list, h)
  /\ q' = [q EXCEPT ![list] = <<>>, ![h] = @ \o q[list]]

Next ==
  \/ \E e \in Entries : Del(e)
  \/ \E e \in Entries, h \in Heads :
       Add(e, h) \/ AddTail(e, h) \/ Move(e, h) \/ MoveTail(e, h)
  \/ \E old, new \in Entries : Replace(old, new)
  \/ \E h \in Heads : Rotate(h)
  \/ \E list, h \in Heads :
       \/ Splice(list, h)
       \/ SpliceTail(list, h)
       \/ \E e \in Node : Cut(list, h, e)

Spec == Init /\ [][Next]_vars

-----------------------------------------------------------------------------
\* Pointers are pointers to nodes, and no entry is on two lists.
TypeOK == /\ L \in Links(Node)
          /\ \A h \in Heads : q[h] \in Seq(Entries) /\ IsInjective(q[h])
          /\ \A g, h \in Heads : g # h => ToSet(q[g]) \cap ToSet(q[h]) = {}

\* Walking from a head along next, or along prev, meets exactly the entries the
\* calls put there, in the promised order, and comes back to the head: no list.h
\* function drops, duplicates or reorders an entry of any list, whatever stale
\* pointers the entries off the lists still hold (list.h:131-594).
Represents ==
  /\ TypeOK
  /\ \A h \in Heads :
       LET ring == <<h>> \o q[h]
           n    == Len(ring)
       IN  \A i \in 1..n : /\ L[ring[i]].next = ring[(i % n) + 1]
                           /\ L[ring[(i % n) + 1]].prev = ring[i]

\* The pointer-only description of a list that the kernel proofs use holds of
\* every list these calls build, and list_empty answers for the sequence
\* (list.h:403-406).
EveryRingIsAList ==
  \A h \in Heads : /\ IsList(L, h, ToSet(q[h]))
                   /\ list_empty(L, h) <=> q[h] = <<>>

=============================================================================
