----------------------------- MODULE ListProofs -----------------------------
(***************************************************************************)
(* What list_add and list_del of list.h do to a list, to the other lists   *)
(* of the same heap, and store by store.                                   *)
(***************************************************************************)
EXTENDS List, WellFoundedInduction, TLAPS

\* The heap list_add leaves, node by node: three nodes change.
LEMMA AddShape ==
  ASSUME NEW Node, NEW L \in Links(Node), NEW new \in Node, NEW h \in Node,
         new # h
  PROVE  LET K == list_add(L, new, h) IN
         /\ K \in Links(Node)
         /\ K[new].next = L[h].next
         /\ K[new].prev = h
         /\ K[h].next = new
         /\ K[h].prev = IF L[h].next = h THEN new ELSE L[h].prev
         /\ \A n \in Node \ {new, h} :
              /\ K[n].next = L[n].next
              /\ K[n].prev = IF n = L[h].next THEN new ELSE L[n].prev
  BY DEF list_add, __list_add, Links

\* The heap list_del leaves, node by node: only the neighbours change.
LEMMA DelShape ==
  ASSUME NEW Node, NEW L \in Links(Node), NEW e \in Node
  PROVE  LET K == list_del(L, e) IN
         /\ K \in Links(Node)
         /\ \A n \in Node :
              /\ K[n].next = IF n = L[e].prev THEN L[e].next ELSE L[n].next
              /\ K[n].prev = IF n = L[e].next THEN L[e].prev ELSE L[n].prev
  BY DEF list_del, __list_del, Links

\* list_add moves pointers to nodes only.
LEMMA AddType ==
  ASSUME NEW Node, NEW L \in Links(Node), NEW new \in Node, NEW h \in Node
  PROVE  list_add(L, new, h) \in Links(Node)
  BY DEF list_add, __list_add, Links

\* list_del moves pointers to nodes only.
LEMMA DelType ==
  ASSUME NEW Node, NEW L \in Links(Node), NEW e \in Node
  PROVE  list_del(L, e) \in Links(Node)
  BY DEF list_del, __list_del, Links

\* So does a single store into a node.
LEMMA NextType ==
  ASSUME NEW Node, NEW L \in Links(Node), NEW n \in Node, NEW v \in Node
  PROVE  [L EXCEPT ![n].next = v] \in Links(Node)
  BY DEF Links

\* So does a store into the other pointer.
LEMMA PrevType ==
  ASSUME NEW Node, NEW L \in Links(Node), NEW n \in Node, NEW v \in Node
  PROVE  [L EXCEPT ![n].prev = v] \in Links(Node)
  BY DEF Links

\* So does a store into both.
LEMMA NodeType ==
  ASSUME NEW Node, NEW L \in Links(Node), NEW n \in Node,
         NEW v \in Node, NEW w \in Node
  PROVE  [L EXCEPT ![n] = [next |-> v, prev |-> w]] \in Links(Node)
  BY DEF Links

\* list_add puts the new entry on the list, and the list remains one.
LEMMA AddKeepsList ==
  ASSUME NEW Node, NEW L \in Links(Node), NEW new \in Node, NEW h \in Node,
         NEW M \in SUBSET Node, new # h, new \notin M, IsList(L, h, M)
  PROVE  IsList(list_add(L, new, h), h, M \cup {new})
<1> DEFINE K == list_add(L, new, h)
           first == L[h].next
<1>1. /\ K \in Links(Node)
      /\ K[new].next = first
      /\ K[new].prev = h
      /\ K[h].next = new
      /\ K[h].prev = IF first = h THEN new ELSE L[h].prev
      /\ \A n \in Node \ {new, h} :
           /\ K[n].next = L[n].next
           /\ K[n].prev = IF n = first THEN new ELSE L[n].prev
  BY AddShape
<1>2. h \notin M /\ Linked(L, h, M) /\ Reachable(L, M)
  BY DEF IsList
<1> HIDE DEF K
<1>3. h \notin M \cup {new}
  BY <1>2
<1>4. Linked(K, h, M \cup {new})
  BY <1>1, <1>2 DEF Linked
<1>5. Reachable(K, M \cup {new})
  <2> SUFFICES ASSUME NEW S \in SUBSET (M \cup {new}), S # {},
                      \A n \in S : K[n].next \in S
               PROVE  FALSE
    BY DEF Reachable
  <2>1. \A n \in M : K[n].next = L[n].next /\ L[n].next # new
    BY <1>1, <1>2 DEF Linked
  <2>2. first # new /\ h \notin S
    BY <1>2 DEF Linked
  <2>3. S \ {new} \in SUBSET M
    OBVIOUS
  <2>4. \A n \in S \ {new} : L[n].next \in S \ {new}
    BY <2>1
  <2>5. S \ {new} = {}
    BY <2>3, <2>4, <1>2 DEF Reachable
  <2> QED
    BY <2>2, <2>5, <1>1
<1> QED
  BY <1>3, <1>4, <1>5 DEF IsList, K

\* list_del takes the entry off the list, and the list remains one.
LEMMA DelKeepsList ==
  ASSUME NEW Node, NEW L \in Links(Node), NEW e \in Node, NEW h \in Node,
         NEW M \in SUBSET Node, e \in M, IsList(L, h, M)
  PROVE  IsList(list_del(L, e), h, M \ {e})
<1> DEFINE K == list_del(L, e)
<1>1. /\ K \in Links(Node)
      /\ \A n \in Node :
           /\ K[n].next = IF n = L[e].prev THEN L[e].next ELSE L[n].next
           /\ K[n].prev = IF n = L[e].next THEN L[e].prev ELSE L[n].prev
  BY DelShape
<1>2. h \notin M /\ Linked(L, h, M) /\ Reachable(L, M)
  BY DEF IsList
<1>3. L[e].next # e /\ L[e].prev # e
  <2>1. PICK n \in {e} : L[n].next \notin {e}
    BY <1>2, {e} \in SUBSET M, {e} # {} DEF Reachable
  <2>2. L[L[e].prev].next = e
    BY <1>2 DEF Linked
  <2> QED
    BY <2>1, <2>2
<1> HIDE DEF K
<1>4. Linked(K, h, M \ {e})
  BY <1>1, <1>2, <1>3, SMTT(30) DEF Linked
<1>5. Reachable(K, M \ {e})
  <2> SUFFICES ASSUME NEW S \in SUBSET (M \ {e}), S # {},
                      \A n \in S : K[n].next \in S
               PROVE  FALSE
    BY DEF Reachable
  <2>1. PICK t \in S : L[t].next \notin S
    BY <1>2 DEF Reachable
  <2>2. t = L[e].prev /\ L[e].next \in S
    BY <2>1, <1>1
  <2>3. \A n \in S \cup {e} : L[n].next \in S \cup {e}
    BY <2>2, <1>1, <1>2 DEF Linked
  <2> QED
    BY <2>3, <1>2, S \cup {e} \in SUBSET M DEF Reachable
<1> QED
  BY <1>2, <1>4, <1>5 DEF IsList, K

\* A heap that agrees on the ring of h holds the same list.
LEMMA SameRing ==
  ASSUME NEW L, NEW K, NEW h, NEW M,
         \A n \in M \cup {h} : K[n] = L[n],
         IsList(L, h, M)
  PROVE  IsList(K, h, M)
  BY DEF IsList, Linked, Reachable

\* list_empty tells the truth, and the head of a list leads to a member.
LEMMA EmptyList ==
  ASSUME NEW L, NEW h, NEW M, IsList(L, h, M)
  PROVE  /\ list_empty(L, h) <=> M = {}
         /\ M # {} => L[h].next \in M
<1>1. h \notin M /\ Linked(L, h, M) /\ Reachable(L, M)
  BY DEF IsList
<1>2. L[h].next \in M \cup {h}
  BY <1>1 DEF Linked
<1>3. ASSUME L[h].next = h, M # {}
      PROVE  FALSE
  <2>1. \A n \in M : L[n].next # h
    BY <1>1, <1>3 DEF Linked
  <2>2. \A n \in M : L[n].next \in M
    BY <1>1, <2>1 DEF Linked
  <2> QED
    BY <1>1, <1>3, <2>2, M \in SUBSET M DEF Reachable
<1> QED
  BY <1>1, <1>2, <1>3 DEF list_empty

\* list_del writes only to the ring it works on.
LEMMA DelFrame ==
  ASSUME NEW Node, NEW L \in Links(Node), NEW h \in Node, NEW M \in SUBSET Node,
         NEW e \in M, IsList(L, h, M)
  PROVE  \A n \in Node \ (M \cup {h}) : list_del(L, e)[n] = L[n]
<1>1. L[e].next \in M \cup {h} /\ L[e].prev \in M \cup {h}
  BY DEF IsList, Linked
<1> QED
  BY <1>1 DEF list_del, __list_del, Links

\* list_add writes only to the ring it works on and to the new entry.
LEMMA AddFrame ==
  ASSUME NEW Node, NEW L \in Links(Node), NEW h \in Node, NEW M \in SUBSET Node,
         NEW new \in Node, IsList(L, h, M)
  PROVE  \A n \in Node \ (M \cup {h, new}) : list_add(L, new, h)[n] = L[n]
<1>1. L[h].next \in M \cup {h}
  BY DEF IsList, Linked
<1> QED
  BY <1>1 DEF list_add, __list_add, Links

\* __list_add between a head and itself makes a list of one, whatever the heap.
LEMMA AddAlone ==
  ASSUME NEW Node, NEW L \in Links(Node), NEW c \in Node, NEW h \in Node, c # h
  PROVE  IsList(__list_add(L, c, h, h), h, {c})
<1> DEFINE K == __list_add(L, c, h, h)
<1>1. /\ K[c].next = h /\ K[c].prev = h
      /\ K[h].next = c /\ K[h].prev = c
  BY DEF __list_add, Links
<1> HIDE DEF K
<1> QED
  BY <1>1 DEF K, IsList, Linked, Reachable

\* A set of numbers that is not empty has a least one.
LEMMA Least ==
  ASSUME NEW S \in SUBSET Nat, S # {}
  PROVE  \E p \in S : \A r \in S : p <= r
<1>1. IsWellFoundedOn(OpToRel(<, Nat), Nat)
  BY NatLessThanWellFounded
<1>2. PICK x \in S : \A y \in S : ~(<<y, x>> \in OpToRel(<, Nat))
  BY <1>1, WFMin
<1>3. \A y \in S : ~(y < x)
  BY <1>2 DEF OpToRel
<1> QED
  BY <1>3
=============================================================================
