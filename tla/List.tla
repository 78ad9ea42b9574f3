-------------------------------- MODULE List --------------------------------
(***************************************************************************)
(* The circular doubly linked lists of ChinaOS/library/link/list.h.        *)
(*                                                                         *)
(* A heap of list nodes is a function L from nodes to [next, prev]; the    *)
(* node a pointer designates is the pointer.  Every operator below returns *)
(* the heap the C function leaves behind.  EXCEPT clauses are applied from *)
(* left to right, as the assignments of the C functions are, which matters *)
(* when two of the nodes are the same (an empty list is its own            *)
(* neighbour).  A definition whose name ends in _Half, _OneWay or _Stale   *)
(* is a faulty variant of the one it precedes; nothing refers to it.       *)
(***************************************************************************)

Links(Node) == [Node -> [next : Node, prev : Node]]

INIT_LIST_HEAD(L, list) == [L EXCEPT ![list] = [next |-> list, prev |-> list]]

__list_add(L, new, prev, next) ==
  [L EXCEPT ![next].prev = new,
            ![new]       = [next |-> next, prev |-> prev],
            ![prev].next = new]

list_add(L, new, head) == __list_add(L, new, head, L[head].next)

list_add_tail(L, new, head) == __list_add(L, new, L[head].prev, head)

__list_del_OneWay(L, prev, next) == [L EXCEPT ![next].prev = prev]

__list_del(L, prev, next) == [L EXCEPT ![next].prev = prev, ![prev].next = next]

\* The entry keeps its own two pointers: the poisoning is compiled out.
list_del(L, entry) == __list_del(L, L[entry].prev, L[entry].next)

list_del_init(L, entry) == INIT_LIST_HEAD(list_del(L, entry), entry)

\* old->prev is read after old->next->prev was written: the two are the same
\* location when old is alone on its ring.
list_replace(L, old, new) ==
  LET first == [L EXCEPT ![new].next = L[old].next, ![L[old].next].prev = new]
      last  == first[old].prev
  IN  [first EXCEPT ![new].prev = last, ![last].next = new]

list_replace_init(L, old, new) == INIT_LIST_HEAD(list_replace(L, old, new), old)

list_move(L, list, head) == list_add(list_del(L, list), list, head)

list_move_tail(L, list, head) == list_add_tail(list_del(L, list), list, head)

list_empty(L, head) == L[head].next = head

list_is_singular(L, head) == ~list_empty(L, head) /\ L[head].next = L[head].prev

list_rotate_left(L, head) ==
  IF list_empty(L, head) THEN L ELSE list_move_tail(L, L[head].next, head)

__list_cut_position_Stale(L, list, head, entry) ==
  [L EXCEPT ![list].next          = L[head].next,
            ![L[head].next].prev  = list,
            ![list].prev          = entry,
            ![entry].next         = list,
            ![head].next          = L[entry].next]

__list_cut_position(L, list, head, entry) ==
  LET first    == L[head].next
      newFirst == L[entry].next
  IN  [L EXCEPT ![list].next     = first,
                ![first].prev    = list,
                ![list].prev     = entry,
                ![entry].next    = list,
                ![head].next     = newFirst,
                ![newFirst].prev = head]

list_cut_position(L, list, head, entry) ==
  CASE list_empty(L, head) -> L
    [] /\ list_is_singular(L, head)
       /\ entry \notin {L[head].next, head} -> L
    [] entry = head /\ ~list_empty(L, head) -> INIT_LIST_HEAD(L, list)
    [] OTHER -> __list_cut_position(L, list, head, entry)

__list_splice(L, list, prev, next) ==
  [L EXCEPT ![L[list].next].prev = prev,
            ![prev].next         = L[list].next,
            ![L[list].prev].next = next,
            ![next].prev         = L[list].prev]

list_splice(L, list, head) ==
  IF list_empty(L, list) THEN L ELSE __list_splice(L, list, head, L[head].next)

list_splice_tail(L, list, head) ==
  IF list_empty(L, list) THEN L ELSE __list_splice(L, list, L[head].prev, head)

list_splice_init(L, list, head) ==
  IF list_empty(L, list) THEN L ELSE INIT_LIST_HEAD(list_splice(L, list, head), list)

list_splice_tail_init(L, list, head) ==
  IF list_empty(L, list) THEN L ELSE INIT_LIST_HEAD(list_splice_tail(L, list, head), list)

-----------------------------------------------------------------------------
(***************************************************************************)
(* What it means for the heap to hold a list: the members M hang on the    *)
(* ring of head h and on nothing else.  The first part says that next and  *)
(* prev undo each other and stay inside the ring, the second that no       *)
(* members form a ring of their own that a walk from h would never meet.   *)
(***************************************************************************)
Linked(L, h, M) ==
  \A n \in M \cup {h} :
    /\ L[n].next \in M \cup {h}
    /\ L[n].prev \in M \cup {h}
    /\ L[L[n].next].prev = n
    /\ L[L[n].prev].next = n

Reachable(L, M) ==
  \A S \in SUBSET M : S # {} => \E n \in S : L[n].next \notin S

IsList(L, h, M) == h \notin M /\ Linked(L, h, M) /\ Reachable(L, M)

=============================================================================
