-------------------------------- MODULE Heap --------------------------------
(***************************************************************************)
(* The memory allocator (library/malloc/malloc.c).  The banks are tiled by *)
(* chunks; a chunk's head names the size of the chunk and of the one in    *)
(* front of it.  Free chunks with at most 256 bytes of use hang in 32      *)
(* rings, one for every 8 bytes of size; the others in 32 trees, digital   *)
(* in the bits of their size, in which chunks of one size form a ring.     *)
(*                                                                         *)
(* Addresses and sizes are in bytes, with the unsigned arithmetic of the   *)
(* code modulo Modulus.  Memory that holds no head of a chunk and no link  *)
(* of a free one is not kept: a read of it is an error of the model.       *)
(* Calls are atomic, as the lock makes them (see HeapLock).                *)
(***************************************************************************)
EXTENDS Integers, Sequences, FiniteSets, Functions

CONSTANTS Boards,     \* the memory of a board, and bound: the sizes its program asks for
          Modulus     \* the unsigned numbers are 0 .. Modulus - 1; 2^32 in the code

ASSUME HeapAssumption ==
  /\ Modulus \in Nat \ {0} /\ Modulus % 4 = 0 /\ (Modulus - 1) \div 2^16 < 2^16
  /\ \A b \in Boards :
       /\ b.requests \subseteq 0 .. Modulus - 32      \* brought to size, none wraps around
       /\ b.banks \in Seq([StartAddr : 1 .. Modulus - 1, EndAddr : 1 .. Modulus - 1])
       /\ \A i \in DOMAIN b.banks :                   \* room for the two marks of a bank
            b.banks[i].StartAddr + 11 <= b.banks[i].EndAddr
       /\ \A i, j \in DOMAIN b.banks : \/ i = j
                                       \/ b.banks[i].EndAddr <= b.banks[j].StartAddr
                                       \/ b.banks[j].EndAddr <= b.banks[i].StartAddr

VARIABLES board,      \* never changes
          heap,       \* the heads, the links and Mallocor
          held        \* the pointers the callers hold |-> the sizes they asked for

vars == <<heap, held>>

aRamBanks      == board.banks
NULL           == 0
ChunkHead      == 8            \* sizeof(struct chunk_head)
MIN_CHUNK_SIZE == 16           \* sizeof(CHUNK)
Indices        == 0..31
Box(i)         == -(1 + i)     \* the ring of small chunks, seen as a chunk
Slot(i)        == -(100 + i)   \* &Mallocor.pTreeChunks[i]

Sub(a, b)             == (a - b) % Modulus
align_upside(x, n)    == (((x + n - 1) % Modulus) \div n) * n
align_downside(x, n)  == (x \div n) * n

Free(n) == [size |-> n, used |-> FALSE]
Used(n) == [size |-> n, used |-> TRUE]

Put(f, x, v)  == [y \in DOMAIN f \cup {x} |-> IF y = x THEN v ELSE f[y]]
Drop(f, x)    == [y \in DOMAIN f \ {x} |-> f[y]]
Size(h, c)    == h.ThisInfo[c].size                   \* get_chunk_size
Forgotten(h, c) ==                       \* the links of c become part of what it holds
  [h EXCEPT !.pFreeNext = Drop(@, c), !.pFreePrev = Drop(@, c), !.pChild = Drop(@, c),
            !.pParent = Drop(@, c), !.Index = Drop(@, c)]

\* A loop of at most n turns; step leaves as it is what ends the loop.
Loop(step, x, n) == LET at[k \in 0..n] == IF k = 0 THEN x ELSE step[at[k - 1]]
                    IN  at[n]
Levels == 33     \* a walk down a tree sees a node for every bit of a size, and NULL

-----------------------------------------------------------------------------
get_box_index(n) == (n \div 8) - 1
is_small(n)      == n <= 256

\* BitOps shows that the code's shifts and masks compute this.
tree_size_to_index(n) ==
  LET k == CHOOSE k \in 0..15 : 2^(k + 8) <= n /\ n < 2^(k + 9)
  IN  CASE n < 2^8   -> 0
        [] n >= 2^24 -> 31
        [] OTHER     -> (2 * k) + ((n \div 2^(k + 7)) % 2)

\* The bit of n that chooses the branch at depth d of tree i; at the root it is Top(i).
Top(i)          == IF i = 31 THEN 31 ELSE 6 + (i \div 2)
Branch(n, i, d) == (n \div 2^(Top(i) - d)) % 2

letfmost_child(h, p) == IF h.pChild[p][0] # NULL THEN h.pChild[p][0] ELSE h.pChild[p][1]

insert_small_chunk(h, c, n) ==
  LET i     == get_box_index(n)
      first == h.pFreeNext[Box(i)]
  IN  [h EXCEPT !.SameMap   = @ \cup {i},
                !.pFreeNext = Put([@ EXCEPT ![Box(i)] = c], c, first),
                !.pFreePrev = Put([@ EXCEPT ![first] = c], c, Box(i))]

\* c becomes the only one of its size, below parent.
Linked(h, c, parent) ==
  [h EXCEPT !.pParent   = Put(@, c, parent),
            !.pFreeNext = Put(@, c, c),
            !.pFreePrev = Put(@, c, c)]

insert_large_chunk(h, c, n) ==
  LET i == tree_size_to_index(n)
      g == [h EXCEPT !.Index  = Put(@, c, i),
                     !.pChild = Put(@, c, [b \in 0..1 |-> NULL])]
      \* the node where the walk along the bits of n ends, and its depth
      down == [x \in (DOMAIN h.pChild) \X (0..Levels) |->
                 LET son == h.pChild[x[1]][Branch(n, i, x[2])]
                 IN  IF n + ChunkHead = Size(h, x[1]) \/ son = NULL THEN x
                     ELSE <<son, x[2] + 1>>]
      seat == Loop(down, <<h.tree[i], 0>>, Levels)
      node == seat[1]
      way  == Branch(n, i, seat[2])
  IN  CASE i \notin h.TreeMap ->
             Linked([g EXCEPT !.TreeMap = @ \cup {i}, !.tree[i] = c], c, Slot(i))
        [] i \in h.TreeMap /\ n + ChunkHead # Size(h, node) ->
             Linked([g EXCEPT !.pChild[node][way] = c], c, node)
        [] OTHER ->
             [g EXCEPT !.pParent   = Put(@, c, NULL),
                       !.pFreeNext = Put([@ EXCEPT ![node] = c], c, h.pFreeNext[node]),
                       !.pFreePrev = Put([@ EXCEPT ![h.pFreeNext[node]] = c], c, node)]

checkin_free_chunk(h, c, ChunkSize) ==
  LET n == Sub(ChunkSize, ChunkHead)
  IN  CASE c = NULL                -> h
        [] c # NULL /\ is_small(n) -> insert_small_chunk(h, c, n)
        [] OTHER                   -> insert_large_chunk(h, c, n)

-----------------------------------------------------------------------------
Unringed(h, c) ==
  [h EXCEPT !.pFreePrev[h.pFreeNext[c]] = h.pFreePrev[c],
            !.pFreeNext[h.pFreePrev[c]] = h.pFreeNext[c]]

unlink_small_chunk(h, c, n) ==
  LET last == h.pFreeNext[c] = h.pFreePrev[c]
      g    == Unringed(h, c)
  IN  Forgotten([g EXCEPT !.SameMap = IF last THEN @ \ {get_box_index(n)} ELSE @], c)

\* The node that the last leaf below c hangs on, going right wherever there is a right.
Way(h, p) == IF h.pChild[p][1] # NULL THEN 1 ELSE 0
Son(h, p) == h.pChild[p][Way(h, p)]

last_leaf_Son(h, c) == c

last_leaf(h, c) ==
  LET over == [p \in DOMAIN h.pChild |-> IF Son(h, Son(h, p)) = NULL THEN p ELSE Son(h, p)]
  IN  Loop(over, c, Levels)

\* A node is replaced by the one in front of it in its ring, or else by the last
\* leaf below it, or else by nothing.
unlink_large_chunk(h, c) ==
  LET leafOf  == last_leaf(h, c)
      chained == h.pFreePrev[c] # c
      replace == IF chained THEN h.pFreePrev[c]
                 ELSE IF Son(h, c) = NULL THEN NULL ELSE Son(h, leafOf)
      g       == CASE chained        -> Unringed(h, c)
                   [] replace = NULL -> h
                   [] OTHER          -> [h EXCEPT !.pChild[leafOf][Way(h, leafOf)] = NULL]
      i       == h.Index[c]
      parent  == h.pParent[c]
      above   == IF h.tree[i] = c
                 THEN [g EXCEPT !.tree[i] = replace,
                                !.TreeMap = IF replace = NULL THEN @ \ {i} ELSE @]
                 ELSE [g EXCEPT !.pChild[parent][IF g.pChild[parent][0] = c THEN 0 ELSE 1]
                                  = replace]
      sons    == {b \in 0..1 : g.pChild[c][b] # NULL}
      below   == IF replace = NULL THEN above
                 ELSE [above EXCEPT
                        !.pChild[replace] = [b \in 0..1 |-> IF b \in sons THEN g.pChild[c][b]
                                                            ELSE @[b]],
                        !.pParent = [p \in DOMAIN @ |->
                                       IF p = replace THEN parent
                                       ELSE IF \E b \in sons : p = g.pChild[c][b] THEN replace
                                       ELSE @[p]]]
  IN  Forgotten(IF parent = NULL THEN g ELSE below, c)

unlink_chunk(h, c, n) ==
  IF is_small(n) THEN unlink_small_chunk(h, c, n) ELSE unlink_large_chunk(h, c)

-----------------------------------------------------------------------------
\* A checkout returns the chunk and the heap without it.
checkout_small_chunk_in_group(h, i) ==
  LET first == h.pFreeNext[Box(i)]
      next  == h.pFreeNext[first]
  IN  <<first, Forgotten([h EXCEPT !.SameMap = IF next = Box(i) THEN @ \ {i} ELSE @,
                                   !.pFreeNext[Box(i)] = next,
                                   !.pFreePrev[next] = Box(i)], first)>>

\* What is left of p when ChunkSize is taken from it; c = NULL stands for the
\* start of the search, where nothing is good enough yet.
Margin(h, p, ChunkSize) == Sub(IF p = NULL THEN 0 ELSE Size(h, p), ChunkSize)

Closer(h, p, c, ChunkSize) ==
  IF p # NULL /\ Margin(h, p, ChunkSize) < Margin(h, c, ChunkSize) THEN p ELSE c

Closest_Root(h, p, c, ChunkSize) == Closer(h, p, c, ChunkSize)

\* The closest fit on the way down the left side of the tree p, if closer than c.
Closest(h, p, c, ChunkSize) ==
  LET Nodes == DOMAIN h.pChild \cup {NULL}
      left  == [x \in Nodes \X Nodes |->
                  IF x[1] = NULL THEN x
                  ELSE <<letfmost_child(h, x[1]), Closer(h, x[1], x[2], ChunkSize)>>]
  IN  Loop(left, <<p, c>>, Levels)[2]

checkout_small_chunk_in_tree(h) ==
  LET i == CHOOSE i \in h.TreeMap : \A j \in h.TreeMap : i <= j
      c == Closest(h, h.tree[i], h.tree[i], 0)
  IN  IF h.TreeMap = {} THEN <<NULL, h>> ELSE <<c, unlink_large_chunk(h, c)>>

checkout_large_chunk_in_tree(h, n) ==
  LET idx  == tree_size_to_index(n)
      need == n + ChunkHead
      Nodes == DOMAIN h.pChild \cup {NULL}
      \* down the bits of n, from a node t at depth d, with the best chunk and the
      \* last tree left out on the right; a chunk of the very size ends the walk
      down == [x \in Nodes \X Nodes \X Nodes \X (0..Levels) |->
                 LET t     == x[1]
                     best  == Closer(h, t, x[2], need)
                     right == h.pChild[t][1]
                     next  == h.pChild[t][Branch(n, idx, x[4])]
                     out   == IF right # NULL /\ right # next THEN right ELSE x[3]
                 IN  CASE t = NULL                 -> x
                       [] t # NULL /\ best = t /\ Margin(h, t, need) = 0 -> <<NULL, t, t, x[4]>>
                       [] OTHER                    -> <<next, best, out, x[4] + 1>>]
      found == Loop(down, <<h.tree[idx], NULL, NULL, 0>>, Levels)
      left  == {i \in h.TreeMap : i > idx}
      pTree == IF found[2] = NULL /\ found[3] = NULL /\ left # {}
               THEN h.tree[CHOOSE i \in left : \A j \in left : i <= j]
               ELSE found[3]
      c     == Closest(h, pTree, found[2], need)
  IN  IF c = NULL THEN <<NULL, h>> ELSE <<c, unlink_large_chunk(h, c)>>

-----------------------------------------------------------------------------
Formatted_Down(n) == align_downside(n, 8)

\* The size a request is brought to.
Formatted(n) == LET m == align_upside((n + MIN_CHUNK_SIZE) % Modulus, 4)
                IN  IF is_small(m) THEN align_upside(m, 8) ELSE m

\* The chunk taken out for a request.  The bits below the index are shifted out; 32, for none, becomes 0 as well.
checkout(h, n) ==
  LET fit == {i \in h.SameMap : i >= get_box_index(n)}
      i   == IF fit = {} THEN 0 ELSE CHOOSE j \in fit : \A k \in fit : j <= k
  IN  CASE is_small(n) /\ i # 0 -> checkout_small_chunk_in_group(h, i)
        [] is_small(n) /\ i = 0 -> checkout_small_chunk_in_tree(h)
        [] OTHER                -> checkout_large_chunk_in_tree(h, n)

splite_free_chunk_Stale(h, c, ChunkSize) ==
  LET FreeSize == Size(h, c)
      rest     == c + ChunkSize
      RestSize == Sub(FreeSize, ChunkSize)
  IN  IF RestSize < MIN_CHUNK_SIZE
      THEN <<NULL, [h EXCEPT !.ThisInfo[c] = Used(FreeSize), !.PrevInfo[c + FreeSize] = Used(FreeSize)]>>
      ELSE <<rest, [h EXCEPT !.ThisInfo = Put([@ EXCEPT ![c] = Used(ChunkSize)],
                                              rest, Free(RestSize)),
                             !.PrevInfo = Put(@, rest, Used(ChunkSize))]>>

splite_free_chunk_Kept(h, c, ChunkSize) ==
  LET FreeSize == Size(h, c)
  IN  <<c, [h EXCEPT !.ThisInfo[c] = Used(FreeSize), !.PrevInfo[c + FreeSize] = Used(FreeSize)]>>

\* A rest too small for a chunk stays with the chunk.  Returns the rest, and the heap.
splite_free_chunk(h, c, ChunkSize) ==
  LET FreeSize == Size(h, c)
      next     == c + FreeSize
      rest     == c + ChunkSize
      RestSize == Sub(FreeSize, ChunkSize)
  IN  IF RestSize < MIN_CHUNK_SIZE
      THEN <<NULL, [h EXCEPT !.ThisInfo[c] = Used(FreeSize), !.PrevInfo[next] = Used(FreeSize)]>>
      ELSE <<rest, [h EXCEPT !.ThisInfo = Put([@ EXCEPT ![c] = Used(ChunkSize)],
                                              rest, Free(RestSize)),
                             !.PrevInfo = Put([@ EXCEPT ![next] = Free(RestSize)],
                                              rest, Used(ChunkSize))]>>

malloc(n) ==
  LET out  == checkout(heap, Formatted(n))
      cut  == splite_free_chunk(out[2], out[1], Formatted(n) + ChunkHead)
  IN  \/ /\ out[1] = NULL
         /\ UNCHANGED vars
      \/ /\ out[1] # NULL
         /\ heap' = checkin_free_chunk(cut[2], cut[1],
                                       IF cut[1] = NULL THEN 0 ELSE Size(cut[2], cut[1]))
         /\ held' = Put(held, out[1] + ChunkHead, n)

-----------------------------------------------------------------------------
\* c and the chunk next to it become one free chunk of n bytes; the head of the
\* second of them, at `gone', is memory like any other.
Merged(h, c, gone, n) ==
  [h EXCEPT !.ThisInfo = [Drop(@, gone) EXCEPT ![c] = Free(n)],
            !.PrevInfo = [Drop(@, gone) EXCEPT ![c + n] = Free(n)]]

MergedPrev(h, c) ==
  LET PrevSize == h.PrevInfo[c].size
      prev     == c - PrevSize
  IN  IF h.PrevInfo[c].used THEN <<c, h>>
      ELSE <<prev, Merged(unlink_chunk(h, prev, Sub(PrevSize, ChunkHead)),
                          prev, c, PrevSize + Size(h, c))>>

MergedNext_None(h, c) == h

MergedNext(h, c) ==
  LET next == c + Size(h, c)
  IN  IF h.ThisInfo[next].used THEN h
      ELSE Merged(unlink_chunk(h, next, Sub(Size(h, next), ChunkHead)),
                  c, next, Size(h, c) + Size(h, next))

free(p) ==
  LET c    == p - ChunkHead
      n    == Size(heap, c)
      this == [heap EXCEPT !.ThisInfo[c] = Free(n), !.PrevInfo[c + n] = Free(n)]
      back == MergedPrev(this, c)
      all  == MergedNext(back[2], back[1])
  IN  \/ /\ p = NULL
         /\ UNCHANGED vars
      \/ /\ p \in DOMAIN held
         /\ heap' = checkin_free_chunk(all, back[1], Size(all, back[1]))
         /\ held' = Drop(held, p)

-----------------------------------------------------------------------------
\* A bank is one free chunk between two marks of size 0 that are in use.
Registered(h, bank) ==
  LET StartAddr == align_upside(bank.StartAddr, 4)
      End       == align_downside(bank.EndAddr, 4)
      EndAddr   == Sub(End, ChunkHead)
      ChunkSize == Sub(EndAddr, StartAddr)
      marked    == [h EXCEPT !.PrevInfo = Put(Put(@, StartAddr, Used(0)), EndAddr, Free(ChunkSize)),
                             !.ThisInfo = Put(Put(@, StartAddr, Free(ChunkSize)), EndAddr, Used(0))]
  IN  IF End < StartAddr \/ ChunkSize < MIN_CHUNK_SIZE THEN h
      ELSE checkin_free_chunk(marked, StartAddr, ChunkSize)

\* Every ring is empty, and so is every tree.
NoMemory ==
  LET boxes == {Box(i) : i \in Indices}
  IN  [PrevInfo |-> << >>, ThisInfo |-> << >>,
       pFreeNext |-> [b \in boxes |-> b], pFreePrev |-> [b \in boxes |-> b],
       pChild |-> << >>, pParent |-> << >>, Index |-> << >>,
       SameMap |-> {}, TreeMap |-> {}, tree |-> [i \in Indices |-> NULL]]

mallocor_setup ==
  LET setup[k \in 0 .. Len(aRamBanks)] ==
        IF k = 0 THEN NoMemory ELSE Registered(setup[k - 1], aRamBanks[k])
  IN  setup[Len(aRamBanks)]

Init == board \in Boards /\ heap = mallocor_setup /\ held = << >>

Next == /\ UNCHANGED board
        /\ \/ \E n \in board.requests : malloc(n)
           \/ \E p \in DOMAIN held \cup {NULL} : free(p)

Spec == Init /\ [][Next]_<<board, vars>>

-----------------------------------------------------------------------------
Chunks     == {c \in DOMAIN heap.ThisInfo : Size(heap, c) # 0}
FreeChunks == {c \in Chunks : ~heap.ThisInfo[c].used}
Use(c)     == Size(heap, c) - ChunkHead
Small      == {c \in FreeChunks : is_small(Use(c))}

\* Every address a ring reaches from b.
Ring(b) == LET D    == DOMAIN heap.pFreeNext
               over == [x \in D \X SUBSET D |-> IF x[1] \in x[2] THEN x
                                                ELSE <<heap.pFreeNext[x[1]], x[2] \cup {x[1]}>>]
           IN  Loop(over, <<b, {}>>, Cardinality(FreeChunks) + 2)[2]

TypeOK ==
  /\ heap.SameMap \subseteq Indices /\ heap.TreeMap \subseteq Indices
  /\ DOMAIN heap.PrevInfo = DOMAIN heap.ThisInfo
  /\ \A c \in Chunks : c \in 1 .. Modulus - 1 /\ Size(heap, c) \in MIN_CHUNK_SIZE .. Modulus - 1
  /\ DOMAIN heap.pFreeNext = FreeChunks \cup {Box(i) : i \in Indices}
  /\ DOMAIN heap.pChild = FreeChunks \ Small

\* The chunks tile the banks: from the first word of a bank, size after size, to
\* its end mark, every head saying of the chunk in front what that says of itself.
\* The merging in free and the console command `memory' walk by it.
Tiled ==
  /\ TypeOK
  /\ \A c \in Chunks :
       LET next == c + Size(heap, c)
       IN  /\ next \in DOMAIN heap.ThisInfo
           /\ heap.PrevInfo[next] = heap.ThisInfo[c]
           /\ \A d \in DOMAIN heap.ThisInfo : d <= c \/ d >= next
           /\ \E i \in DOMAIN aRamBanks : /\ aRamBanks[i].StartAddr <= c
                                          /\ next + ChunkHead <= aRamBanks[i].EndAddr
  /\ \A c \in DOMAIN heap.ThisInfo :
       heap.PrevInfo[c] = Used(0) <=>
         c \in {align_upside(aRamBanks[i].StartAddr, 4) : i \in DOMAIN aRamBanks}

\* No two free chunks touch: every free merges on both sides, and nothing a
\* malloc splits off lies against a free chunk.
Coalesced == \A c \in FreeChunks : heap.ThisInfo[c + Size(heap, c)].used

\* The rings of the small chunks hold the free small chunks, each in the ring of
\* its size, and the map names the rings that are not empty.
SmallFound ==
  /\ \A i \in Indices :
       /\ Ring(Box(i)) \ {Box(i)} = {c \in Small : get_box_index(Use(c)) = i}
       /\ i \in heap.SameMap <=> heap.pFreeNext[Box(i)] # Box(i)
  /\ \A c \in DOMAIN heap.pFreeNext : heap.pFreePrev[heap.pFreeNext[c]] = c

\* The node that a walk down its tree along the bits of the use n leads to.
Reach(n) ==
  LET i    == tree_size_to_index(n)
      down == [x \in (DOMAIN heap.pChild \cup {NULL}) \X (0..Levels) |->
                 IF x[1] = NULL \/ Size(heap, x[1]) = n + ChunkHead THEN x
                 ELSE <<heap.pChild[x[1]][Branch(n, i, x[2])], x[2] + 1>>]
  IN  Loop(down, <<heap.tree[i], 0>>, Levels)[1]

\* Walking down its tree along the bits of its size leads to a node of the size
\* of every free large chunk, with that chunk in its ring; parents and sons
\* agree, only the node in the tree has a parent, and the map is right.
LargeFound ==
  /\ \A c \in FreeChunks \ Small :
       LET node == Reach(Use(c))
           i    == tree_size_to_index(Use(c))
       IN  /\ node # NULL /\ c \in Ring(node)
           /\ c # node => heap.pParent[c] = NULL
           /\ c = heap.tree[i] => heap.pParent[c] = Slot(i)
           /\ heap.Index[c] = i
           /\ \A b \in 0..1 : LET son == heap.pChild[c][b]
                              IN  son # NULL => heap.pParent[son] = c
  /\ \A i \in Indices : i \in heap.TreeMap <=> heap.tree[i] # NULL

\* Every free chunk can be found again, through any sequence of splits and merges,
\* and the rings, trees and maps name nothing else (malloc.c:428-782).
FreeFound == SmallFound /\ LargeFound

\* A request is refused only when no free chunk is large enough for it, and is
\* given the closest fit: of the large chunks the smallest that will do, of the
\* small ones the first of the smallest ring that will.
BestFit ==
  \A n \in board.requests :
    LET m    == Formatted(n)
        c    == checkout(heap, m)[1]
        fits == {d \in FreeChunks : Use(d) >= m}
    IN  /\ c = NULL <=> fits = {}
        /\ c # NULL => /\ c \in fits
                       /\ \A d \in fits : IF c \in Small THEN Use(c) \div 8 <= Use(d) \div 8
                                          ELSE Use(c) <= Use(d)

\* A chunk is in use exactly while a caller holds it, and has room for what the
\* caller asked for: nothing is lost, and nothing is given back twice.
UsedIsHeld ==
  /\ {c + ChunkHead : c \in Chunks \ FreeChunks} = DOMAIN held
  /\ \A p \in DOMAIN held : Use(p - ChunkHead) >= held[p]

\* The allocator keeps the promise made to its callers.
Memory == INSTANCE Arena WITH Banks <- aRamBanks
KeepsPromise == Memory!Spec
=============================================================================
