------------------------------ MODULE MCHeap ------------------------------
EXTENDS Heap

B(s, n) == [StartAddr |-> s, EndAddr |-> s + n]

\* One bank that is split and merged in many ways.
OneBank  == [banks |-> <<B(1000, 868)>>, requests |-> {60, 220, 280}]
\* Free chunks of one tree, two of them of one size, in banks of their own; the
\* last bank is too small to be registered.
OneTree  == [banks |-> <<B(1000, 300), B(2001, 303), B(3000, 324), B(4000, 324),
                         B(5000, 364), B(6000, 284), B(7000, 20)>>,
             requests |-> {200, 250, 281, 300}]
\* Two banks, the second with room for one large piece.
TwoBanks == [banks |-> <<B(1001, 603), B(3000, 328)>>, requests |-> {60, 220, 280}]

MCBoards == {OneBank, OneTree, TwoBanks}
=============================================================================
