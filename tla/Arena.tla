------------------------------- MODULE Arena -------------------------------
(***************************************************************************)
(* What an allocator promises its callers: a piece of memory handed out    *)
(* lies inside one bank, starts at a word, and shares no byte with the     *)
(* pieces still held; a request may be refused; a piece given back is the  *)
(* only one that is no longer held.                                        *)
(***************************************************************************)
EXTENDS Integers, Sequences

VARIABLES Banks,   \* the banks of memory, [StartAddr, EndAddr) each: never change
          held     \* the first byte of every piece held |-> the bytes asked for

Inside(p, n) == \E i \in DOMAIN Banks : /\ Banks[i].StartAddr <= p
                                        /\ p + n <= Banks[i].EndAddr

Disjoint(p, n) == \A q \in DOMAIN held : p + n <= q \/ q + held[q] <= p

Init == held = << >>

Take(p) == /\ p \notin DOMAIN held
           /\ p % 4 = 0
           /\ Inside(p, held'[p])
           /\ Disjoint(p, held'[p])
           /\ held' = [q \in DOMAIN held \cup {p} |-> IF q = p THEN held'[p] ELSE held[q]]

Give(p) == held' = [q \in DOMAIN held \ {p} |-> held[q]]

Next == /\ UNCHANGED Banks
        /\ \/ \E p \in DOMAIN held' : Take(p)
           \/ \E p \in DOMAIN held : Give(p)

Spec == Init /\ [][Next]_<<Banks, held>>
=============================================================================
