-------------------------------- MODULE Fifo --------------------------------
(***************************************************************************)
(* What a mailbox and a pipe promise: what was put in comes out, once, in  *)
(* the order it was put in, and never more than Capacity is kept.          *)
(***************************************************************************)
EXTENDS Naturals, Sequences

CONSTANTS Data, Capacity

VARIABLES queue,
          put,        \* what the latest write put in
          got         \* what the latest read returned

fifoVars == <<queue, put, got>>

FifoInit == queue = <<>> /\ put = <<>> /\ got = <<>>

Put(s) ==
  /\ Len(queue) + Len(s) <= Capacity
  /\ queue' = queue \o s
  /\ put' = s
  /\ UNCHANGED got

Take(n) ==
  /\ got' = SubSeq(queue, 1, n)
  /\ queue' = SubSeq(queue, n + 1, Len(queue))
  /\ UNCHANGED put

FifoNext ==
  \/ \E n \in 0..Capacity : \E s \in [1..n -> Data] : Put(s)
  \/ \E n \in 1..Len(queue) : Take(n)

FifoSpec == FifoInit /\ [][FifoNext]_fifoVars
=============================================================================
