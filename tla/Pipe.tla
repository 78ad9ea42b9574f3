-------------------------------- MODULE Pipe --------------------------------
(***************************************************************************)
(* ChinaOS/kernel/pipe/pipe.c: a ring of Lenth elements with the free      *)
(* running indices In and Out, kept modulo W (2^32 in the code), one       *)
(* thread that reads, and the threads and the interrupt handler that       *)
(* write.  pipe_write does not lock: a thread writes one access at a time, *)
(* an interrupt handler in one step.                                       *)
(***************************************************************************)
EXTENDS Blocking, Integers, Sequences

CONSTANTS Data,
          Asked,       \* the length pipe_new is asked for
          MaxChunk,    \* bound: elements of one write or read
          W

VARIABLES
  In, Out, buffer, pReadThread,
  put, got,                    \* what the latest write put in, and what the latest read returned
  chunk, length, Thread        \* locals of a pipe_write by a thread

pipe   == <<freed, In, Out, buffer, pReadThread, put, got>>
locals == <<chunk, length, Thread>>
vars   == <<list, OS_ActivePrio, OS_This, pend, pc, timer, woken, freed,
            In, Out, buffer, pReadThread, put, got, chunk, length, Thread>>

Chunks  == UNION {[1..n -> Data] : n \in 1..MaxChunk}
Writing == {"copy", "commit", "look", "ready", "return"}

min(a, b) == IF a <= b THEN a ELSE b

\* n & (n - 1) is zero for a power of two; n & -n is the lowest one bit of n.
PowerOfTwo(n) == \E k \in 0..n : n = 2^k
LowBit(n)     == CHOOSE b \in 1..n : PowerOfTwo(b) /\ n % b = 0 /\ n % (2 * b) # 0

\* The length of the ring pipe_new makes.
RingLength(n) == IF PowerOfTwo(n) THEN n ELSE 2 * LowBit(n)

Lenth == RingLength(Asked)

\* The length is that of a ring, and W a multiple of it.
PipeAssumption ==
  /\ Asked \in Nat \ {0} /\ MaxChunk \in Nat
  /\ Lenth \in Nat \ {0} /\ W \in Nat /\ W % Lenth = 0 /\ Lenth < W

\* pipe_new.
PipeInit ==
  /\ In = 0 /\ Out = 0 /\ buffer = [i \in 0..(Lenth - 1) |-> NULL]
  /\ pReadThread = NULL
  /\ put = <<>> /\ got = <<>>
  /\ chunk = [t \in Threads |-> <<>>]
  /\ length = [t \in Threads |-> 0]
  /\ Thread = [t \in Threads |-> NULL]

Init == SchedInit /\ PipeInit

Used == (In - Out) % W

\* Lenth - In + Out, in unsigned arithmetic.
Room == (Lenth - In + Out) % W

\* The ring after n elements of s were copied in from In on, in one or two parts.
Copied_Straight(s, n) ==
  LET at == In % Lenth
  IN  [i \in DOMAIN buffer |-> IF i >= at /\ i - at < n THEN s[i - at + 1] ELSE buffer[i]]

Copied(s, n) ==
  LET at   == In % Lenth
      size == min(n, Lenth - at)
  IN  [i \in DOMAIN buffer |->
         CASE i >= at /\ i - at < size -> s[i - at + 1]
           [] i < n - size             -> s[size + i + 1]
           [] OTHER                    -> buffer[i]]

\* The n elements copied out from Out on.
Taken(n) ==
  LET at   == Out % Lenth
      size == min(n, Lenth - at)
  IN  [i \in 1..n |-> IF i <= size THEN buffer[at + i - 1] ELSE buffer[i - size - 1]]

Exclusive(t) == "single" \in Careful => \A u \in Threads \ {t} : pc[u] \notin Writing
ReaderAsleep == pReadThread = NULL \/ Paced(pReadThread)

-----------------------------------------------------------------------------
ReadOut(n) ==
  /\ Out' = (Out + min(n, Used)) % W
  /\ got' = Taken(min(n, Used))
  /\ UNCHANGED <<freed, In, buffer, put>>

\* pipe_read, when there is something.
ReadNow(t, n) ==
  /\ Calls(t) /\ MayTake(t)
  /\ In # Out
  /\ ReadOut(n)
  /\ UNCHANGED <<sched, pReadThread, locals>>

\* pipe_read of an empty pipe: up to the unlock.
Wait(t, timed) ==
  /\ Calls(t) /\ MayTake(t)
  /\ In = Out
  /\ timed => MayTime
  /\ pReadThread' = t
  /\ list' = Off(t)
  /\ OS_ActivePrio' = Cleared(t)
  /\ timer' = [timer EXCEPT ![t] = IF timed THEN "armed" ELSE "off"]
  /\ pc' = [pc EXCEPT ![t] = "blocked"]
  /\ UNCHANGED <<OS_This, pend, woken, freed, In, Out, buffer, put, got, locals>>

\* The rest of pipe_read, once the thread runs again.
Resume(t, n) ==
  /\ Running(t) /\ pc[t] = "waiting"
  /\ timer' = [timer EXCEPT ![t] = "off"]
  /\ pReadThread' = NULL
  /\ woken' = woken \ {t}
  /\ pc' = [pc EXCEPT ![t] = "run"]
  /\ \/ In = Out /\ UNCHANGED <<freed, In, Out, buffer, put, got>>   \* ERR_TIMEOUT
     \/ In # Out /\ ReadOut(n)
  /\ UNCHANGED <<list, OS_ActivePrio, OS_This, pend, locals>>

-----------------------------------------------------------------------------
\* pipe_write by a thread, access by access.
Write(t, s) ==
  /\ Calls(t) /\ Exclusive(t) /\ ReaderAsleep
  /\ chunk' = [chunk EXCEPT ![t] = s]
  /\ length' = [length EXCEPT ![t] = min(Len(s), Room)]
  /\ pc' = [pc EXCEPT ![t] = "copy"]
  /\ UNCHANGED <<list, OS_ActivePrio, OS_This, pend, timer, woken, pipe, Thread>>

WriteCopy(t) ==
  /\ Running(t) /\ pc[t] = "copy"
  /\ buffer' = Copied(chunk[t], length[t])
  /\ pc' = [pc EXCEPT ![t] = "commit"]
  /\ UNCHANGED <<list, OS_ActivePrio, OS_This, pend, timer, woken>>
  /\ UNCHANGED <<freed, In, Out, pReadThread, put, got, locals>>

WriteCommit(t) ==
  /\ Running(t) /\ pc[t] = "commit"
  /\ In' = (In + length[t]) % W
  /\ put' = SubSeq(chunk[t], 1, length[t])
  /\ pc' = [pc EXCEPT ![t] = "look"]
  /\ UNCHANGED <<list, OS_ActivePrio, OS_This, pend, timer, woken>>
  /\ UNCHANGED <<freed, Out, buffer, pReadThread, got, locals>>

Returned(t) == /\ chunk' = [chunk EXCEPT ![t] = <<>>]
               /\ length' = [length EXCEPT ![t] = 0]
               /\ Thread' = [Thread EXCEPT ![t] = NULL]
               /\ pc' = [pc EXCEPT ![t] = "run"]

WriteLook_Silent(t) ==
  /\ Running(t) /\ pc[t] = "look"
  /\ Returned(t)
  /\ UNCHANGED <<list, OS_ActivePrio, OS_This, pend, timer, woken, pipe>>

WriteLook(t) ==
  /\ Running(t) /\ pc[t] = "look"
  /\ \/ pReadThread = NULL /\ Returned(t)
     \/ /\ pReadThread # NULL
        /\ Thread' = [Thread EXCEPT ![t] = pReadThread]
        /\ pc' = [pc EXCEPT ![t] = "ready"]
        /\ UNCHANGED <<chunk, length>>
  /\ UNCHANGED <<list, OS_ActivePrio, OS_This, pend, timer, woken, pipe>>

WriteReady(t) ==
  /\ Running(t) /\ pc[t] = "ready"
  /\ MakeReady(Thread[t])
  /\ pc' = [pc EXCEPT ![t] = "return"]
  /\ UNCHANGED <<OS_This, pend, timer, pipe, locals>>

WriteReturns(t) ==
  /\ Running(t) /\ pc[t] = "return"
  /\ pend' = Scheduled(OS_ActivePrio)
  /\ Returned(t)
  /\ UNCHANGED <<list, OS_ActivePrio, OS_This, timer, woken, pipe>>

\* pipe_write called by an interrupt handler.
WriteFromInterrupt(s) ==
  LET n == min(Len(s), Room)
  IN  /\ ~freed /\ Exclusive(Idle) /\ ReaderAsleep
      /\ buffer' = Copied(s, n)
      /\ In' = (In + n) % W
      /\ put' = SubSeq(s, 1, n)
      /\ IF pReadThread = NULL
         THEN UNCHANGED <<list, OS_ActivePrio, woken, pend>>
         ELSE MakeReady(pReadThread) /\ pend' = Scheduled(OS_ActivePrio')
      /\ UNCHANGED <<OS_This, pc, timer, freed, Out, pReadThread, got, locals>>

ThreadWrites(t) ==
  \/ \E s \in Chunks : Write(t, s)
  \/ WriteCopy(t) \/ WriteCommit(t) \/ WriteLook(t) \/ WriteReady(t) \/ WriteReturns(t)

ThreadReads(t) ==
  \/ \E n \in 1..MaxChunk : ReadNow(t, n) \/ Resume(t, n)
  \/ \E timed \in BOOLEAN : Wait(t, timed)

Step ==
  \/ KernelStep /\ UNCHANGED <<pipe, locals>>
  \/ \E s \in Chunks : WriteFromInterrupt(s)
  \/ \E t \in Threads : \/ ThreadWrites(t) \/ ThreadReads(t)
                        \/ Free(t) /\ UNCHANGED <<In, Out, buffer, pReadThread, put, got, locals>>

Next == Step /\ UNCHANGED Careful

Spec == Init /\ [][Next]_<<vars, Careful>>

\* PendSV is served, and a thread that gets the processor again and again gets
\* on with its kernel code: interrupts leave it time in between.
Fairness ==
  /\ WF_vars(Shift /\ UNCHANGED <<pipe, locals>>)
  /\ \A t \in Threads :
       /\ SF_vars(Switch(t) /\ UNCHANGED <<pipe, locals>>)
       /\ SF_vars(\E n \in 1..MaxChunk : Resume(t, n))
       /\ SF_vars(WriteCopy(t) \/ WriteCommit(t) \/ WriteLook(t)
                    \/ WriteReady(t) \/ WriteReturns(t))

-----------------------------------------------------------------------------
TypeOK ==
  /\ SchedType({"run", "blocked", "waiting"} \cup Writing)
  /\ In \in 0..(W-1) /\ Out \in 0..(W-1)
  /\ buffer \in [0..(Lenth-1) -> Data \cup {NULL}]
  /\ pReadThread \in Threads \cup {NULL}
  /\ length \in [Threads -> 0..MaxChunk]
  /\ Thread \in [Threads -> Threads \cup {NULL}]

\* A pipe that refuses an element holds at least the number it was made for
\* ("round up to the next power of 2", pipe.c:94-99, 176).
HoldsWhatWasAsked == Room = 0 => Used >= Asked

\* Writes that are not interleaved and come when the one reader sleeps, without a
\* time limit.
Polite == {"single", "paced", "alone", "untimed", "kept"} \subseteq Careful

\* While the reader sleeps and nobody is on the way to wake it, the pipe is
\* empty: no write slips in between the reader's look and its sleep
\* (pipe.c:194-205).
NoLostWrite ==
  Polite /\ Sleepers # {} /\ In # Out =>
    woken # {} \/ \E t \in Threads : pc[t] \in {"look", "ready"}

\* The pipe is a queue of Lenth elements, however the unlocked copy of a write
\* interleaves with reads and however often In and Out wrap around: the elements
\* between Out and In are those written and not yet read, in order.
Queue == INSTANCE Fifo WITH
           Capacity <- Lenth,
           queue <- [i \in 1..Used |-> buffer[(Out + i - 1) % Lenth]]
ImplementsFifo == Queue!FifoSpec

\* A reader that sleeps while there is something to read comes to read it.
ReaderIsServed ==
  pc[Server] = "waiting" /\ In # Out ~> pc[Server] = "run"
=============================================================================
