------------------------------ MODULE MCLive --------------------------------
(***************************************************************************)
(* Everybody is served: an application of two threads, hi above lo above   *)
(* idle, and interrupts, that uses a semaphore, a pipe, the allocator with *)
(* its lock, or a mailbox in the way of lwIP.  The scheduler's variables   *)
(* are shared; what is not used stays as it is.                            *)
(***************************************************************************)
EXTENDS HeapLock, TLC

CONSTANTS hi, lo,
          Data, Asked, MaxChunk, W,     \* of the pipe
          Mails, Size,                  \* of the mailbox of lwIP
          Posters, Reader,              \* the threads that post to it, and lwIP's own
          Uses                          \* what the application uses, one at a time

VARIABLES
  use,
  In, Out, buffer, pReadThread, put, got, chunk, length, Thread,    \* of Pipe
  Read, Write, Mail, stored, fetched, Index, Message, Found, accepted,   \* of Mailbox
  place, msg                                                        \* of SysArch

MCPriority == hi :> 3 @@ lo :> 8 @@ Idle :> 32

pipeVars == <<In, Out, buffer, pReadThread, put, got, chunk, length, Thread>>
lwipVars == <<Read, Write, Mail, stored, fetched, Index, Message, Found, accepted, place, msg>>
liveVars == <<lockVars, Careful, use, pipeVars, lwipVars>>

P == INSTANCE Pipe
\* Apart from where its threads are: the calls of a mailbox and of a pipe have
\* names in common for that.
A == INSTANCE SysArch WITH put <- stored, got <- fetched, Thread <- Found,
                           pc <- place

-----------------------------------------------------------------------------
\* What the application takes care of.
Rules ==
  [heap      |-> {"untimed", "calm"},
   semaphore |-> {"alone", "paced", "untimed", "calm", "kept"},
   pipe      |-> {"single", "paced", "alone", "untimed", "kept"},
   lwip      |-> {"paced", "untimed", "calm", "kept"}]

ASSUME LiveAssumption ==
  P!PipeAssumption /\ A!SysArchAssumption /\ Uses \subseteq DOMAIN Rules

LiveInit ==
  /\ use \in Uses
  /\ Careful = Rules[use]
  /\ SchedInit /\ SemaphoreInit /\ inside = {} /\ P!PipeInit /\ A!ArchInit

LiveNext ==
  /\ UNCHANGED use
  /\ \/ use = "heap"      /\ LockNext /\ UNCHANGED <<pipeVars, lwipVars>>
     \/ use = "semaphore" /\ Next     /\ UNCHANGED <<inside, pipeVars, lwipVars>>
     \/ use = "pipe"      /\ P!Next   /\ UNCHANGED <<Counter, posted, inside, lwipVars>>
     \/ use = "lwip"      /\ A!ArchNext /\ UNCHANGED <<pc, Counter, posted, inside, pipeVars>>

LiveSpec ==
  /\ LiveInit /\ [][LiveNext]_liveVars
  /\ use = "heap"      => LockFairness
  /\ use = "semaphore" => Fairness
  /\ use = "pipe"      => P!Fairness
  /\ use = "lwip"      => A!ArchFairness

-----------------------------------------------------------------------------
\* Who waits is served: a thread that waits for the allocator's lock comes to work
\* on the heap (malloc.c:1090, 1174), the most urgent thread, posted while it sleeps
\* on a semaphore, comes to run again (semaphore.c:346), and a reader that sleeps
\* while there is something in the pipe comes to read it (pipe.c:192-209).
WaitersAreServed ==
  /\ use = "heap"      => Served
  /\ use = "semaphore" => ServerIsServed
  /\ use = "pipe"      => P!ReaderIsServed

\* A blocking post of lwIP, which tries again and again, comes to its end when its
\* thread is less urgent than lwIP's own, although that one is now asleep in a fetch,
\* now on something else, and a post may wake it from there (sys_arch.c:362-365,
\* mailbox.c:374-400).
LwipPosts == (use = "lwip") => []A!ArchTypeOK /\ A!LessUrgentPostsEnd

\* The same of a post by any thread: "This function have to block until the msg is
\* really posted" (sys_arch.c:343).
LwipPostsEnd == (use = "lwip") => A!EveryPostEnds
=============================================================================
