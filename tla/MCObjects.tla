----------------------------- MODULE MCObjects ------------------------------
(***************************************************************************)
(* An application of two threads, hi above lo above idle, and interrupts,  *)
(* that uses one object of the kernel: a semaphore, a mailbox or a pipe.   *)
(* The scheduler's variables are shared; an object that is not used stays  *)
(* as it was made.                                                         *)
(***************************************************************************)
EXTENDS Semaphore, TLC

CONSTANTS hi, lo,
          Mails, Size,                    \* of the mailbox
          Data, Asked, MaxChunk, W        \* of the pipe

VARIABLES
  use,
  Read, Write, Mail, put, got, Index, Message, Thread, accepted,    \* of Mailbox
  In, Out, buffer, pReadThread, wrote, gave, chunk, length, Waker         \* of Pipe

MCPriority == hi :> 3 @@ lo :> 8 @@ Idle :> 32
Alike      == Permutations(Mails) \cup Permutations(Data)

semaphoreVars == <<Counter, posted>>
mailboxVars   == <<Read, Write, Mail, put, got, Index, Message, Thread, accepted>>
pipeVars      == <<In, Out, buffer, pReadThread, wrote, gave, chunk, length, Waker>>
objectsVars   == <<vars, Careful, use, mailboxVars, pipeVars>>

M == INSTANCE Mailbox
P == INSTANCE Pipe WITH put <- wrote, got <- gave, Thread <- Waker

ASSUME ObjectsAssumption == M!MailboxAssumption /\ P!PipeAssumption

-----------------------------------------------------------------------------
\* Of every object, an application that keeps few rules and one that keeps those
\* the wake-ups need.
Applications ==
  [semaphore |-> {{"kept"}, {"paced", "untimed", "calm", "kept"}},
   mailbox   |-> {{"single", "kept"}, {"single", "paced", "untimed", "calm", "kept"}},
   pipe      |-> {{"single", "calm", "kept"}, {"single", "paced", "alone", "untimed", "kept"}}]

ObjectsInit ==
  /\ use \in DOMAIN Applications
  /\ Careful \in Applications[use]
  /\ SchedInit /\ SemaphoreInit /\ M!BoxInit /\ P!PipeInit

ObjectsNext ==
  /\ UNCHANGED use
  /\ \/ use = "semaphore" /\ Next   /\ UNCHANGED <<mailboxVars, pipeVars>>
     \/ use = "mailbox"   /\ M!Next /\ UNCHANGED <<semaphoreVars, pipeVars>>
     \/ use = "pipe"      /\ P!Next /\ UNCHANGED <<semaphoreVars, mailboxVars>>

ObjectsSpec == ObjectsInit /\ [][ObjectsNext]_objectsVars

-----------------------------------------------------------------------------
\* Ready lists, semaphore, mailbox and pipe, and the locals of the calls, are what
\* the code takes them to be.
ObjectsTypeOK ==
  CASE use = "semaphore" -> TypeOK
    [] use = "mailbox"   -> M!TypeOK
    [] use = "pipe"      -> P!TypeOK

\* A polite application leaves the processor to threads, never to the head of an
\* empty list, and writes enter a reader into its ready list once, which its wait
\* takes it off (semaphore.c:275, mailbox.c:307, pipe.c:205, 284, kernel.c:399-409).
PoliteRuns ==
  /\ use = "semaphore" /\ Polite   => RunsAThread
  /\ use = "mailbox"   /\ M!Polite => RunsAThread
  /\ use = "pipe"      /\ P!Polite => RunsAThread /\ ReadyQueues

\* In a polite application wake-ups are neither lost nor made up: no unit, mail or
\* element is left beside a thread asleep, although mail_post and pipe_write look
\* for that thread unlocked, and a wait for ever ends with a unit (semaphore.c:181,
\* 278, 337, mailbox.c:381-393, pipe.c:194-205).
PoliteWakeups ==
  CASE use = "semaphore" -> NoLostPost /\ ForeverGetsAUnit
    [] use = "mailbox"   -> M!NoLostMail
    [] use = "pipe"      -> P!NoLostWrite

\* "round up to the next power of 2": a pipe that refuses an element holds as many
\* as it was asked for, or more (pipe.c:94-95).
PipeHolds == P!HoldsWhatWasAsked

\* Mailbox and pipe are queues of their size, in the order of the posts and writes:
\* nothing is lost, doubled or overtaken, however the unlocked copy of a write
\* interleaves with reads, and whatever timeouts and wake-ups do to the lists
\* (mailbox.c:364-378, pipe.c:176-192).
QueuesAreFifo == M!ImplementsFifo /\ P!ImplementsFifo
=============================================================================
