------------------------------- MODULE Mailbox ------------------------------
(***************************************************************************)
(* ChinaOS/kernel/mailbox/mailbox.c: a mailbox of Size mails, the threads  *)
(* that fetch, wait and post, and an interrupt handler that posts.         *)
(*                                                                         *)
(* mail_post does not lock: a thread that posts does so one access at a    *)
(* time, an interrupt handler in one step.                                 *)
(***************************************************************************)
EXTENDS Blocking, Integers, Sequences

CONSTANTS Mails,
          Size,        \* of the mailbox: Mail[0..Size], of which one stays free
          MaxPosts     \* bound: mails accepted

VARIABLES
  Read, Write, Mail,
  put, got,            \* the mail the latest post stored, the latest read returned
  Index, Message, Thread,      \* locals of a mail_post by a thread
  accepted                     \* mails posted with OK, for the bound

box    == <<Read, Write, Mail, freed, put, got, accepted>>
locals == <<Index, Message, Thread>>
vars   == <<list, OS_ActivePrio, OS_This, pend, pc, timer, woken, freed,
            Read, Write, Mail, put, got, Index, Message, Thread, accepted>>

MailboxAssumption == Size \in Nat \ {0}

Slots   == 0..Size
Posting == {"test", "claim", "store", "look", "ready", "return"}

\* mailbox_new and mailbox_create.
BoxInit ==
  /\ Read = 0 /\ Write = 0 /\ Mail \in [Slots -> {NULL}]
  /\ put = <<>> /\ got = <<>>
  /\ Index = [t \in Threads |-> 0]
  /\ Message = [t \in Threads |-> NULL]
  /\ Thread = [t \in Threads |-> NULL]
  /\ accepted = 0

Init == SchedInit /\ BoxInit

\* The index behind i.
After(i) == IF i = Size THEN 0 ELSE i + 1

\* A thread that is inside mail_post and has not stored its mail yet.
InPost(u)    == pc[u] \in {"test", "claim", "store"}
Exclusive(t) == "single" \in Careful => \A u \in Threads \ {t} : ~InPost(u)
Forget(t)    == /\ Index' = [Index EXCEPT ![t] = 0]
                /\ Message' = [Message EXCEPT ![t] = NULL]
                /\ Thread' = [Thread EXCEPT ![t] = NULL]

-----------------------------------------------------------------------------
\* A mail is read (mail_fetch, and both halves of mail_wait).
Taken ==
  /\ Read' = After(Read)
  /\ got' = <<Mail[After(Read)]>>
  /\ UNCHANGED <<Write, Mail, freed, put, accepted>>

\* mail_fetch, and mail_wait when there is a mail.
Fetch(t) ==
  /\ Calls(t) /\ MayTake(t) /\ Exclusive(t)
  /\ Read # Write
  /\ Taken
  /\ UNCHANGED <<sched, locals>>

\* mail_wait without a mail: up to the unlock.
Wait(t, timed) ==
  /\ Calls(t) /\ MayTake(t)
  /\ Read = Write
  /\ timed => MayTime
  /\ list' = list_add(Off(t), t, WaitHead)
  /\ OS_ActivePrio' = Cleared(t)
  /\ timer' = [timer EXCEPT ![t] = IF timed THEN "armed" ELSE "off"]
  /\ pc' = [pc EXCEPT ![t] = "blocked"]
  /\ UNCHANGED <<OS_This, pend, woken, box, locals>>

\* The rest of mail_wait, once the thread runs again.
Resume(t) ==
  /\ Running(t) /\ pc[t] = "waiting" /\ Exclusive(t)
  /\ timer' = [timer EXCEPT ![t] = "off"]
  /\ list' = list_del(list, t)
  /\ woken' = woken \ {t}
  /\ pc' = [pc EXCEPT ![t] = "run"]
  /\ \/ Read = Write /\ UNCHANGED box               \* ERR_TIMEOUT
     \/ Read # Write /\ Taken
  /\ UNCHANGED <<OS_ActivePrio, OS_This, pend, locals>>

-----------------------------------------------------------------------------
FirstAsleep == list_empty(list, WaitHead) \/ Paced(list[WaitHead].next)

\* mail_post by a thread, access by access.
Post(t, m) ==
  /\ Calls(t) /\ Exclusive(t) /\ FirstAsleep
  /\ accepted < MaxPosts
  /\ Index' = [Index EXCEPT ![t] = After(Write)]
  /\ Message' = [Message EXCEPT ![t] = m]
  /\ pc' = [pc EXCEPT ![t] = "test"]
  /\ UNCHANGED <<list, OS_ActivePrio, OS_This, pend, timer, woken, box, Thread>>

PostTest(t) ==
  /\ Running(t) /\ pc[t] = "test"
  /\ \/ Index[t] = Read /\ pc' = [pc EXCEPT ![t] = "run"] /\ Forget(t)
     \/ Index[t] # Read /\ pc' = [pc EXCEPT ![t] = "claim"] /\ UNCHANGED locals
  /\ UNCHANGED <<list, OS_ActivePrio, OS_This, pend, timer, woken, box>>

PostClaim(t) ==
  /\ Running(t) /\ pc[t] = "claim"
  /\ Write' = Index[t]
  /\ accepted' = accepted + 1
  /\ pc' = [pc EXCEPT ![t] = "store"]
  /\ UNCHANGED <<list, OS_ActivePrio, OS_This, pend, timer, woken>>
  /\ UNCHANGED <<Read, Mail, freed, put, got, locals>>

PostStore(t) ==
  /\ Running(t) /\ pc[t] = "store"
  /\ Mail' = [Mail EXCEPT ![Index[t]] = Message[t]]
  /\ put' = <<Message[t]>>
  /\ pc' = [pc EXCEPT ![t] = "look"]
  /\ UNCHANGED <<list, OS_ActivePrio, OS_This, pend, timer, woken>>
  /\ UNCHANGED <<Read, Write, freed, got, accepted, locals>>

PostLook_Silent(t) ==
  /\ Running(t) /\ pc[t] = "look"
  /\ pc' = [pc EXCEPT ![t] = "run"]
  /\ Forget(t)
  /\ UNCHANGED <<list, OS_ActivePrio, OS_This, pend, timer, woken, box>>

PostLook(t) ==
  /\ Running(t) /\ pc[t] = "look"
  /\ \/ /\ list_empty(list, WaitHead)
        /\ pc' = [pc EXCEPT ![t] = "run"]
        /\ Forget(t)
     \/ /\ ~list_empty(list, WaitHead)
        /\ pc' = [pc EXCEPT ![t] = "ready"]
        /\ Thread' = [Thread EXCEPT ![t] = list[WaitHead].next]
        /\ UNCHANGED <<Index, Message>>
  /\ UNCHANGED <<list, OS_ActivePrio, OS_This, pend, timer, woken, box>>

PostReady(t) ==
  /\ Running(t) /\ pc[t] = "ready"
  /\ MakeReady(Thread[t])
  /\ pc' = [pc EXCEPT ![t] = "return"]
  /\ UNCHANGED <<OS_This, pend, timer, box, locals>>

PostReturns(t) ==
  /\ Running(t) /\ pc[t] = "return"
  /\ pend' = Scheduled(OS_ActivePrio)
  /\ pc' = [pc EXCEPT ![t] = "run"]
  /\ Forget(t)
  /\ UNCHANGED <<list, OS_ActivePrio, OS_This, timer, woken, box>>

\* mail_post called by an interrupt handler; a full mailbox refuses the mail.
PostFromInterrupt(m) ==
  /\ Exclusive(Idle) /\ ~freed /\ FirstAsleep
  /\ accepted < MaxPosts
  /\ After(Write) # Read
  /\ Write' = After(Write)
  /\ Mail' = [Mail EXCEPT ![After(Write)] = m]
  /\ put' = <<m>>
  /\ accepted' = accepted + 1
  /\ IF list_empty(list, WaitHead)
     THEN UNCHANGED <<list, OS_ActivePrio, woken, pend>>
     ELSE MakeReady(list[WaitHead].next) /\ pend' = Scheduled(OS_ActivePrio')
  /\ UNCHANGED <<OS_This, pc, timer, Read, freed, got, locals>>

ThreadPosts(t) ==
  \/ \E m \in Mails : Post(t, m)
  \/ PostTest(t) \/ PostClaim(t) \/ PostStore(t) \/ PostLook(t)
  \/ PostReady(t) \/ PostReturns(t)

Step ==
  \/ KernelStep /\ UNCHANGED <<box, locals>>
  \/ \E m \in Mails : PostFromInterrupt(m)
  \/ \E t \in Threads : \/ Fetch(t) \/ Resume(t) \/ ThreadPosts(t)
                        \/ Free(t) /\ UNCHANGED <<Read, Write, Mail, put, got, accepted, locals>>
                        \/ \E timed \in BOOLEAN : Wait(t, timed)

Next == Step /\ UNCHANGED Careful

Spec == Init /\ [][Next]_<<vars, Careful>>

-----------------------------------------------------------------------------
TypeOK ==
  /\ SchedType({"run", "blocked", "waiting"} \cup Posting)
  /\ Read \in Slots /\ Write \in Slots /\ Mail \in [Slots -> Mails \cup {NULL}]
  /\ Index \in [Threads -> Slots]
  /\ Message \in [Threads -> Mails \cup {NULL}]
  /\ Thread \in [Threads -> Node]

Count == (Write - Read) % (Size + 1)

\* Posts that are not interleaved and come when the reader sleeps, no time limits
\* and no other timers.
Polite == {"single", "paced", "untimed", "calm", "kept"} \subseteq Careful

\* While a thread of a polite application sleeps on the mailbox, every mail that is
\* there has a woken thread, or a mail_post on the way to wake one, coming for it
\* (mailbox.c:381-393).
NoLostMail ==
  Polite /\ Sleepers # {} =>
    Count <= Cardinality(woken) + Cardinality({t \in Threads : pc[t] \in {"store", "look", "ready"}})

\* The mails that were stored, oldest first; the last one may only be claimed.
Stored == Count - Cardinality({t \in Threads : pc[t] = "store"})
Queue  == INSTANCE Fifo WITH
            Data <- Mails, Capacity <- Size,
            queue <- [i \in 1..Stored |-> Mail[(Read + i) % (Size + 1)]]

\* The mailbox is a queue of Size mails: every mail comes out once, in the
\* order of the posts.
ImplementsFifo == Queue!FifoSpec
=============================================================================
