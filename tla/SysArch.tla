------------------------------ MODULE SysArch ------------------------------
(***************************************************************************)
(* The mailboxes ChinaOS lends to lwIP (nxp/lpc1768/ethernet/sys_arch.c):  *)
(* one thread, lwIP's own, fetches, the others post.  A post to a full     *)
(* mailbox is tried again and again by the thread that makes it.           *)
(*                                                                         *)
(* Posts and fetches are those of Mailbox, access by access, on its ready  *)
(* lists, its bitmap and its PendSV.                                       *)
(***************************************************************************)
EXTENDS Mailbox

CONSTANTS Posters, Reader      \* the threads that post, and lwIP's own

SysArchAssumption ==
  /\ MailboxAssumption
  /\ Posters \subseteq Threads /\ Reader \in Threads \ Posters

VARIABLE msg     \* the mail of the sys_mbox_post a thread is in, or NULL

archVars == <<vars, msg>>

ArchInit == Init /\ msg = [t \in Threads |-> NULL]

-----------------------------------------------------------------------------
\* sys_mbox_post, up to its first mail_post.
sys_mbox_post(t, m) ==
  /\ msg[t] = NULL
  /\ Post(t, m)
  /\ msg' = [msg EXCEPT ![t] = m]

\* Its loop: mail_post once more, when the last one was refused.
PostAgain(t) ==
  /\ Running(t) /\ pc[t] = "run" /\ msg[t] # NULL
  /\ Index' = [Index EXCEPT ![t] = After(Write)]
  /\ Message' = [Message EXCEPT ![t] = msg[t]]
  /\ pc' = [pc EXCEPT ![t] = "test"]
  /\ UNCHANGED <<list, OS_ActivePrio, OS_This, pend, timer, woken, box, Thread, msg>>

\* sys_mbox_trypost.
sys_mbox_trypost(t, m) ==
  /\ msg[t] = NULL
  /\ Post(t, m)
  /\ UNCHANGED msg

\* The accesses of mail_post; one that ends with the mail stored returns OK.
PostGoesOn(t) ==
  /\ PostTest(t) \/ PostClaim(t) \/ PostStore(t) \/ PostReady(t)
  /\ UNCHANGED msg

PostEndsOK(t) ==
  /\ PostLook(t) \/ PostReturns(t)
  /\ msg' = IF pc'[t] = "run" THEN [msg EXCEPT ![t] = NULL] ELSE msg

Posts(t) == PostAgain(t) \/ PostGoesOn(t) \/ PostEndsOK(t)

\* sys_arch_mbox_fetch and sys_arch_mbox_tryfetch: a try without a mail changes
\* nothing.
FetchNow   == Fetch(Reader) /\ UNCHANGED msg
FetchWaits == \E timed \in BOOLEAN : Wait(Reader, timed) /\ UNCHANGED msg
FetchEnds  == Resume(Reader) /\ UNCHANGED msg

sys_mbox_free(t) ==
  /\ \A u \in Threads : msg[u] = NULL
  /\ Free(t)
  /\ UNCHANGED <<Read, Write, Mail, put, got, accepted, locals, msg>>

-----------------------------------------------------------------------------
\* A thread reads from a pipe of its own, without a time limit, and an interrupt
\* handler writes to it once another thread, or idle, has the processor.
Away(t) ==
  /\ Calls(t) /\ msg[t] = NULL
  /\ list' = Off(t)
  /\ OS_ActivePrio' = Cleared(t)
  /\ pc' = [pc EXCEPT ![t] = "asleep"]
  /\ pend' = TRUE
  /\ UNCHANGED <<OS_This, timer, woken, box, locals, msg>>

Back(t) ==
  /\ pc[t] = "asleep" /\ t \in Sleepers /\ ~pend
  /\ MakeReady(t)
  /\ pend' = Scheduled(OS_ActivePrio')
  /\ UNCHANGED <<OS_This, timer, pc, box, locals, msg>>

AwayReturns(t) ==
  /\ Running(t) /\ pc[t] = "asleep"
  /\ woken' = woken \ {t}
  /\ pc' = [pc EXCEPT ![t] = "run"]
  /\ UNCHANGED <<list, OS_ActivePrio, OS_This, pend, timer, box, locals, msg>>

-----------------------------------------------------------------------------
ArchStep ==
  \/ KernelStep /\ UNCHANGED <<box, locals, msg>>
  \/ FetchNow \/ FetchWaits \/ FetchEnds
  \/ \E t \in Posters : \/ Posts(t)
                        \/ \E m \in Mails : sys_mbox_post(t, m) \/ sys_mbox_trypost(t, m)
  \/ \E t \in Threads : sys_mbox_free(t) \/ Away(t) \/ Back(t) \/ AwayReturns(t)

ArchNext == ArchStep /\ UNCHANGED Careful

ArchSpec == ArchInit /\ [][ArchNext]_<<archVars, Careful>>

\* PendSV is served, a pipe is written to in the end, and a thread that has the
\* processor time and again goes on with its call, lwIP's own with its loop of
\* fetches.
ArchFairness ==
  /\ WF_archVars(Shift /\ UNCHANGED <<box, locals, msg>>)
  /\ SF_archVars(FetchNow \/ FetchWaits) /\ WF_archVars(FetchEnds)
  /\ \A t \in Posters : SF_archVars(Posts(t))
  /\ \A t \in Threads : /\ WF_archVars(Switch(t) /\ UNCHANGED <<box, locals, msg>>)
                        /\ SF_archVars(Back(t)) /\ WF_archVars(AwayReturns(t))

-----------------------------------------------------------------------------
ArchTypeOK ==
  /\ SchedType({"run", "blocked", "waiting", "asleep"} \cup Posting)
  /\ Read \in Slots /\ Write \in Slots /\ Mail \in [Slots -> Mails \cup {NULL}]
  /\ msg \in [Threads -> Mails \cup {NULL}]
  /\ \A t \in Threads : msg[t] # NULL => t \in Posters /\ pc[t] \in {"run"} \cup Posting

\* A sys_mbox_post by t comes to its end.
PostEnds(t) == msg[t] # NULL ~> msg[t] = NULL

\* The mailbox does not lead a post less urgent than its reader to starve: whenever
\* it finds the mailbox full the reader, asleep or not, comes to take a mail.
LessUrgentPostsEnd ==
  \A t \in Posters : Priority[Reader] < Priority[t] => PostEnds(t)

\* "This function have to block until the msg is really posted", and then returns:
\* whoever posts (sys_arch.c:343).
EveryPostEnds == \A t \in Posters : PostEnds(t)
=============================================================================
