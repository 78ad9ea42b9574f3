-------------------------------- MODULE Can --------------------------------
(***************************************************************************)
(* The CAN driver (nxp/lpc1766/can/can.c, can0.c): threads that set up,    *)
(* send, receive and clean up, the interrupt handler that puts what        *)
(* arrives into a pipe, and what was sent as a mail into a mailbox of one, *)
(* and the controller, of which one transmit buffer and one receive buffer *)
(* are used.  A thread may sleep inside can_send or can_recv.              *)
(*                                                                         *)
(* The mailbox and the pipe are what Mailbox and Pipe implement: bounded   *)
(* queues that refuse when they are full.  Messages are numbered, those to *)
(* be sent in the order of the sends, those received as they arrive.       *)
(***************************************************************************)
EXTENDS Naturals, Sequences, FiniteSets

CONSTANTS Threads,
          Length,      \* elements of pRecvPipe; 8 in the code
          MaxSends,    \* bound: the sends
          MaxFrames,   \* bound: the messages that arrive
          Rules        \* what applications may take care of, one set for each

\* "alone": one thread sends at a time;
\* "asked": nothing is done with a device whose latest setup got no memory;
\* "quiet": the device is cleaned up while no thread is inside a call, and no
\*          call begins until that is done; the bus does what it wants.
Disciplines == {"alone", "asked", "quiet"}

ASSUME CanAssumption ==
  /\ Rules \subseteq SUBSET Disciplines
  /\ Length \in Nat \ {0} /\ MaxSends \in Nat /\ MaxFrames \in Nat

VARIABLES
  Careful,     \* what the application takes care of: never changes
  device,      \* "on" from setup() to the end of cleanup(), or "off"
  mode,        \* MOD of the controller: "reset" or "normal"
  memory,      \* what pRecvPipe and SendMailBox point to: "none", "live" or "freed"
  pipe, mail,  \* the messages in the pipe, the mails in the mailbox
  irq,         \* can_exception is registered
  tx, rx,      \* the transmit and the receive buffer; 0 when there is nothing
  flags,       \* ICR: {"RI", "TI"}
  pc, msg,     \* what a thread does, and the message it sends
  stale,       \* the threads inside a call on a pipe or mailbox that was freed
  sends, sent, \* the sends begun, and the messages that went out on the bus
  done,        \* the messages whose can_send returned OK
  arrived, got,\* the messages that arrived, and those can_recv returned
  touched,     \* who used freed memory: "gap", the handler during a cleanup, or "other"
  late         \* some send came to its time limit

objects  == <<memory, pipe, mail>>
hardware == <<mode, tx, rx, flags, sent, arrived>>
vars == <<Careful, device, objects, irq, hardware, pc, msg, stale, sends, done, got, touched, late>>

Init ==
  /\ Careful \in Rules
  /\ device = "off" /\ mode = "reset" /\ memory = [pipe |-> "none", mail |-> "none"]
  /\ pipe = << >> /\ mail = 0 /\ irq = FALSE
  /\ tx = 0 /\ rx = 0 /\ flags = {}
  /\ pc = [t \in Threads |-> "idle"] /\ msg = [t \in Threads |-> 0] /\ stale = {}
  /\ sends = 0 /\ sent = {} /\ done = {}
  /\ arrived = 0 /\ got = << >> /\ touched = {} /\ late = FALSE

Idle(t)    == pc[t] = "idle"
Inside     == {t \in Threads : pc[t] \in {"sending", "receiving"}}
Cleaning   == \E t \in Threads : pc[t] = "cleaning"
Goes(t, p) == pc' = [pc EXCEPT ![t] = p]

\* A call on the device may begin.
Usable == /\ device = "on"
          /\ "asked" \in Careful => irq
          /\ "quiet" \in Careful => ~Cleaning

\* A thread begins to wait on an object, or is through with it.
Enters(t, object) ==
  /\ stale' = stale \cup (IF memory[object] = "freed" THEN {t} ELSE {})
  /\ touched' = touched \cup (IF memory[object] = "freed" THEN {"other"} ELSE {})

-----------------------------------------------------------------------------
\* can_setup, with the memory the two allocations get: it gives up half way when
\* there is none, and what it did not come to keeps its value.
can_setup(got1, got2) ==
  /\ memory' = [pipe |-> CASE ~got1          -> memory.pipe
                           [] got1 /\ ~got2  -> "freed"      \* and still in pRecvPipe
                           [] got1 /\ got2   -> "live",
                mail |-> IF got1 /\ got2 THEN "live" ELSE memory.mail]
  /\ IF got1 /\ got2 THEN pipe' = << >> /\ mail' = 0 ELSE UNCHANGED <<pipe, mail>>
  /\ mode' = IF got1 /\ got2 THEN "normal" ELSE "reset"

\* can0_setup, which returns OK whatever can_setup said; the reset mode, in which
\* can_setup begins, drops what the controller was at.
Setup(t, got1, got2) ==
  /\ Idle(t) /\ ~irq /\ ~Cleaning
  /\ device' = "on"
  /\ can_setup(got1, got2)
  /\ irq' = (got1 /\ got2)
  /\ tx' = 0 /\ rx' = 0 /\ flags' = {}
  /\ UNCHANGED <<Careful, sent, arrived, pc, msg, stale, sends, done, got, touched>>

\* can_send, up to the wait for its mail.  What the controller does with a
\* message that is written over one it has not sent yet is not known.
Send(t) ==
  /\ Idle(t) /\ Usable /\ sends < MaxSends
  /\ "alone" \in Careful => \A u \in Threads : pc[u] # "sending"
  /\ sends' = sends + 1
  /\ mode' = "normal"
  /\ tx' \in {sends'} \cup ({tx} \ {0})
  /\ msg' = [msg EXCEPT ![t] = sends']
  /\ IF memory.mail = "none" THEN UNCHANGED pc ELSE Goes(t, "sending")
  /\ Enters(t, "mail")
  /\ UNCHANGED <<Careful, device, objects, irq, rx, flags, sent, arrived, done, got>>

\* mail_wait returns OK, and with it can_send.
SendReturns_Peek(t) ==
  /\ pc[t] = "sending" /\ t \notin stale /\ mail > 0
  /\ done' = done \cup {msg[t]}
  /\ Goes(t, "idle")
  /\ UNCHANGED <<Careful, device, objects, irq, hardware, msg, stale, sends, got, touched>>

SendReturns(t) ==
  /\ pc[t] = "sending" /\ t \notin stale /\ mail > 0
  /\ mail' = mail - 1
  /\ done' = done \cup {msg[t]}
  /\ Goes(t, "idle")
  /\ UNCHANGED <<Careful, device, memory, pipe, irq, hardware, msg, stale, sends, got, touched>>

\* mail_wait returns ERR_TIMEOUT, and with it can_send.
SendTimesOut(t) ==
  /\ late' = TRUE
  /\ pc[t] = "sending" /\ t \notin stale /\ mail = 0
  /\ Goes(t, "idle")
  /\ UNCHANGED <<Careful, device, objects, irq, hardware, msg, stale, sends, done, got, touched>>

Taken == pipe # << >> /\ got' = Append(got, Head(pipe)) /\ pipe' = Tail(pipe)

\* can_recv, when there is a message.
Recv(t) ==
  /\ Idle(t) /\ Usable
  /\ Taken
  /\ touched' = touched \cup (IF memory.pipe = "freed" THEN {"other"} ELSE {})
  /\ UNCHANGED <<Careful, device, memory, mail, irq, hardware, pc, msg, stale, sends, done>>

\* can_recv, up to the switch to another thread, when there is none.
RecvWaits(t) ==
  /\ Idle(t) /\ Usable /\ memory.pipe # "none" /\ pipe = << >>
  /\ Goes(t, "receiving")
  /\ Enters(t, "pipe")
  /\ UNCHANGED <<Careful, device, objects, irq, hardware, msg, sends, done, got>>

\* The rest of it, woken by pipe_write, or by its timer with or without a message.
RecvReturns(t) ==
  /\ pc[t] = "receiving" /\ t \notin stale
  /\ \/ Taken
     \/ pipe = << >> /\ UNCHANGED <<pipe, got>>
  /\ Goes(t, "idle")
  /\ UNCHANGED <<Careful, device, memory, mail, irq, hardware, msg, stale, sends, done, touched>>

\* A thread comes back to a pipe or a mailbox that was freed while it slept; what
\* it finds there is not known.
StaleReturns(t) ==
  /\ t \in stale
  /\ Goes(t, "idle")
  /\ stale' = stale \ {t}
  /\ touched' = touched \cup {"other"}
  /\ done' \in {done} \cup (IF pc[t] = "sending" THEN {done \cup {msg[t]}} ELSE {})
  /\ UNCHANGED <<Careful, device, objects, irq, hardware, msg, sends, got>>

\* can_cleanup: the memory is freed first, then the interrupt is unregistered.
Cleanup(t) ==
  /\ Idle(t) /\ Usable /\ ~Cleaning
  /\ "quiet" \in Careful => Inside = {}
  /\ memory' = [o \in {"pipe", "mail"} |-> IF memory[o] = "none" THEN "none" ELSE "freed"]
  /\ touched' = touched \cup (IF "freed" \in {memory.pipe, memory.mail} THEN {"other"} ELSE {})
  /\ stale' = stale \cup Inside
  /\ Goes(t, "cleaning")
  /\ UNCHANGED <<Careful, device, pipe, mail, irq, hardware, msg, sends, done, got>>

\* The end of it, and the power of the controller switched off.
CleanupEnds_Registered(t) ==
  /\ pc[t] = "cleaning"
  /\ device' = "off"
  /\ Goes(t, "idle")
  /\ UNCHANGED <<Careful, objects, irq, hardware, msg, stale, sends, done, got, touched>>

CleanupEnds(t) ==
  /\ pc[t] = "cleaning"
  /\ irq' = FALSE /\ device' = "off"
  /\ Goes(t, "idle")
  /\ UNCHANGED <<Careful, objects, hardware, msg, stale, sends, done, got, touched>>

-----------------------------------------------------------------------------
\* pipe_write of one message: it is lost when the pipe is full.
Written_Front(m)     == IF Len(pipe) < Length THEN <<m>> \o pipe ELSE pipe
Written(m)           == IF Len(pipe) < Length THEN Append(pipe, m) ELSE pipe

\* The mail that says that the transmit buffer was sent, unless there is one.
Mailed_Else == IF "TI" \in flags /\ "RI" \notin flags THEN 1 ELSE mail
Mailed      == IF "TI" \in flags THEN 1 ELSE mail

\* can_exception and can_handle.
can_handle ==
  /\ irq /\ flags # {}
  /\ flags' = {}
  /\ rx' = 0
  /\ pipe' = IF "RI" \in flags THEN Written(rx) ELSE pipe
  /\ mail' = Mailed
  /\ touched' = touched \cup
       (IF ("RI" \in flags /\ memory.pipe = "freed") \/ ("TI" \in flags /\ memory.mail = "freed")
        THEN {IF Cleaning THEN "gap" ELSE "other"} ELSE {})
  /\ UNCHANGED <<Careful, device, mode, memory, irq, tx, sent, arrived, pc, msg, stale, sends, done, got>>

\* The controller has power and has left its reset mode.
Works == device = "on" /\ mode = "normal"

\* The controller: the receive buffer takes a message when it is free.
Received ==
  /\ rx = 0 /\ arrived < MaxFrames
  /\ arrived' = arrived + 1 /\ rx' = arrived'

Transmit ==
  /\ Works /\ tx # 0
  /\ sent' = sent \cup {tx}
  /\ tx' = 0
  /\ \/ flags' = flags \cup {"TI"} /\ UNCHANGED <<rx, arrived>>
     \/ flags' = flags \cup {"TI", "RI"} /\ Received          \* self reception
  /\ UNCHANGED <<Careful, device, mode, objects, irq, pc, msg, stale, sends, done, got, touched>>

Frame ==
  /\ Works
  /\ Received
  /\ flags' = flags \cup {"RI"}
  /\ UNCHANGED <<Careful, device, mode, objects, irq, tx, sent, pc, msg, stale, sends, done, got, touched>>

Step ==
  \/ can_handle \/ Transmit \/ Frame
  \/ \E t \in Threads : \/ \E got1, got2 \in BOOLEAN : Setup(t, got1, got2)
                        \/ Send(t) \/ SendReturns(t)
                        \/ Recv(t) \/ RecvWaits(t) \/ RecvReturns(t) \/ StaleReturns(t)
                        \/ Cleanup(t) \/ CleanupEnds(t)

Next ==
  \/ Step /\ UNCHANGED late
  \/ \E t \in Threads : SendTimesOut(t)

Spec == Init /\ [][Next]_vars

\* The controller sends what it was told to, the interrupt is served, and a
\* thread whose mail is there comes to run.
FairSpec ==
  /\ Spec
  /\ WF_vars(Transmit /\ UNCHANGED late) /\ WF_vars(can_handle /\ UNCHANGED late)
  /\ \A t \in Threads : /\ WF_vars(SendReturns(t) /\ UNCHANGED late)
                        /\ WF_vars(CleanupEnds(t) /\ UNCHANGED late)

-----------------------------------------------------------------------------
TypeOK ==
  /\ Careful \subseteq Disciplines
  /\ device \in {"on", "off"} /\ mode \in {"reset", "normal"} /\ irq \in BOOLEAN
  /\ touched \subseteq {"gap", "other"} /\ late \in BOOLEAN
  /\ memory \in [{"pipe", "mail"} -> {"none", "live", "freed"}]
  /\ pipe \in Seq(1..MaxFrames) /\ Len(pipe) <= Length /\ mail \in 0..1
  /\ tx \in 0..MaxSends /\ rx \in 0..MaxFrames /\ flags \subseteq {"RI", "TI"}
  /\ "RI" \in flags <=> rx # 0
  /\ pc \in [Threads -> {"idle", "sending", "receiving", "cleaning"}]
  /\ msg \in [Threads -> 0..MaxSends] /\ stale \subseteq Inside

\* Once freed memory was used anything may be.
Sound == touched = {}

\* "Wait until the message has been sent": when can_send returns OK, its own
\* message has gone out, and not that of another send, as long as no send came to
\* its time limit, whenever the device is cleaned up and set up again (can.c:356-361).
SentIsSent ==
  {"alone", "asked"} \subseteq Careful /\ Sound => late \/ done \subseteq sent

\* Whatever sends timed out, there are no more sends that returned OK than
\* messages that went out: no completion is used twice.
NoMoreThanSent == Sound => Cardinality(done) <= Cardinality(sent)

\* Messages are received in the order they arrived, each at most once, through
\* the controller, the handler and the pipe (can.c:154-173, 382-402).
InOrder ==
  LET all == got \o pipe \o IF rx = 0 THEN << >> ELSE <<rx>>
  IN  TypeOK /\ (Sound => \A i, j \in DOMAIN all : i < j => all[i] < all[j])

\* No thread that sleeps in can_send or can_recv comes back to a pipe or a mailbox
\* that was freed, nothing is freed twice, and no interrupt finds freed memory, but
\* for one between the frees and the unregistering of a cleanup (can.c:274-297,
\* 356, 388, 423-425).
NotTouched == {"asked", "quiet"} \subseteq Careful => "other" \notin touched

\* A send comes back, whatever earlier ones left behind (can.c:358-361).
SendEnds ==
  Disciplines \subseteq Careful =>
    \A t \in Threads : pc[t] = "sending" ~> pc[t] = "idle" \/ ~Sound
=============================================================================
