----------------------------- MODULE CanProofs ------------------------------
(***************************************************************************)
(* What can_send, can_recv and can_cleanup promise, for any threads, any   *)
(* number of messages and a bus that does what it wants: a send that       *)
(* returned OK sent its message, no two sends are answered by one message, *)
(* frames are read in the order they arrived, and nobody works on a pipe or*)
(* a mailbox that was freed.                                               *)
(***************************************************************************)
EXTENDS Can, FiniteSetTheorems, SequenceTheorems, TLAPS

\* Between the begin of a send and its return there is exactly one trace of its
\* message: in the transmit buffer, then as a flag, then as a mail.  Without it
\* a mail that is there would say nothing of which message went out.
Sending(t) == pc[t] = "sending"

OneSender ==
  /\ pc \in [Threads -> {"idle", "sending", "receiving", "cleaning"}]
  /\ msg \in [Threads -> Nat] /\ sends \in Nat /\ mail \in {0, 1}
  /\ \A t, u \in Threads : Sending(t) /\ Sending(u) => t = u

Trace ==
  /\ tx # 0 \/ mail # 0 \/ "TI" \in flags => \E t \in Threads : Sending(t)
  /\ tx # 0 => mail = 0 /\ "TI" \notin flags
  /\ mail # 0 => "TI" \notin flags
  /\ \A t \in Threads : Sending(t) =>
       /\ tx # 0 => tx = msg[t]
       /\ mail # 0 \/ "TI" \in flags => msg[t] \in sent

SInv == OneSender /\ Trace /\ done \subseteq sent

\* Before the first send there is no trace.
LEMMA InitSInv == Init => SInv
BY DEF Init, SInv, OneSender, Trace, Sending

\* On a device whose setup got its memory nobody finds the mailbox missing.
Asked == irq => memory.pipe # "none" /\ memory.mail # "none"

\* A send starts with no trace of an earlier one left, as nobody else is sending.
LEMMA SendSInv ==
  ASSUME {"alone", "asked"} \subseteq Careful, SInv, Asked, NEW t \in Threads, Send(t)
  PROVE  SInv'
<1>1. tx = 0 /\ mail = 0 /\ "TI" \notin flags
  BY DEF SInv, Trace, Send, Idle, Sending
<1>2. tx' = sends' /\ sends' = sends + 1 /\ msg' = [msg EXCEPT ![t] = sends']
  BY <1>1 DEF Send
<1>3. pc' = [pc EXCEPT ![t] = "sending"] /\ \A u \in Threads : ~Sending(u)
  <2>1. memory.mail # "none"
    BY DEF Send, Usable, Asked
  <2> QED
    BY <2>1 DEF Send, Goes, Sending
<1>4. UNCHANGED <<mail, flags, sent, done>>
  BY DEF Send, objects
<1>5. OneSender'
  BY <1>2, <1>3, <1>4 DEF SInv, OneSender, Sending
<1>6. Trace'
  BY <1>1, <1>2, <1>3, <1>4 DEF SInv, OneSender, Trace, Sending
<1> QED
  BY <1>4, <1>5, <1>6 DEF SInv

\* A send returns on the mail of its own message.
LEMMA SendReturnsSInv ==
  ASSUME SInv, NEW t \in Threads, SendReturns(t)
  PROVE  SInv'
<1>1. /\ Sending(t) /\ mail = 1 /\ mail' = 0
      /\ pc' = [pc EXCEPT ![t] = "idle"] /\ done' = done \cup {msg[t]}
      /\ UNCHANGED <<tx, flags, sent, msg, sends>>
  BY DEF SendReturns, Goes, hardware, Sending, SInv, OneSender
<1>2. tx = 0 /\ "TI" \notin flags /\ msg[t] \in sent
  BY <1>1 DEF SInv, Trace
<1>3. OneSender'
  BY <1>1 DEF SInv, OneSender, Sending
<1>4. Trace'
  BY <1>1, <1>2 DEF Trace
<1> QED
  BY <1>1, <1>2, <1>3, <1>4 DEF SInv

\* The handler turns the flag into the mail.
LEMMA HandleSInv ==
  ASSUME SInv, can_handle
  PROVE  SInv'
<1>1. /\ flags' = {} /\ UNCHANGED <<tx, sent, pc, msg, sends, done>>
      /\ mail' = IF "TI" \in flags THEN 1 ELSE mail
  BY DEF can_handle, Mailed
<1>2. OneSender'
  BY <1>1 DEF SInv, OneSender, Sending
<1>3. Trace'
  BY <1>1 DEF SInv, Trace, Sending
<1> QED
  BY <1>1, <1>2, <1>3 DEF SInv

\* The controller turns the message in the transmit buffer into the flag.
LEMMA TransmitSInv ==
  ASSUME SInv, Transmit
  PROVE  SInv'
<1>1. /\ tx # 0 /\ tx' = 0 /\ sent' = sent \cup {tx} /\ "TI" \in flags'
      /\ UNCHANGED <<mail, pc, msg, sends, done>>
  BY DEF Transmit, objects
<1>2. mail = 0 /\ \A t \in Threads : Sending(t) => tx = msg[t]
  BY <1>1 DEF SInv, Trace
<1>3. OneSender'
  BY <1>1 DEF SInv, OneSender, Sending
<1>4. Trace'
  BY <1>1, <1>2 DEF SInv, Trace, Sending
<1> QED
  BY <1>1, <1>3, <1>4 DEF SInv

\* Steps of threads that do not send, with a trace or, after a setup, without one.
LEMMA QuietSInv ==
  ASSUME SInv, NEW t \in Threads, ~Sending(t),
         \/ UNCHANGED pc
         \/ \E to \in {"idle", "receiving", "cleaning"} : pc' = [pc EXCEPT ![t] = to],
         UNCHANGED <<msg, sends, sent, done>>, mail' \in {0, mail},
         UNCHANGED <<tx, flags>> \/ (tx' = 0 /\ flags' = {})
  PROVE  SInv'
<1>1. /\ \A u \in Threads : Sending(u)' <=> Sending(u)
      /\ pc' \in [Threads -> {"idle", "sending", "receiving", "cleaning"}]
  <2>1. CASE UNCHANGED pc
    BY <2>1 DEF SInv, OneSender, Sending
  <2>2. CASE \E to \in {"idle", "receiving", "cleaning"} : pc' = [pc EXCEPT ![t] = to]
    <3>1. PICK to \in {"idle", "receiving", "cleaning"} : pc' = [pc EXCEPT ![t] = to]
      BY <2>2
    <3> QED
      BY <3>1 DEF SInv, OneSender, Sending
  <2> QED
    BY <2>1, <2>2
<1>2. OneSender'
  BY <1>1 DEF SInv, OneSender
<1>3. Trace'
  BY <1>1 DEF SInv, OneSender, Trace
<1> QED
  BY <1>2, <1>3 DEF SInv

\* What has nothing to do with sending.
LEMMA OtherSInv ==
  ASSUME SInv, UNCHANGED <<mail, tx, pc, msg, sends, sent, done>>,
         "TI" \in flags' <=> "TI" \in flags
  PROVE  SInv'
BY DEF SInv, OneSender, Trace, Sending

\* Every step keeps one trace per send, until freed memory is used.
LEMMA StepSInv ==
  ASSUME {"alone", "asked"} \subseteq Careful, SInv, Asked, Step
  PROVE  SInv' \/ ~Sound'
<1>1. CASE Frame
  BY <1>1, OtherSInv DEF Frame, objects
<1>2. ASSUME NEW t \in Threads, NEW got1 \in BOOLEAN, NEW got2 \in BOOLEAN, Setup(t, got1, got2)
      PROVE  SInv'
  <2>1. /\ ~Sending(t) /\ tx' = 0 /\ flags' = {} /\ UNCHANGED <<pc, msg, sends, sent, done>>
        /\ mail' \in {0, mail}
    BY <1>2 DEF Setup, can_setup, Idle, Sending
  <2> QED
    BY <2>1, QuietSInv
<1>3. ASSUME NEW t \in Threads,
             Recv(t) \/ RecvWaits(t) \/ RecvReturns(t) \/ Cleanup(t) \/ CleanupEnds(t)
      PROVE  SInv'
  <2>1. /\ ~Sending(t) /\ UNCHANGED <<tx, flags, msg, sends, sent, done, mail>>
        /\ \/ UNCHANGED pc
           \/ \E to \in {"idle", "receiving", "cleaning"} : pc' = [pc EXCEPT ![t] = to]
    BY <1>3 DEF Recv, RecvWaits, RecvReturns, Cleanup, CleanupEnds, Goes, Idle, Sending,
                objects, hardware
  <2> QED
    BY <2>1, QuietSInv
<1>4. ASSUME NEW t \in Threads, StaleReturns(t)
      PROVE  ~Sound'
  BY <1>4 DEF StaleReturns, Sound
<1> QED
  BY <1>1, <1>2, <1>3, <1>4, HandleSInv, TransmitSInv, SendSInv, SendReturnsSInv DEF Step

\* A setup that succeeds, and nothing else, makes the pointers and registers.
LEMMA NextAsked ==
  ASSUME Asked, [Next]_vars
  PROVE  Asked'
<1>1. \/ UNCHANGED <<memory, irq>>
      \/ irq' = FALSE
      \/ \E t \in Threads, got1, got2 \in BOOLEAN : Setup(t, got1, got2)
      \/ \E t \in Threads : Cleanup(t)
  BY DEF Next, Step, Send, SendReturns, SendTimesOut, Recv, RecvWaits, RecvReturns, StaleReturns,
         CleanupEnds, can_handle, Transmit, Frame, vars, objects
<1>2. ASSUME NEW t \in Threads, NEW got1 \in BOOLEAN, NEW got2 \in BOOLEAN, Setup(t, got1, got2)
      PROVE  Asked'
  BY <1>2 DEF Setup, can_setup, Asked
<1>3. ASSUME NEW t \in Threads, Cleanup(t)
      PROVE  Asked'
  BY <1>3 DEF Cleanup, Asked
<1> QED
  BY <1>1, <1>2, <1>3 DEF Asked

\* A time limit or a use of freed memory ends what is promised; nothing takes it back.
SInvUntil == Asked /\ ({"alone", "asked"} \subseteq Careful /\ Sound => late \/ SInv)

LEMMA NextSInv ==
  ASSUME SInvUntil, [Next]_vars
  PROVE  SInvUntil'
<1>1. Asked'
  BY NextAsked DEF SInvUntil
<1>2. UNCHANGED Careful /\ (late => late') /\ (Sound' => Sound)
  BY DEF Next, Step, Setup, Send, Enters, SendReturns, SendTimesOut, Recv, RecvWaits, RecvReturns,
         StaleReturns, Cleanup, CleanupEnds, can_handle, Transmit, Frame, vars, Sound
<1>3. CASE UNCHANGED vars
  BY <1>1, <1>2, <1>3, OtherSInv DEF vars, objects, hardware, SInvUntil
<1>4. CASE Step /\ UNCHANGED late
  BY <1>1, <1>2, <1>4, StepSInv DEF SInvUntil
<1>5. ASSUME NEW t \in Threads, SendTimesOut(t)
      PROVE  late'
  BY <1>5 DEF SendTimesOut
<1> QED
  BY <1>1, <1>3, <1>4, <1>5 DEF Next, SInvUntil

\* When can_send returns OK its message is out: for every set of threads that send
\* one at a time on a device whose setup got its memory, however receptions, self
\* receptions, interrupts, cleanups and further setups come in between, until a send
\* comes to its time limit or freed memory is used (can.c:154-181, 321-362).
THEOREM CanSentIsSent == Spec => []SentIsSent
<1>1. Init => SInvUntil
  BY InitSInv DEF Init, Asked, SInvUntil
<1>2. SInvUntil /\ [Next]_vars => SInvUntil'
  BY NextSInv
<1>3. SInvUntil => SentIsSent
  BY DEF SInvUntil, SInv, SentIsSent
<1> QED
  BY <1>1, <1>2, <1>3, PTL DEF Spec

-----------------------------------------------------------------------------
\* What is in the transmit buffer has not gone out yet, and every completion not
\* used up by a send, as a flag or as a mail, stands for a message of its own that
\* went out.  It holds whoever sends, and whatever comes to its time limit.
Pending == IF "TI" \in flags THEN mail + 1 ELSE mail

Fresh ==
  /\ sends \in Nat /\ mail \in 0..1
  /\ tx \in 0..sends /\ tx \notin sent /\ sent \subseteq 1..sends
  /\ pc \in [Threads -> {"idle", "sending", "receiving", "cleaning"}]
  /\ IsFiniteSet(done) /\ IsFiniteSet(sent)

Paid == Cardinality(done) + Pending <= Cardinality(sent)

CInv == Fresh /\ Paid

\* At the start nothing is sent and nothing is pending.
LEMMA InitCInv == Init => CInv
<1> SUFFICES ASSUME Init PROVE CInv
  OBVIOUS
<1>1. Cardinality({}) = 0 /\ IsFiniteSet({})
  BY FS_EmptySet
<1> QED
  BY <1>1 DEF Init, CInv, Fresh, Paid, Pending

\* What is done and what is sent can be counted.
LEMMA CardinalitiesCInv ==
  ASSUME Fresh
  PROVE  Cardinality(done) \in Nat /\ Cardinality(sent) \in Nat
BY FS_CardinalityType DEF Fresh

\* So can the traces that are pending.
LEMMA PendingType ==
  ASSUME mail \in 0..1, mail' \in 0..1
  PROVE  Pending \in Nat /\ Pending' \in Nat
<1>1. \A x \in 0..1 : x \in Nat /\ x + 1 \in Nat
  OBVIOUS
<1> QED
  BY <1>1, Zenon DEF Pending

\* The steps that neither send nor complete anything.
LEMMA OtherCInv ==
  ASSUME CInv, UNCHANGED <<sends, sent, done>>, tx' \in {0, tx}, mail' \in 0..1,
         pc' \in [Threads -> {"idle", "sending", "receiving", "cleaning"}], Pending' <= Pending
  PROVE  CInv'
<1>1. Fresh'
  BY DEF CInv, Fresh
<1>2. Pending \in Nat /\ Pending' \in Nat
  BY PendingType DEF CInv, Fresh
<1> QED
  BY <1>1, <1>2, CardinalitiesCInv DEF CInv, Paid

\* A send starts a message with a new number, or fails before it does.
LEMMA SendCInv ==
  ASSUME CInv, NEW t \in Threads, Send(t)
  PROVE  CInv'
<1>1. /\ sends' = sends + 1 /\ tx' \in {sends'} \cup ({tx} \ {0})
      /\ UNCHANGED <<mail, flags, sent, done>>
      /\ pc' = pc \/ pc' = [pc EXCEPT ![t] = "sending"]
  BY DEF Send, Goes, objects
<1>2. Fresh'
  BY <1>1 DEF CInv, Fresh
<1> QED
  BY <1>1, <1>2 DEF CInv, Paid, Pending

\* A mail pays for the send that returns on it.
LEMMA SendReturnsCInv ==
  ASSUME CInv, NEW t \in Threads, SendReturns(t)
  PROVE  CInv'
<1>1. /\ mail = 1 /\ mail' = 0 /\ done' = done \cup {msg[t]}
      /\ pc' = [pc EXCEPT ![t] = "idle"]
      /\ UNCHANGED <<tx, flags, sent, sends>>
  BY DEF SendReturns, Goes, hardware, CInv, Fresh
<1>2. /\ IsFiniteSet(done')
      /\ Cardinality(done') = Cardinality(done) \/ Cardinality(done') = Cardinality(done) + 1
  BY <1>1, FS_AddElement DEF CInv, Fresh
<1>3. Fresh'
  BY <1>1, <1>2 DEF CInv, Fresh
<1>4. Pending = 1 + Pending' /\ Pending' \in Nat
  BY <1>1 DEF Pending
<1> QED
  BY <1>1, <1>2, <1>3, <1>4, CardinalitiesCInv DEF CInv, Paid

\* A message that goes out pays for the flag it raises.
LEMMA TransmitCInv ==
  ASSUME CInv, Transmit
  PROVE  CInv'
<1>1. /\ tx # 0 /\ tx' = 0 /\ sent' = sent \cup {tx}
      /\ UNCHANGED <<mail, pc, sends, done>>
  BY DEF Transmit, objects
<1>2. IsFiniteSet(sent') /\ Cardinality(sent') = Cardinality(sent) + 1
  BY <1>1, FS_AddElement DEF CInv, Fresh
<1>3. Fresh'
  BY <1>1, <1>2 DEF CInv, Fresh
<1>4. Pending' <= Pending + 1 /\ Pending \in Nat /\ Pending' \in Nat
  BY <1>1 DEF Pending, CInv, Fresh
<1> QED
  BY <1>1, <1>2, <1>3, <1>4, CardinalitiesCInv DEF CInv, Paid

\* Every step keeps done and pending paid for by messages that are out, until a
\* thread comes back to a mailbox that was freed.
LEMMA NextCInv ==
  ASSUME CInv, [Next]_vars
  PROVE  CInv' \/ ~Sound'
<1> USE DEF Pending
<1>1. CASE UNCHANGED vars
  BY <1>1, OtherCInv DEF vars, objects, hardware, CInv, Fresh
<1>2. CASE can_handle
  BY <1>2, OtherCInv DEF can_handle, Mailed, CInv, Fresh
<1>3. CASE Frame
  BY <1>3, OtherCInv DEF Frame, objects, CInv, Fresh
<1>4. ASSUME NEW t \in Threads, NEW got1 \in BOOLEAN, NEW got2 \in BOOLEAN, Setup(t, got1, got2)
      PROVE  CInv'
  <2>1. /\ tx' = 0 /\ flags' = {} /\ mail' \in {0, mail}
        /\ UNCHANGED <<pc, sends, sent, done>>
    BY <1>4 DEF Setup, can_setup
  <2> QED
    BY <2>1, OtherCInv DEF CInv, Fresh
<1>5. ASSUME NEW t \in Threads,
             \/ Recv(t) \/ RecvWaits(t) \/ RecvReturns(t)
             \/ Cleanup(t) \/ CleanupEnds(t) \/ SendTimesOut(t)
      PROVE  CInv'
  <2>1. /\ UNCHANGED <<tx, flags, mail, sends, sent, done>>
        /\ \/ UNCHANGED pc
           \/ \E to \in {"idle", "receiving", "cleaning"} : pc' = [pc EXCEPT ![t] = to]
    BY <1>5 DEF Recv, RecvWaits, RecvReturns, Cleanup, CleanupEnds, SendTimesOut, Goes,
                objects, hardware
  <2>2. pc' \in [Threads -> {"idle", "sending", "receiving", "cleaning"}]
    BY <2>1 DEF CInv, Fresh
  <2> QED
    BY <2>1, <2>2, OtherCInv DEF CInv, Fresh
<1>6. ASSUME NEW t \in Threads, StaleReturns(t)
      PROVE  ~Sound'
  BY <1>6 DEF StaleReturns, Sound
<1> QED
  BY <1>1, <1>2, <1>3, <1>4, <1>5, <1>6, TransmitCInv, SendCInv, SendReturnsCInv DEF Next, Step

\* What was used of freed memory stays on record.
LEMMA SoundBefore ==
  ASSUME [Next]_vars, Sound'
  PROVE  Sound
BY DEF Next, Step, Setup, Send, Enters, SendReturns, SendTimesOut, Recv, RecvWaits, RecvReturns,
       StaleReturns, Cleanup, CleanupEnds, can_handle, Transmit, Frame, vars, Sound

\* No more sends return OK than messages went out: no completion is used twice, for
\* every set of threads, however many send at once, whether or not a send came to its
\* time limit and left its completion to a later one (can.c:154-181, 321-362).
THEOREM CanNoMoreThanSent == Spec => []NoMoreThanSent
<1>1. CInv => NoMoreThanSent
  <2> SUFFICES ASSUME CInv PROVE NoMoreThanSent
    OBVIOUS
  <2>1. Pending \in Nat
    BY DEF CInv, Fresh, Pending
  <2> QED
    BY <2>1, CardinalitiesCInv DEF CInv, Paid, NoMoreThanSent
<1> DEFINE Until == Sound => CInv
<1>2. Until /\ [Next]_vars => Until'
  BY NextCInv, SoundBefore
<1>3. Init => Until
  BY InitCInv
<1>4. Until => NoMoreThanSent
  BY <1>1 DEF NoMoreThanSent
<1> HIDE DEF Until
<1> QED
  BY <1>2, <1>3, <1>4, PTL DEF Spec

-----------------------------------------------------------------------------
\* The messages on their way from the bus to can_recv, oldest first, are numbered
\* upwards, and none of them has a number that did not arrive yet.
Passed == got \o pipe

Rising(s) == \A i, j \in 1..Len(s) : i < j => s[i] < s[j]

OInv ==
  /\ TypeOK
  /\ sends \in 0..MaxSends /\ arrived \in 0..MaxFrames
  /\ got \in Seq(1..MaxFrames)
  /\ Rising(Passed) /\ rx <= arrived
  /\ \A i \in 1..Len(Passed) : Passed[i] <= arrived /\ (rx # 0 => Passed[i] < rx)

\* At the start nothing has arrived.
LEMMA InitOInv == Init => OInv
<1> SUFFICES ASSUME Init PROVE OInv
  OBVIOUS
<1>1. /\ pipe = << >> /\ got = << >> /\ tx = 0 /\ rx = 0 /\ arrived = 0 /\ sends = 0
      /\ Len(pipe) = 0 /\ Len(got) = 0
  BY DEF Init
<1>2. Len(Passed) = 0
  BY <1>1 DEF Passed
<1>3. 0 \in 0..1 /\ 0 \in 0..MaxSends /\ 0 \in 0..MaxFrames /\ 0 <= Length
  BY CanAssumption
<1>4. memory \in [{"pipe", "mail"} -> {"none", "live", "freed"}]
  BY DEF Init
<1>5. pipe \in Seq(1..MaxFrames) /\ got \in Seq(1..MaxFrames) /\ Len(pipe) <= Length
  BY <1>1, <1>3
<1>6. /\ pc \in [Threads -> {"idle", "sending", "receiving", "cleaning"}]
      /\ msg \in [Threads -> 0..MaxSends] /\ stale \subseteq Inside
      /\ Careful \subseteq Disciplines /\ touched \subseteq {"gap", "other"}
  BY <1>3, CanAssumption DEF Init
<1>7. TypeOK
  BY <1>3, <1>4, <1>5, <1>6, Zenon DEF Init, TypeOK
<1> QED
  BY <1>1, <1>2, <1>3, <1>5, <1>7 DEF OInv, Rising

\* What passed the interrupt is a sequence of frames.
LEMMA PassedType ==
  ASSUME OInv
  PROVE  Passed \in Seq(1..MaxFrames) /\ Passed \in Seq(Nat)
<1>1. got \in Seq(1..MaxFrames) /\ pipe \in Seq(1..MaxFrames)
  BY DEF OInv, TypeOK
<1>2. Passed \in Seq(1..MaxFrames)
  BY <1>1, ConcatProperties DEF Passed
<1>3. Len(Passed) \in Nat /\ Passed \in [1..Len(Passed) -> 1..MaxFrames]
  BY <1>2, LenProperties
<1>4. Passed \in [1..Len(Passed) -> Nat]
  BY <1>3
<1>5. Passed \in UNION {[1..n -> Nat] : n \in Nat}
  BY <1>3, <1>4
<1> QED
  BY <1>2, <1>5, SeqDef

\* What a message appended to a rising sequence keeps.
LEMMA AppendRising ==
  ASSUME NEW s \in Seq(Nat), NEW m \in Nat, Rising(s), \A i \in 1..Len(s) : s[i] < m
  PROVE  Rising(Append(s, m))
BY DEF Rising

\* Taking the oldest message out of the pipe changes nothing of the whole.
LEMMA TakenPassed ==
  ASSUME NEW S, NEW a \in Seq(S), NEW b \in Seq(S), b # << >>
  PROVE  /\ Append(a, Head(b)) \o Tail(b) = a \o b
         /\ Append(a, Head(b)) \in Seq(S) /\ Tail(b) \in Seq(S)
         /\ Len(Tail(b)) = Len(b) - 1
BY SMTT(30)

\* A frame written behind the pipe is written behind all that passed.
LEMMA WrittenPassed ==
  ASSUME NEW S, NEW a \in Seq(S), NEW b \in Seq(S), NEW m \in S
  PROVE  a \o Append(b, m) = Append(a \o b, m)
BY SMTT(30)

\* The steps on the way of a message, and those that have nothing to do with it.
LEMMA ReceivedOInv ==
  ASSUME OInv, Received, UNCHANGED <<pipe, got, sends>>, "RI" \in flags', TypeOK'
  PROVE  OInv'
<1>1. rx = 0 /\ arrived' = arrived + 1 /\ rx' = arrived' /\ arrived < MaxFrames
  BY DEF Received
<1>2. Passed' = Passed
  BY DEF Passed
<1>3. \A i \in 1..Len(Passed) : Passed[i] \in Nat
  BY PassedType, ElementOfSeq
<1> QED
  BY <1>1, <1>2, <1>3, CanAssumption DEF OInv

\* A step that moves no frame keeps the order.
LEMMA OtherOInv ==
  ASSUME OInv, TypeOK', sends' \in 0..MaxSends, rx' \in {0, rx}, UNCHANGED <<pipe, got, arrived>>
  PROVE  OInv'
<1>1. Passed' = Passed
  BY DEF Passed
<1> QED
  BY <1>1 DEF OInv

\* A reception moves the oldest frame from the pipe to the reader.
LEMMA RecvOInv ==
  ASSUME OInv, TypeOK', Taken, UNCHANGED <<rx, arrived, sends>>
  PROVE  OInv'
<1>1. /\ got' = Append(got, Head(pipe)) /\ pipe' = Tail(pipe) /\ pipe # << >>
      /\ UNCHANGED <<rx, arrived, sends>>
  BY DEF Taken
<1>2. Passed' = Passed /\ got' \in Seq(1..MaxFrames)
  <2>1. got \in Seq(1..MaxFrames) /\ pipe \in Seq(1..MaxFrames)
    BY DEF OInv, TypeOK
  <2>2. /\ Append(got, Head(pipe)) \o Tail(pipe) = got \o pipe
        /\ Append(got, Head(pipe)) \in Seq(1..MaxFrames)
    BY <1>1, <2>1, TakenPassed, ZenonT(30)
  <2> QED
    BY <2>2, <1>1 DEF Passed
<1> QED
  BY <1>1, <1>2 DEF OInv

\* A setup that gets its memory starts with an empty pipe.
LEMMA EmptiedOInv ==
  ASSUME OInv, TypeOK', rx' = 0, pipe' = << >>, UNCHANGED <<got, arrived, sends>>
  PROVE  OInv'
<1> DEFINE Numbers == 1..MaxFrames
<1>1. got \in Seq(Numbers) /\ pipe \in Seq(Numbers)
  BY DEF OInv, TypeOK
<1>2. /\ Passed' = got /\ Len(got) \in Nat /\ Len(Passed) = Len(got) + Len(pipe)
      /\ \A i \in 1..Len(got) : Passed[i] = got[i]
  <2> HIDE DEF Numbers
  <2>1. got \o << >> = got
    BY <1>1
  <2> QED
    BY <1>1, <2>1, LenProperties, ConcatProperties DEF Passed
<1>3. Len(pipe) \in Nat /\ 1..Len(got) \subseteq 1..Len(Passed)
  BY <1>1, <1>2, LenProperties
<1>4. Rising(got) /\ \A i \in 1..Len(got) : got[i] <= arrived
  BY <1>2, <1>3 DEF OInv, Rising
<1> QED
  BY <1>1, <1>2, <1>4 DEF OInv

\* The handler takes the message out of the receive buffer, into the pipe or, when
\* that is full, away.
LEMMA HandleOInv ==
  ASSUME OInv, TypeOK', can_handle
  PROVE  OInv'
<1>1. /\ rx' = 0 /\ pipe' = IF "RI" \in flags THEN Written(rx) ELSE pipe
      /\ UNCHANGED <<arrived, sends, got>>
  BY DEF can_handle
<1>2. CASE pipe' = pipe
  BY <1>1, <1>2, OtherOInv DEF OInv
<1>3. CASE pipe' = Append(pipe, rx) /\ "RI" \in flags
  <2>1. rx \in 1..MaxFrames
    BY <1>3 DEF OInv, TypeOK
  <2>2. Passed' = Append(Passed, rx)
    <3> DEFINE Numbers == 1..MaxFrames
    <3>1. got \in Seq(Numbers) /\ pipe \in Seq(Numbers) /\ rx \in Numbers
      BY <2>1 DEF OInv, TypeOK
    <3> HIDE DEF Numbers
    <3>2. got \o Append(pipe, rx) = Append(got \o pipe, rx)
      BY <3>1, WrittenPassed
    <3> QED
      BY <1>1, <1>3, <3>2 DEF Passed
  <2>3. Passed \in Seq(Nat) /\ \A i \in 1..Len(Passed) : Passed[i] < rx
    BY <2>1, PassedType DEF OInv
  <2>4. Rising(Passed')
    BY <2>1, <2>2, <2>3, AppendRising DEF OInv
  <2>5. \A i \in 1..Len(Passed') : Passed'[i] <= arrived'
    BY <1>1, <2>1, <2>2 DEF OInv
  <2> QED
    BY <1>1, <2>4, <2>5 DEF OInv
<1> QED
  BY <1>1, <1>2, <1>3 DEF Written

\* The types, which the order needs for the buffers it goes through: first those of
\* the threads and of who used what.
LEMMA NextThreadTypes ==
  ASSUME OInv, [Next]_vars
  PROVE  /\ pc' \in [Threads -> {"idle", "sending", "receiving", "cleaning"}]
         /\ stale' \subseteq Inside' /\ Careful' \subseteq Disciplines
         /\ touched' \subseteq {"gap", "other"} /\ late' \in BOOLEAN
<1>1. UNCHANGED Careful /\ late' \in {late, TRUE}
  BY DEF Next, Step, Setup, Send, SendReturns, SendTimesOut, Recv, RecvWaits, RecvReturns,
         StaleReturns, Cleanup, CleanupEnds, can_handle, Transmit, Frame, vars
<1>2. touched' \subseteq touched \cup {"gap", "other"}
  BY DEF Next, Step, Setup, Send, Enters, SendReturns, SendTimesOut, Recv, RecvWaits, RecvReturns,
         StaleReturns, Cleanup, CleanupEnds, can_handle, Transmit, Frame, vars
<1>3. \/ UNCHANGED <<pc, stale>>
      \/ \E t \in Threads : /\ t \notin Inside /\ pc' = [pc EXCEPT ![t] = "idle"] /\ stale' = stale
      \/ \E t \in Threads : /\ stale' = stale \ {t} /\ pc' = [pc EXCEPT ![t] = "idle"]
      \/ \E t \in Threads, to \in {"sending", "receiving"} :
           stale' \subseteq stale \cup {t} /\ pc' = [pc EXCEPT ![t] = to]
      \/ \E t \in Threads :
           t \notin Inside /\ stale' \subseteq Inside /\ pc' = [pc EXCEPT ![t] = "cleaning"]
  <2>1. CASE can_handle \/ Transmit \/ Frame \/ UNCHANGED vars
    BY <2>1 DEF can_handle, Transmit, Frame, vars
  <2>2. ASSUME NEW t \in Threads, \/ \E got1, got2 \in BOOLEAN : Setup(t, got1, got2)
                                 \/ Recv(t)
        PROVE  UNCHANGED <<pc, stale>>
    BY <2>2 DEF Setup, Recv
  <2>3. ASSUME NEW t \in Threads, SendReturns(t) \/ SendTimesOut(t) \/ RecvReturns(t) \/ StaleReturns(t)
        PROVE  stale' = stale \ {t} /\ pc' = [pc EXCEPT ![t] = "idle"]
    BY <2>3 DEF SendReturns, SendTimesOut, RecvReturns, StaleReturns, Goes
  <2>4. ASSUME NEW t \in Threads, CleanupEnds(t)
        PROVE  t \notin Inside /\ pc' = [pc EXCEPT ![t] = "idle"] /\ stale' = stale
    BY <2>4 DEF CleanupEnds, Goes, Inside
  <2>5. ASSUME NEW t \in Threads, Cleanup(t)
        PROVE  t \notin Inside /\ stale' \subseteq Inside /\ pc' = [pc EXCEPT ![t] = "cleaning"]
    BY <2>5 DEF Cleanup, Goes, Inside, Idle, OInv, TypeOK
  <2>6. ASSUME NEW t \in Threads, RecvWaits(t)
        PROVE  stale' \subseteq stale \cup {t} /\ pc' = [pc EXCEPT ![t] = "receiving"]
    BY <2>6 DEF RecvWaits, Enters, Goes
  <2>7. ASSUME NEW t \in Threads, Send(t)
        PROVE  \/ UNCHANGED <<pc, stale>>
               \/ stale' \subseteq stale \cup {t} /\ pc' = [pc EXCEPT ![t] = "sending"]
    BY <2>7 DEF Send, Enters, Goes
  <2> QED
    BY <2>1, <2>2, <2>3, <2>4, <2>5, <2>6, <2>7 DEF Next, Step
<1>4. /\ pc' \in [Threads -> {"idle", "sending", "receiving", "cleaning"}]
      /\ stale' \subseteq Inside'
  BY <1>3 DEF Inside, OInv, TypeOK
<1>5. late' \in BOOLEAN
  BY <1>1, Zenon DEF OInv, TypeOK
<1> QED
  BY <1>1, <1>2, <1>4, <1>5 DEF OInv, TypeOK

\* Then those of the device, the controller and the two objects.
DeviceTypes ==
  /\ device \in {"on", "off"} /\ mode \in {"reset", "normal"} /\ irq \in BOOLEAN
  /\ memory \in [{"pipe", "mail"} -> {"none", "live", "freed"}]
  /\ pipe \in Seq(1..MaxFrames) /\ Len(pipe) <= Length /\ mail \in 0..1
  /\ tx \in 0..MaxSends /\ rx \in 0..MaxFrames /\ flags \subseteq {"RI", "TI"}
  /\ "RI" \in flags <=> rx # 0
  /\ msg \in [Threads -> 0..MaxSends] /\ sends \in 0..MaxSends

LEMMA NextDeviceTypes ==
  ASSUME OInv, [Next]_vars
  PROVE  DeviceTypes'
<1> USE CanAssumption DEF OInv, TypeOK
<1>1. CASE UNCHANGED vars
  BY <1>1 DEF vars, objects, hardware, DeviceTypes
<1>2. CASE can_handle
  <2>1. rx # 0 => Written(rx) \in Seq(1..MaxFrames) /\ Len(Written(rx)) <= Length
    <3> SUFFICES ASSUME rx # 0 PROVE Written(rx) \in Seq(1..MaxFrames) /\ Len(Written(rx)) <= Length
      OBVIOUS
    <3>1. rx \in 1..MaxFrames /\ pipe \in Seq(1..MaxFrames) /\ Len(pipe) <= Length
      OBVIOUS
    <3>2. Append(pipe, rx) \in Seq(1..MaxFrames) /\ Len(Append(pipe, rx)) = Len(pipe) + 1
      BY <3>1, AppendProperties
    <3> QED
      <4>1. CASE Len(pipe) < Length
        <5>1. Len(pipe) + 1 <= Length
          BY <3>1, <4>1, LenProperties
        <5> QED
          BY <3>2, <4>1, <5>1 DEF Written
      <4>2. CASE ~(Len(pipe) < Length)
        BY <3>1, <4>2 DEF Written
      <4> QED
        BY <4>1, <4>2
  <2>2. Mailed \in 0..1
    BY DEF Mailed
  <2> QED
    BY <1>2, <2>1, <2>2 DEF can_handle, DeviceTypes
<1>3. CASE Transmit \/ Frame
  <2>1. /\ UNCHANGED <<device, mode, objects, irq, msg, sends>>
        /\ tx' \in {0, tx}
        /\ \/ UNCHANGED <<rx, arrived>> /\ flags' = flags \cup {"TI"}
           \/ Received /\ flags' \in {flags \cup {"TI", "RI"}, flags \cup {"RI"}}
    BY <1>3 DEF Transmit, Frame
  <2>2. rx' \in 0..MaxFrames /\ ("RI" \in flags' <=> rx' # 0)
    BY <2>1 DEF Received
  <2>3. tx' \in 0..MaxSends
    BY <2>1
  <2>4. flags' \subseteq {"RI", "TI"}
    BY <2>1, Zenon
  <2> QED
    BY <2>1, <2>2, <2>3, <2>4 DEF objects, DeviceTypes
<1>4. ASSUME NEW t \in Threads, NEW got1 \in BOOLEAN, NEW got2 \in BOOLEAN, Setup(t, got1, got2)
      PROVE  DeviceTypes'
  <2>1. memory' \in [{"pipe", "mail"} -> {"none", "live", "freed"}]
    BY <1>4 DEF Setup, can_setup
  <2>2. irq' \in BOOLEAN
    BY <1>4, Zenon DEF Setup
  <2>3. pipe' \in Seq(1..MaxFrames) /\ Len(pipe') <= Length /\ mail' \in 0..1
    <3>1. CASE pipe' = << >> /\ mail' = 0
      <4>1. << >> \in Seq(1..MaxFrames) /\ Len(<< >>) = 0 /\ 0 <= Length
        OBVIOUS
      <4> QED
        BY ONLY <3>1, <4>1
    <3>2. CASE UNCHANGED <<pipe, mail>>
      BY <3>2
    <3> QED
      BY <1>4, <3>1, <3>2 DEF Setup, can_setup
  <2>4. mode' \in {"reset", "normal"}
    BY <1>4 DEF Setup, can_setup
  <2> QED
    BY <1>4, <2>1, <2>2, <2>3, <2>4 DEF Setup, DeviceTypes
<1>5. ASSUME NEW t \in Threads, Send(t)
      PROVE  DeviceTypes'
  BY <1>5 DEF Send, objects, DeviceTypes
<1>6. ASSUME NEW t \in Threads,
             SendReturns(t) \/ SendTimesOut(t) \/ RecvWaits(t) \/ StaleReturns(t)
      PROVE  DeviceTypes'
  <2>1. mail' \in 0..1 /\ UNCHANGED <<device, memory, pipe, irq, hardware, msg, sends>>
    BY <1>6 DEF SendReturns, SendTimesOut, RecvWaits, StaleReturns, objects
  <2> QED
    BY <2>1 DEF hardware, DeviceTypes
<1>7. ASSUME NEW t \in Threads, Recv(t) \/ RecvReturns(t)
      PROVE  DeviceTypes'
  <2>1. pipe' \in Seq(1..MaxFrames) /\ Len(pipe') <= Length
    <3>1. pipe # << >> => Tail(pipe) \in Seq(1..MaxFrames) /\ Len(Tail(pipe)) <= Length
      OBVIOUS
    <3>2. (pipe # << >> /\ pipe' = Tail(pipe)) \/ UNCHANGED pipe
      BY <1>7 DEF Recv, RecvReturns, Taken
    <3> QED
      BY <3>1, <3>2
  <2>2. UNCHANGED <<device, memory, mail, irq, hardware, msg, sends>>
    BY <1>7 DEF Recv, RecvReturns
  <2> QED
    BY <2>1, <2>2 DEF hardware, DeviceTypes
<1>8. ASSUME NEW t \in Threads, Cleanup(t) \/ CleanupEnds(t)
      PROVE  DeviceTypes'
  <2>1. memory' \in [{"pipe", "mail"} -> {"none", "live", "freed"}]
    BY <1>8 DEF Cleanup, CleanupEnds, objects
  <2>2. device' \in {"on", "off"} /\ irq' \in BOOLEAN
    BY <1>8 DEF Cleanup, CleanupEnds
  <2>3. UNCHANGED <<pipe, mail, hardware, msg, sends>>
    BY <1>8 DEF Cleanup, CleanupEnds, objects
  <2> QED
    BY <2>1, <2>2, <2>3 DEF hardware, DeviceTypes
<1> QED
  BY <1>1, <1>2, <1>3, <1>4, <1>5, <1>6, <1>7, <1>8 DEF Next, Step

LEMMA NextTypeOK ==
  ASSUME OInv, [Next]_vars
  PROVE  TypeOK' /\ sends' \in 0..MaxSends
BY NextThreadTypes, NextDeviceTypes DEF DeviceTypes, TypeOK, Disciplines

\* Every step keeps the order.
LEMMA NextOInv ==
  ASSUME OInv, [Next]_vars
  PROVE  OInv'
<1>1. TypeOK' /\ sends' \in 0..MaxSends
  BY NextTypeOK
<1>2. CASE UNCHANGED vars
  BY <1>1, <1>2, OtherOInv DEF vars, objects, hardware
<1>3. CASE can_handle
  BY <1>1, <1>3, HandleOInv
<1>4. CASE Transmit \/ Frame
  BY <1>1, <1>4, OtherOInv, ReceivedOInv DEF Transmit, Frame, objects
<1>5. ASSUME NEW t \in Threads, Recv(t) \/ RecvReturns(t)
      PROVE  OInv'
  BY <1>1, <1>5, RecvOInv, OtherOInv DEF Recv, RecvReturns, hardware
<1>6. ASSUME NEW t \in Threads, NEW got1 \in BOOLEAN, NEW got2 \in BOOLEAN, Setup(t, got1, got2)
      PROVE  OInv'
  BY <1>1, <1>6, EmptiedOInv, OtherOInv DEF Setup, can_setup
<1>7. ASSUME NEW t \in Threads,
             \/ Send(t) \/ SendReturns(t) \/ SendTimesOut(t) \/ RecvWaits(t) \/ StaleReturns(t)
             \/ Cleanup(t) \/ CleanupEnds(t)
      PROVE  OInv'
  BY <1>1, <1>7, OtherOInv
     DEF Send, SendReturns, SendTimesOut, RecvWaits, StaleReturns, Cleanup, CleanupEnds,
         objects, hardware
<1> QED
  BY <1>2, <1>3, <1>4, <1>5, <1>6, <1>7 DEF Next, Step

\* Messages come out of can_recv in the order they arrived, none twice, whatever is
\* lost to a full pipe, a cleanup or a setup, for every length of the pipe, any threads that
\* receive and any number of messages; with it the types (can.c:154-173, 382-402).
THEOREM CanInOrder == Spec => []InOrder
<1>1. OInv => InOrder
  <2> SUFFICES ASSUME OInv PROVE InOrder
    OBVIOUS
  <2> DEFINE all == got \o pipe \o IF rx = 0 THEN << >> ELSE <<rx>>
  <2>1. Passed \in Seq(Nat) /\ rx \in Nat
    BY PassedType DEF OInv, TypeOK
  <2>2. CASE rx = 0
    <3>1. all = Passed
      BY <2>1, <2>2 DEF Passed
    <3>2. DOMAIN all = 1..Len(all)
      BY <2>1, <3>1
    <3>3. \A i, j \in DOMAIN all : i < j => all[i] < all[j]
      BY <3>1, <3>2 DEF OInv, Rising
    <3> QED
      BY <3>3 DEF InOrder, OInv
  <2>3. CASE rx # 0
    <3>1. all = Append(Passed, rx)
      BY <2>1, <2>3 DEF Passed
    <3>2. Rising(Append(Passed, rx))
      BY <2>1, <2>3, AppendRising DEF OInv
    <3>3. Append(Passed, rx) \in Seq(Nat)
      BY <2>1
    <3>4. DOMAIN all = 1..Len(all)
      BY <3>1, <3>3
    <3>5. \A i, j \in DOMAIN all : i < j => all[i] < all[j]
      BY <3>1, <3>2, <3>4 DEF Rising
    <3> QED
      BY <3>5 DEF InOrder, OInv
  <2> QED
    BY <2>2, <2>3
<1>2. OInv /\ [Next]_vars => OInv'
  BY NextOInv
<1> QED
  BY <1>1, <1>2, InitOInv, PTL DEF Spec

-----------------------------------------------------------------------------
\* While the handler is registered the pipe and the mailbox are there, but for the
\* time from the frees of a cleanup to its end; and no thread sleeps on one that was
\* freed, as the cleanup waited until none was inside.
Safe ==
  /\ irq /\ ~Cleaning => memory.pipe = "live" /\ memory.mail = "live"
  /\ pc \in [Threads -> {"idle", "sending", "receiving", "cleaning"}]
  /\ stale = {}
  /\ "other" \notin touched

\* The steps that leave the memory, who is registered and who cleans up as they are.
LEMMA OtherSafe ==
  ASSUME Safe, UNCHANGED <<memory, irq, stale, touched>>,
         \/ UNCHANGED pc
         \/ \E t \in Threads, to \in {"idle", "sending", "receiving"} :
              pc[t] # "cleaning" /\ pc' = [pc EXCEPT ![t] = to]
  PROVE  Safe'
<1>1. /\ pc' \in [Threads -> {"idle", "sending", "receiving", "cleaning"}]
      /\ Cleaning' <=> Cleaning
  <2>1. CASE UNCHANGED pc
    BY <2>1 DEF Safe, Cleaning
  <2>2. ASSUME NEW t \in Threads, NEW to \in {"idle", "sending", "receiving"},
               pc[t] # "cleaning", pc' = [pc EXCEPT ![t] = to]
        PROVE  /\ pc' \in [Threads -> {"idle", "sending", "receiving", "cleaning"}]
               /\ Cleaning' <=> Cleaning
    BY <2>2 DEF Safe, Cleaning
  <2> QED
    BY <2>1, <2>2
<1> QED
  BY <1>1 DEF Safe

\* What was entered is live, so that nobody sleeps on freed memory.
LEMMA EntersLive ==
  ASSUME Safe, {"asked", "quiet"} \subseteq Careful, Usable, NEW t \in Threads,
         NEW object \in {"pipe", "mail"}, Enters(t, object)
  PROVE  UNCHANGED <<stale, touched>>
<1>1. memory[object] # "freed"
  BY DEF Safe, Usable
<1> QED
  BY <1>1 DEF Enters

\* Under the two disciplines only the handler works on what a cleanup freed, and only
\* before it is unregistered.
LEMMA NextSafe ==
  ASSUME {"asked", "quiet"} \subseteq Careful, Safe, [Next]_vars
  PROVE  Safe'
<1>1. CASE UNCHANGED vars
  BY <1>1, OtherSafe DEF vars, objects
<1>2. CASE can_handle
  <2>1. UNCHANGED <<memory, irq, stale, pc>> /\ irq
    BY <1>2 DEF can_handle
  <2>2. touched' \subseteq touched \cup {"gap"}
    BY <1>2 DEF can_handle, Safe
  <2> QED
    BY <2>1, <2>2 DEF Safe, Cleaning
<1>3. CASE Transmit \/ Frame
  BY <1>3, OtherSafe DEF Transmit, Frame, objects
<1>4. ASSUME NEW t \in Threads, NEW got1 \in BOOLEAN, NEW got2 \in BOOLEAN, Setup(t, got1, got2)
      PROVE  Safe'
  <2>1. /\ irq' = (got1 /\ got2) /\ UNCHANGED <<pc, stale, touched>>
        /\ got1 /\ got2 => memory'.pipe = "live" /\ memory'.mail = "live"
    BY <1>4 DEF Setup, can_setup
  <2> QED
    BY <2>1 DEF Safe
<1>5. ASSUME NEW t \in Threads, Send(t)
      PROVE  Safe'
  <2>1. UNCHANGED <<stale, touched>>
    BY <1>5, EntersLive DEF Send
  <2> QED
    BY <1>5, <2>1, OtherSafe DEF Send, Goes, Idle, objects
<1>6. ASSUME NEW t \in Threads, RecvWaits(t)
      PROVE  Safe'
  <2>1. UNCHANGED <<stale, touched>>
    BY <1>6, EntersLive DEF RecvWaits
  <2> QED
    BY <1>6, <2>1, OtherSafe DEF RecvWaits, Goes, Idle, objects
<1>7. ASSUME NEW t \in Threads, SendReturns(t) \/ SendTimesOut(t) \/ RecvReturns(t)
      PROVE  Safe'
  BY <1>7, OtherSafe DEF SendReturns, SendTimesOut, RecvReturns, Goes, objects
<1>8. ASSUME NEW t \in Threads, Recv(t)
      PROVE  Safe'
  <2>1. memory.pipe # "freed"
    BY <1>8 DEF Recv, Usable, Safe
  <2>2. UNCHANGED <<memory, irq, stale, touched, pc>>
    BY <1>8, <2>1 DEF Recv
  <2> QED
    BY <2>2, OtherSafe
<1>9. ASSUME NEW t \in Threads, StaleReturns(t)
      PROVE  FALSE
  BY <1>9 DEF StaleReturns, Safe
<1>10. ASSUME NEW t \in Threads, Cleanup(t)
       PROVE  Safe'
  <2>1. memory.pipe = "live" /\ memory.mail = "live" /\ Inside = {}
    BY <1>10 DEF Cleanup, Usable, Safe
  <2>2. /\ UNCHANGED irq /\ pc' = [pc EXCEPT ![t] = "cleaning"]
        /\ stale' = stale /\ touched' = touched
    BY <1>10, <2>1 DEF Cleanup, Goes
  <2>3. Cleaning'
    BY <2>2 DEF Safe, Cleaning
  <2> QED
    BY <2>2, <2>3 DEF Safe
<1>11. ASSUME NEW t \in Threads, CleanupEnds(t)
       PROVE  Safe'
  BY <1>11 DEF CleanupEnds, Goes, Safe
<1> QED
  BY <1>1, <1>2, <1>3, <1>4, <1>5, <1>6, <1>7, <1>8, <1>9, <1>10, <1>11 DEF Next, Step

\* The rules an application keeps do not change.
SafeUntil == {"asked", "quiet"} \subseteq Careful => Safe

LEMMA NextSafeUntil ==
  ASSUME SafeUntil, [Next]_vars
  PROVE  SafeUntil'
<1>1. UNCHANGED Careful
  BY DEF Next, Step, Setup, Send, SendReturns, SendTimesOut, Recv, RecvWaits, RecvReturns,
         StaleReturns, Cleanup, CleanupEnds, can_handle, Transmit, Frame, vars
<1> QED
  BY <1>1, NextSafe DEF SafeUntil

\* Nothing uses the memory of the pipe or of the mailbox once it was given back, by
\* can_cleanup or by a can_setup that gave up half way, but the handler of an interrupt
\* that comes between the frees of a cleanup and its end: for every set of threads that
\* use a device only after a setup that got its memory, and clean it up while none of
\* them sleeps inside a call (can.c:154-181, 274-297, 356, 388, 421-425).
THEOREM CanNotTouched == Spec => []NotTouched
<1>1. SafeUntil => NotTouched
  BY DEF SafeUntil, Safe, NotTouched
<1>2. Init => SafeUntil
  BY DEF Init, SafeUntil, Safe
<1>3. SafeUntil /\ [Next]_vars => SafeUntil'
  BY NextSafeUntil
<1> QED
  BY <1>1, <1>2, <1>3, PTL DEF Spec

=============================================================================
