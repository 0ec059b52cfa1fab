------------------------- MODULE HubDaemonFlowProofs -------------------------
(***************************************************************************)
(* Theorems about what is on its way in HubDaemon: how many packets, which *)
(* ones, and what their answers mean.  They hold while the count of        *)
(* outstanding packets is right, that is under the two assumptions below,  *)
(* for every set of channels, window, number of faults and number of       *)
(* changes by the client.                                                  *)
(***************************************************************************)
EXTENDS HubDaemonProofs, FiniteSetTheorems

(***************************************************************************)
(* The assumptions.  A refused or corrupted answer to FTDI_RESET_CONTROL   *)
(* is counted although its request was not, and an answer that is more     *)
(* than a second late is counted after Recover has forgotten its request.  *)
(***************************************************************************)

\* What may go wrong without breaking the count.
CountedOnly ==
    /\ \A r : <<"nack", r>> \in Faults => r # "FTDI_RESET_CONTROL"
    /\ \A r : <<"corrupt answer", r>> \in Faults => r # "FTDI_RESET_CONTROL"
    /\ \A r : <<"child answers", r>> \in Faults => r = "DISCOVER"

\* No answer is later than Recover.
NeverStalls == MaxStalls = 0

(***************************************************************************)
(* The inductive invariant of the flow.                                    *)
(***************************************************************************)

\* The requests of the synchronous step that is under way.
StepRequests(s) ==
    {p \in PacketsOf(SynchronousRefs) : p.ref = SynchronousStep(s)}

\* Their answers.
StepAnswers(s) ==
    {f \in FramesOf(SynchronousRefs) :
        /\ f.ref = SynchronousStep(s)
        /\ f.kind # "reply" => f.ref # "FTDI_RESET_CONTROL"}

\* The answer of the second hub, which is passed over.
IsChildAnswer(f) == IsReply(f, "DISCOVER") /\ f.val = 0

\* At most one request of the current step, or its answers, is on its way;
\* a step is only repeated when nothing is.
OneStep(s, r) ==
    /\ s.tx \in Seq(StepRequests(s))
    /\ r \in Seq(StepAnswers(s))
    /\ \/ Len(s.tx) + Len(r) <= 1
       \/ Len(s.tx) = 0 /\ Len(r) = 2 /\ IsChildAnswer(r[1])
    /\ s.discoverDue => s.tx = << >> /\ r = << >>

\* Until the last step is answered no packet is counted.
Handshake(s, r) ==
    /\ OneStep(s, r)
    /\ AllowSend(s) /\ s.pendingWrites = 0 /\ s.outstandingMessages = 0

\* From then on every packet is, and a second with nothing on its way passes
\* before a transaction is abandoned.
Counting(s, r, due) ==
    /\ s.tx \in Seq(PacketsOf(TransactionRefs))
    /\ r \in Seq(FramesOf(TransactionRefs))
    /\ Len(s.tx) + Len(r) <= s.outstandingMessages
    /\ s.outstandingMessages <= MaxOutstanding
    /\ AllowSend(s) => s.outstandingMessages = 0
    /\ due => s.tx = << >> /\ r = << >>

FlowInv ==
    IF HasFinishedSynchronous(serial) THEN Counting(serial, rx, loopDue)
                                      ELSE Handshake(serial, rx)

(***************************************************************************)
(* What the methods of ExpansionHubSerial do, field by field.              *)
(***************************************************************************)

\* The fields that sending and counting leave alone.
SameNotes(s, t) ==
    /\ t.address = s.address
    /\ t.packetInterfaceId = s.packetInterfaceId
    /\ t.configuredFtdiReset = s.configuredFtdiReset
    /\ t.discoverDue = s.discoverDue
    /\ t.canEnable = s.canEnable

\* The fields that only answers and a new transaction change.
SameAnswers(s, t) ==
    /\ t.haveBulk = s.haveBulk
    /\ t.haveBattery = s.haveBattery
    /\ t.haveModuleStatus = s.haveModuleStatus
    /\ t.deviceReset = s.deviceReset

\* The packets Flush writes.
Flushed(s) == SubSeq(s.writeBuffer, s.currentCount + 1,
                     s.currentCount + ToWrite(s))

\* A count below 256 is kept as it is.
LEMMA UInt8Same ==
    ASSUME NEW j \in 0 .. 255, NEW k \in Nat, j + k <= 255
    PROVE  (j + k) % UInt8 = j + k
  <1> DEFINE i == j + k
  <1>1. i \in 0 .. 255
    OBVIOUS
  <1> HIDE DEF i
  <1>2. i % 256 = i
    BY <1>1
  <1> QED
    BY <1>2 DEF UInt8, i

\* Flush moves packets from the buffer to the wire, in order.
LEMMA FlushFields ==
    ASSUME NEW s, SerialInv(s)
    PROVE  /\ Flush(s).tx = s.tx \o Flushed(s)
           /\ Flush(s).outstandingMessages
                  = (s.outstandingMessages + ToWrite(s)) % UInt8
           /\ Flush(s).pendingWrites = s.pendingWrites - ToWrite(s)
           /\ Flush(s).currentCount = s.currentCount + ToWrite(s)
           /\ Flush(s).writeBuffer = s.writeBuffer
           /\ Flush(s).sendState = s.sendState
           /\ SameNotes(s, Flush(s)) /\ SameAnswers(s, Flush(s))
  <1> DEFINE tx == s.tx \o Flushed(s)
             out == (s.outstandingMessages + ToWrite(s)) % UInt8
             pending == s.pendingWrites - ToWrite(s)
             count == s.currentCount + ToWrite(s)
             t == Flush(s)
  <1>1. t = [s EXCEPT !.tx = tx, !.outstandingMessages = out,
                      !.pendingWrites = pending, !.currentCount = count]
    BY DEF Flush, Flushed
  <1>2. s \in Serials
    BY DEF SerialInv
  <1> HIDE DEF tx, out, pending, count, t
  <1>3. /\ t.tx = tx /\ t.outstandingMessages = out
        /\ t.pendingWrites = pending /\ t.currentCount = count
        /\ t.writeBuffer = s.writeBuffer /\ t.sendState = s.sendState
        /\ SameNotes(s, t) /\ SameAnswers(s, t)
    BY <1>1, <1>2 DEF Serials, SameNotes, SameAnswers
  <1> QED
    BY <1>3 DEF tx, out, pending, count, t

\* The packets Flush writes are of whatever kind the buffer is.
LEMMA FlushedFrom ==
    ASSUME NEW s, SerialInv(s), NEW P, s.writeBuffer \in Seq(P)
    PROVE  Flushed(s) \in Seq(P) /\ Len(Flushed(s)) = ToWrite(s)
  <1> DEFINE n == ToWrite(s)
  <1>1. n \in Nat /\ n <= s.pendingWrites /\ s \in Serials
    BY ToWriteBound DEF SerialInv
  <1>2. s.currentCount \in Nat /\ s.currentCount + n <= Len(s.writeBuffer)
    BY <1>1, SerialFields DEF SerialInv
  <1> HIDE DEF n
  <1>3. Len(s.writeBuffer) \in Nat
        /\ \A i \in 1 .. Len(s.writeBuffer) : s.writeBuffer[i] \in P
    OBVIOUS
  <1>4. \A i \in s.currentCount + 1 .. s.currentCount + n :
            s.writeBuffer[i] \in P
    BY <1>1, <1>2, <1>3
  <1>5. /\ SubSeq(s.writeBuffer, s.currentCount + 1, s.currentCount + n)
               \in Seq(P)
        /\ Len(SubSeq(s.writeBuffer, s.currentCount + 1,
                      s.currentCount + n)) = n
    BY <1>1, <1>2, <1>4, SubSeqProperties
  <1> QED
    BY <1>5 DEF Flushed, n

\* While the count is within the window, Flush keeps it there, and counts
\* exactly what it writes.
LEMMA FlushCounts ==
    ASSUME NEW s, SerialInv(s), s.outstandingMessages <= MaxOutstanding
    PROVE  /\ Flush(s).outstandingMessages
                  = s.outstandingMessages + Len(Flushed(s))
           /\ Flush(s).outstandingMessages <= MaxOutstanding
           /\ Len(Flush(s).tx) = Len(s.tx) + Len(Flushed(s))
           /\ Len(Flushed(s)) \in Nat
  <1> DEFINE n == ToWrite(s)
             out == s.outstandingMessages
  <1>1. s \in Serials
    BY DEF SerialInv
  <1>2. out \in 0 .. 255 /\ s.pendingWrites \in Nat
    BY <1>1, SerialFields
  <1>3. n \in Nat /\ out + n <= MaxOutstanding
    BY <1>2, MaxOutstandingAssumption DEF ToWrite
  <1> HIDE DEF n
  <1>4. (out + n) % UInt8 = out + n
    BY <1>2, <1>3, MaxOutstandingAssumption, UInt8Same
  <1>5. Flushed(s) \in Seq(PacketsOf(TransactionRefs)) /\ Len(Flushed(s)) = n
    BY <1>1, FlushedFrom, SerialFields DEF n
  <1>6. /\ s.tx \in Seq(PacketsOf(Refs))
        /\ Flushed(s) \in Seq(PacketsOf(Refs))
    <2>1. PacketsOf(TransactionRefs) \subseteq PacketsOf(Refs)
      BY DEF PacketsOf, Refs
    <2> QED
      BY <1>1, <1>5, <2>1, SerialFields, SeqMonotone
  <1>7. Len(s.tx \o Flushed(s)) = Len(s.tx) + Len(Flushed(s))
    BY <1>6, ConcatProperties
  <1> QED
    BY <1>3, <1>4, <1>5, <1>7, FlushFields DEF n

\* With nothing pending Flush does nothing.
LEMMA FlushNothing ==
    ASSUME NEW s, SerialInv(s), s.pendingWrites = 0
    PROVE  Flush(s).tx = s.tx
           /\ Flush(s).outstandingMessages = s.outstandingMessages
           /\ Flush(s).pendingWrites = 0
  <1>1. s \in Serials
    BY DEF SerialInv
  <1>2. ToWrite(s) = 0 /\ s.currentCount \in Nat
        /\ s.outstandingMessages \in 0 .. 255
        /\ s.tx \in Seq(PacketsOf(Refs))
    BY <1>1, SerialFields, ToWriteBound
  <1>3. Flushed(s) = << >>
    BY <1>2, SubSeqEmpty DEF Flushed
  <1>4. (s.outstandingMessages + 0) % UInt8 = s.outstandingMessages
    <2> DEFINE out == s.outstandingMessages
    <2>1. out \in 0 .. 255
      BY <1>2
    <2> HIDE DEF out
    <2>2. out + 0 = out /\ out % 256 = out
      BY <2>1
    <2>3. (out + 0) % UInt8 = out
      BY <2>2 DEF UInt8
    <2> QED
      BY <2>3 DEF out
  <1> QED
    BY <1>2, <1>3, <1>4, FlushFields

\* Queueing packets touches the buffer alone.
LEMMA SendPacketsFields ==
    ASSUME NEW s, SerialInv(s), NEW packets
    PROVE  /\ SendPackets(s, packets).tx = s.tx
           /\ SendPackets(s, packets).outstandingMessages
                  = s.outstandingMessages
           /\ SendPackets(s, packets).writeBuffer = s.writeBuffer \o packets
           /\ SendPackets(s, packets).currentCount = s.currentCount
           /\ SendPackets(s, packets).sendState = s.sendState
           /\ SameNotes(s, SendPackets(s, packets))
           /\ SameAnswers(s, SendPackets(s, packets))
  BY DEF SerialInv, Serials, SendPackets, SameNotes, SameAnswers

\* Starting a transaction clears the buffer and what was answered.
LEMMA StartFields ==
    ASSUME NEW s, SerialInv(s), NEW can
    PROVE  /\ StartTransaction(s, can).tx = s.tx
           /\ StartTransaction(s, can).outstandingMessages
                  = s.outstandingMessages
           /\ StartTransaction(s, can).writeBuffer = << >>
           /\ StartTransaction(s, can).sendState = "WaitingForPackets"
           /\ StartTransaction(s, can).canEnable = can
           /\ StartTransaction(s, can).haveModuleStatus = FALSE
           /\ StartTransaction(s, can).configuredFtdiReset
                  = s.configuredFtdiReset
  BY DEF SerialInv, Serials, StartTransaction

\* Recover forgets what was on its way.
LEMMA RecoverFields ==
    ASSUME NEW s, SerialInv(s)
    PROVE  /\ Recover(s).tx = s.tx
           /\ Recover(s).outstandingMessages = 0
           /\ SameNotes(s, Recover(s))
  BY DEF SerialInv, Serials, Recover, SameNotes

\* Noting an answer changes only what was answered.
LEMMA NoteFields ==
    ASSUME NEW s, SerialInv(s), NEW f
    PROVE  /\ NoteReply(s, f).tx = s.tx
           /\ NoteReply(s, f).outstandingMessages = s.outstandingMessages
           /\ NoteReply(s, f).writeBuffer = s.writeBuffer
           /\ NoteReply(s, f).currentCount = s.currentCount
           /\ NoteReply(s, f).sendState = s.sendState
           /\ SameNotes(s, NoteReply(s, f))
  BY DEF SerialInv, Serials, NoteReply, SameNotes

\* What t has on the wire more than s is what it counts more.
Balanced(s, t) ==
    Len(t.tx) + s.outstandingMessages = Len(s.tx) + t.outstandingMessages

\* The object after its count went down by one.
CountDown(s) ==
    [s EXCEPT !.outstandingMessages = Decrement(s.outstandingMessages)]

LEMMA CountDownFields ==
    ASSUME NEW s, SerialInv(s), s.outstandingMessages >= 1
    PROVE  /\ SerialInv(CountDown(s))
           /\ CountDown(s).tx = s.tx
           /\ CountDown(s).outstandingMessages = s.outstandingMessages - 1
           /\ CountDown(s).writeBuffer = s.writeBuffer
           /\ CountDown(s).currentCount = s.currentCount
           /\ CountDown(s).pendingWrites = s.pendingWrites
           /\ CountDown(s).sendState = s.sendState
           /\ SameNotes(s, CountDown(s)) /\ SameAnswers(s, CountDown(s))
  <1> DEFINE out == Decrement(s.outstandingMessages)
             t == CountDown(s)
  <1>1. s \in Serials /\ s.outstandingMessages \in 0 .. 255
    BY SerialFields DEF SerialInv
  <1>2. out = s.outstandingMessages - 1 /\ out \in 0 .. 255
    <2> DEFINE k == s.outstandingMessages
    <2>1. k \in 1 .. 255
      BY <1>1
    <2> HIDE DEF k
    <2>2. (k + 256 - 1) % 256 = k - 1
      BY <2>1
    <2>3. Decrement(k) = k - 1 /\ k - 1 \in 0 .. 255
      BY <2>1, <2>2 DEF Decrement, UInt8
    <2> QED
      BY <2>3 DEF k
  <1>3. t = [s EXCEPT !.outstandingMessages = out]
    BY DEF CountDown
  <1> HIDE DEF out, t
  <1>4. t \in Serials
    <2>1. [s EXCEPT !.outstandingMessages = out] \in Serials
      BY <1>1, <1>2, ZenonT(60) DEF Serials
    <2> QED
      BY <1>3, <2>1
  <1>5. /\ t.tx = s.tx /\ t.outstandingMessages = out
        /\ t.writeBuffer = s.writeBuffer /\ t.currentCount = s.currentCount
        /\ t.pendingWrites = s.pendingWrites /\ t.sendState = s.sendState
        /\ SameNotes(s, t) /\ SameAnswers(s, t)
    BY <1>1, <1>3 DEF Serials, SameNotes, SameAnswers
  <1>6. AllowSend(t) => t.pendingWrites = 0
    BY <1>5 DEF AllowSend, SerialInv
  <1>7. SerialInv(t)
    BY <1>4, <1>5, <1>6, SameBuffers DEF SameNotes
  <1> QED
    BY <1>2, <1>5, <1>7 DEF t

\* Only the send state changes.
LEMMA StateFields ==
    ASSUME NEW s, SerialInv(s), NEW state
    PROVE  LET t == [s EXCEPT !.sendState = state]
           IN  /\ t.tx = s.tx
               /\ t.outstandingMessages = s.outstandingMessages
               /\ t.writeBuffer = s.writeBuffer
               /\ t.currentCount = s.currentCount
               /\ t.pendingWrites = s.pendingWrites
               /\ t.sendState = state
               /\ SameNotes(s, t) /\ SameAnswers(s, t)
  BY DEF SerialInv, Serials, SameNotes, SameAnswers

\* The object between the commands of a transaction and the check whether it
\* is done.
Advanced(s, commands) ==
    IF CommandsDue(s)
    THEN [Flush(SendPackets(CountDown(s), commands))
             EXCEPT !.sendState = "WaitingForFinish"]
    ELSE CountDown(s)

LEMMA CheckIs ==
    ASSUME NEW s, NEW commands
    PROVE  CheckForStateAdvance(s, commands) =
               IF TransactionDone(Advanced(s, commands))
               THEN [Advanced(s, commands) EXCEPT !.sendState = "ReadyToSend"]
               ELSE Advanced(s, commands)
  BY DEF CheckForStateAdvance, Advanced, CountDown

\* What the check for the end of a transaction leaves: whatever of P was in
\* the buffer and is queued now goes out within the window, one packet is
\* counted off, and a transaction that is done counts none.
LEMMA AdvancedFields ==
    ASSUME NEW s, SerialInv(s), s.outstandingMessages >= 1,
           s.outstandingMessages <= MaxOutstanding,
           NEW commands \in Seq(PacketsOf(TransactionRefs)),
           NEW P, s.writeBuffer \in Seq(P), s.tx \in Seq(P),
           CommandsDue(s) => commands \in Seq(P)
    PROVE  LET t == Advanced(s, commands)
           IN  /\ SerialInv(t)
               /\ SameNotes(s, t) /\ SameAnswers(s, t)
               /\ t.writeBuffer \in Seq(P) /\ t.tx \in Seq(P)
               /\ Len(t.tx) + s.outstandingMessages
                      = Len(s.tx) + t.outstandingMessages + 1
               /\ t.outstandingMessages <= MaxOutstanding
               /\ t.sendState = IF CommandsDue(s) THEN "WaitingForFinish"
                                                  ELSE s.sendState
  <1> DEFINE c == CountDown(s)
             q == SendPackets(c, commands)
             u == Flush(q)
             t == Advanced(s, commands)
  <1>1. /\ SerialInv(c) /\ c.tx = s.tx
        /\ c.outstandingMessages = s.outstandingMessages - 1
        /\ c.writeBuffer = s.writeBuffer /\ c.sendState = s.sendState
        /\ SameNotes(s, c) /\ SameAnswers(s, c)
    BY CountDownFields
  <1>0. s.outstandingMessages \in Int /\ Len(s.tx) \in Nat
        /\ MaxOutstanding \in Nat
    <2>1. s \in Serials
      BY DEF SerialInv
    <2>2. s.outstandingMessages \in 0 .. 255 /\ s.tx \in Seq(PacketsOf(Refs))
      BY <2>1, SerialFields
    <2>3. \A k \in 0 .. 255 : k \in Int
      OBVIOUS
    <2>4. Len(s.tx) \in Nat
      BY <2>2, LenProperties
    <2>5. MaxOutstanding \in Nat
      BY MaxOutstandingAssumption
    <2> QED
      BY <2>2, <2>3, <2>4, <2>5
  <1> HIDE DEF c
  <1>2. CASE CommandsDue(s)
    <2>1. t = [u EXCEPT !.sendState = "WaitingForFinish"]
      BY <1>2 DEF Advanced, c
    <2> HIDE DEF t
    <2>2. ~AllowSend(c)
      BY <1>1, <1>2 DEF CommandsDue, AllowSend
    <2>3. /\ SerialInv(q) /\ q.tx = s.tx
          /\ q.outstandingMessages = s.outstandingMessages - 1
          /\ q.writeBuffer = s.writeBuffer \o commands
          /\ SameNotes(c, q) /\ SameAnswers(c, q)
      <3>1. SerialInv(q)
        BY <1>1, <2>2, SendPacketsInv
      <3>2. /\ q.tx = c.tx /\ q.outstandingMessages = c.outstandingMessages
            /\ q.writeBuffer = c.writeBuffer \o commands
            /\ SameNotes(c, q) /\ SameAnswers(c, q)
        BY <1>1, SendPacketsFields
      <3> HIDE DEF q
      <3> QED
        BY <1>1, <3>1, <3>2
    <2>4. q.writeBuffer \in Seq(P)
      BY <1>2, <2>3
    <2> HIDE DEF q
    <2>5. /\ SerialInv(u) /\ u.tx = s.tx \o Flushed(q)
          /\ u.writeBuffer = q.writeBuffer
          /\ SameNotes(q, u) /\ SameAnswers(q, u)
      BY <2>3, FlushInv, FlushFields
    <2>6. u.tx \in Seq(P)
      <3>1. Flushed(q) \in Seq(P)
        BY <2>3, <2>4, FlushedFrom
      <3> HIDE DEF u
      <3> QED
        BY <2>5, <3>1
    <2>7. q.outstandingMessages <= MaxOutstanding
      BY <1>0, <2>3
    <2>8. /\ u.outstandingMessages
                 = s.outstandingMessages - 1 + Len(Flushed(q))
          /\ u.outstandingMessages <= MaxOutstanding
          /\ Len(u.tx) = Len(s.tx) + Len(Flushed(q))
          /\ Len(Flushed(q)) \in Nat
      BY <2>3, <2>7, FlushCounts
    <2> HIDE DEF u
    <2>9. /\ t.tx = u.tx /\ t.outstandingMessages = u.outstandingMessages
          /\ t.writeBuffer = u.writeBuffer
          /\ t.sendState = "WaitingForFinish"
          /\ SameNotes(u, t) /\ SameAnswers(u, t)
      BY <2>1, <2>5, StateFields
    <2>10. SerialInv(t)
      BY <2>1, <2>5, SendStateInv DEF SendStates
    <2>11. SameNotes(s, t) /\ SameAnswers(s, t)
      BY <1>1, <2>3, <2>5, <2>9 DEF SameNotes, SameAnswers
    <2>12. Len(t.tx) + s.outstandingMessages
               = Len(s.tx) + t.outstandingMessages + 1
      BY <1>0, <2>8, <2>9
    <2>13. /\ t.writeBuffer \in Seq(P) /\ t.tx \in Seq(P)
           /\ t.outstandingMessages <= MaxOutstanding
      BY <2>4, <2>5, <2>6, <2>8, <2>9
    <2> QED
      BY <1>2, <2>9, <2>10, <2>11, <2>12, <2>13 DEF t
  <1>3. CASE ~CommandsDue(s)
    <2>1. t = c
      BY <1>3 DEF Advanced, c
    <2>2. Len(c.tx) + s.outstandingMessages
              = Len(s.tx) + c.outstandingMessages + 1
          /\ c.outstandingMessages <= MaxOutstanding
      BY <1>0, <1>1
    <2> HIDE DEF t
    <2>3. /\ SerialInv(t) /\ SameNotes(s, t) /\ SameAnswers(s, t)
          /\ t.writeBuffer \in Seq(P) /\ t.tx \in Seq(P)
          /\ t.sendState = s.sendState
      BY <1>1, <2>1
    <2> QED
      BY <1>3, <2>1, <2>2, <2>3 DEF t
  <1> QED
    BY <1>2, <1>3

LEMMA CheckFields ==
    ASSUME NEW s, SerialInv(s), s.outstandingMessages >= 1,
           s.outstandingMessages <= MaxOutstanding, ~AllowSend(s),
           NEW commands \in Seq(PacketsOf(TransactionRefs)),
           NEW P, s.writeBuffer \in Seq(P), s.tx \in Seq(P),
           CommandsDue(s) => commands \in Seq(P)
    PROVE  LET t == CheckForStateAdvance(s, commands)
           IN  /\ SerialInv(t)
               /\ SameNotes(s, t) /\ SameAnswers(s, t)
               /\ t.writeBuffer \in Seq(P) /\ t.tx \in Seq(P)
               /\ Len(t.tx) + s.outstandingMessages
                      = Len(s.tx) + t.outstandingMessages + 1
               /\ t.outstandingMessages <= MaxOutstanding
               /\ AllowSend(t) => t.outstandingMessages = 0
               /\ t.sendState = "WaitingForPackets"
                      => s.sendState = "WaitingForPackets" /\ ~CommandsDue(s)
  <1> DEFINE a == Advanced(s, commands)
             t == CheckForStateAdvance(s, commands)
  <1>1. /\ SerialInv(a) /\ SameNotes(s, a) /\ SameAnswers(s, a)
        /\ a.writeBuffer \in Seq(P) /\ a.tx \in Seq(P)
        /\ Len(a.tx) + s.outstandingMessages
               = Len(s.tx) + a.outstandingMessages + 1
        /\ a.outstandingMessages <= MaxOutstanding
        /\ a.sendState = IF CommandsDue(s) THEN "WaitingForFinish"
                                           ELSE s.sendState
    BY AdvancedFields
  <1>2. t = IF TransactionDone(a) THEN [a EXCEPT !.sendState = "ReadyToSend"]
                                  ELSE a
    BY CheckIs
  <1> HIDE DEF a, t
  <1>3. CASE TransactionDone(a)
    <2>1. t = [a EXCEPT !.sendState = "ReadyToSend"]
      BY <1>2, <1>3
    <2>2. a.pendingWrites = 0 /\ a.outstandingMessages = 0
      BY <1>3 DEF TransactionDone
    <2>3. SerialInv(t)
      BY <1>1, <2>1, <2>2, SendStateInv DEF SendStates
    <2>4. /\ t.tx = a.tx /\ t.outstandingMessages = a.outstandingMessages
          /\ t.writeBuffer = a.writeBuffer /\ t.sendState = "ReadyToSend"
          /\ SameNotes(a, t) /\ SameAnswers(a, t)
      BY <1>1, <2>1, StateFields
    <2>5. SameNotes(s, t) /\ SameAnswers(s, t)
      BY <1>1, <2>4 DEF SameNotes, SameAnswers
    <2> QED
      BY <1>1, <2>2, <2>3, <2>4, <2>5 DEF t, AllowSend
  <1>4. CASE ~TransactionDone(a)
    <2>1. t = a
      BY <1>2, <1>4
    <2>2. ~AllowSend(t)
      BY <1>1, <2>1 DEF AllowSend
    <2> QED
      BY <1>1, <2>1, <2>2 DEF t, AllowSend
  <1> QED
    BY <1>3, <1>4

(***************************************************************************)
(* The steps preserve the invariant of the flow.                           *)
(***************************************************************************)

\* Sending the request of the current step, with nothing on its way.
LEMMA StepStarts ==
    ASSUME NEW s, SerialInv(s), ~HasFinishedSynchronous(s), s.discoverDue,
           s.tx = << >>, AllowSend(s), s.pendingWrites = 0,
           s.outstandingMessages = 0
    PROVE  /\ ~HasFinishedSynchronous(RunSynchronousSteps(s))
           /\ Handshake(RunSynchronousSteps(s), << >>)
  <1> DEFINE request == Request(SynchronousStep(s), 0, 0)
             t == RunSynchronousSteps(s)
  <1>1. s \in Serials
    BY DEF SerialInv
  <1>2. t = [s EXCEPT !.discoverDue = FALSE, !.tx = <<request>>]
    <2>1. t = SendDirect([s EXCEPT !.discoverDue = FALSE], request)
      BY DEF RunSynchronousSteps, AllStepsDone, HasFinishedSynchronous
    <2>2. Append(s.tx, request) = <<request>>
      BY DEF Serials
    <2> HIDE DEF request, t
    <2> QED
      BY <1>1, <2>1, <2>2 DEF SendDirect, Serials
  <1>3. /\ t.tx = <<request>> /\ t.discoverDue = FALSE
        /\ t.address = s.address
        /\ t.packetInterfaceId = s.packetInterfaceId
        /\ t.configuredFtdiReset = s.configuredFtdiReset
        /\ t.sendState = s.sendState /\ t.pendingWrites = s.pendingWrites
        /\ t.outstandingMessages = s.outstandingMessages
    <2> HIDE DEF request, t
    <2> QED
      BY <1>1, <1>2 DEF Serials
  <1>4. SynchronousStep(t) = SynchronousStep(s)
        /\ SynchronousStep(s) \in SynchronousRefs
    <2> HIDE DEF t
    <2> QED
      BY <1>3 DEF SynchronousStep, SynchronousRefs
  <1>5. request \in StepRequests(t)
    <2> HIDE DEF t
    <2> QED
      BY <1>4 DEF StepRequests, Request, PacketsOf
  <1> HIDE DEF request, t
  <1>6. /\ t.tx \in Seq(StepRequests(t)) /\ Len(t.tx) = 1
        /\ << >> \in Seq(StepAnswers(t)) /\ Len(<< >>) = 0
    BY <1>3, <1>5
  <1>7. OneStep(t, << >>)
    BY <1>3, <1>6 DEF OneStep
  <1>8. Handshake(t, << >>) /\ ~HasFinishedSynchronous(t)
    BY <1>3, <1>7 DEF Handshake, HasFinishedSynchronous, AllowSend
  <1> QED
    BY <1>8 DEF t

\* With nothing pending, Flush changes nothing the flow depends on.
LEMMA FlushIdle ==
    ASSUME NEW s, SerialInv(s), s.pendingWrites = 0, NEW r, NEW due
    PROVE  /\ Handshake(s, r) => Handshake(Flush(s), r)
           /\ Counting(s, r, due) => Counting(Flush(s), r, due)
           /\ HasFinishedSynchronous(Flush(s)) = HasFinishedSynchronous(s)
  <1> DEFINE t == Flush(s)
  <1>1. /\ t.tx = s.tx /\ t.outstandingMessages = s.outstandingMessages
        /\ t.pendingWrites = 0
        /\ t.sendState = s.sendState /\ SameNotes(s, t)
    BY FlushNothing, FlushFields
  <1> HIDE DEF t
  <1>2. /\ SynchronousStep(t) = SynchronousStep(s)
        /\ AllowSend(t) = AllowSend(s)
        /\ HasFinishedSynchronous(t) = HasFinishedSynchronous(s)
    BY <1>1 DEF SynchronousStep, AllowSend, HasFinishedSynchronous, SameNotes
  <1>3. StepRequests(t) = StepRequests(s) /\ StepAnswers(t) = StepAnswers(s)
    BY <1>2 DEF StepRequests, StepAnswers
  <1>4. Handshake(s, r) => Handshake(t, r)
    BY <1>1, <1>2, <1>3 DEF Handshake, OneStep, SameNotes
  <1>5. Counting(s, r, due) => Counting(t, r, due)
    BY <1>1, <1>2 DEF Counting
  <1> QED
    BY <1>2, <1>4, <1>5 DEF t

\* No frame of the handshake is counted: those that HandlePayload would count
\* cannot have been sent.
LEMMA HandshakeNotCounted ==
    ASSUME NEW s, SerialInv(s), NEW f \in StepAnswers(s),
           ~HasFinishedSynchronous(s)
    PROVE  ~AdvancesState(s, f)
  <1>1. /\ f.kind \in {"reply", "nack", "corrupt"}
        /\ f.ref \in SynchronousRefs /\ f.ref = SynchronousStep(s)
        /\ f.kind # "reply" => f.ref # "FTDI_RESET_CONTROL"
    BY DEF StepAnswers, FramesOf
  <1>2. s.packetInterfaceId => s.address
    BY DEF SerialInv
  <1>3. f.ref # "FTDI_RESET_CONTROL" => ~s.packetInterfaceId
    BY <1>1, <1>2 DEF SynchronousStep
  <1>4. f.ref # "FTDI_RESET_CONTROL"
            => f.ref \in {"DISCOVER", "QUERY_INTERFACE"}
    BY <1>1 DEF SynchronousRefs
  <1> QED
    BY <1>1, <1>3, <1>4 DEF AdvancesState

\* The answer of the last step ends the handshake with nothing on its way.
LEMMA HandshakeAnswer ==
    ASSUME NEW s, SerialInv(s), ~HasFinishedSynchronous(s), NEW r,
           Handshake(s, r), r # << >>, NEW due
    PROVE  LET t == SynchronousAnswer(s, Head(r))
           IN  /\ t.pendingWrites = 0
               /\ IF HasFinishedSynchronous(t) THEN Counting(t, Tail(r), due)
                                               ELSE Handshake(t, Tail(r))
  <1> DEFINE f == Head(r)
             t == SynchronousAnswer(s, f)
             discover == IsReply(f, "DISCOVER") /\ ~s.address /\ f.val = 1
             ftdi == IsReply(f, "FTDI_RESET_CONTROL")
             query == IsReply(f, "QUERY_INTERFACE") /\ ~s.packetInterfaceId
  <1>1. /\ r \in Seq(StepAnswers(s)) /\ s.tx \in Seq(StepRequests(s))
        /\ s \in Serials
        /\ AllowSend(s) /\ s.pendingWrites = 0 /\ s.outstandingMessages = 0
    BY DEF Handshake, OneStep, SerialInv
  <1>2. /\ f \in StepAnswers(s) /\ Tail(r) \in Seq(StepAnswers(s))
        /\ Len(Tail(r)) = Len(r) - 1 /\ f = r[1]
        /\ Len(r) \in Nat \ {0} /\ Len(s.tx) \in Nat
    BY <1>1
  <1>3. s.tx = << >> /\ Len(s.tx) = 0
    <2>1. Len(s.tx) = 0
      BY <1>2 DEF Handshake, OneStep
    <2> QED
      BY <1>1, <2>1, EmptySeq
  <1>4. ~s.discoverDue
    BY DEF Handshake, OneStep
  <1>5. ~IsChildAnswer(f) => Tail(r) = << >>
    <2>1. ~IsChildAnswer(f) => Len(Tail(r)) = 0
      BY <1>2, <1>3 DEF Handshake, OneStep
    <2> QED
      BY <1>2, <2>1, EmptySeq
  <1>6. f.ref = SynchronousStep(s)
    BY <1>2 DEF StepAnswers
  <1> HIDE DEF f
  <1>7. CASE discover
    <2> DEFINE u == [s EXCEPT !.address = TRUE, !.discoverDue = TRUE]
    <2>1. Tail(r) = << >>
      BY <1>5, <1>7 DEF IsChildAnswer
    <2>2. t = RunSynchronousSteps(u)
      BY <1>7 DEF SynchronousAnswer, IsReply
    <2>3. u \in Serials
      BY <1>1, Zenon DEF Serials
    <2>4. /\ u.tx = s.tx /\ u.writeBuffer = s.writeBuffer
          /\ u.currentCount = s.currentCount
          /\ u.pendingWrites = s.pendingWrites /\ u.sendState = s.sendState
          /\ u.address = TRUE /\ u.packetInterfaceId = s.packetInterfaceId
          /\ u.configuredFtdiReset = s.configuredFtdiReset
          /\ u.discoverDue = TRUE
          /\ u.outstandingMessages = s.outstandingMessages
      BY <1>1 DEF Serials
    <2> HIDE DEF u
    <2>5. SerialInv(u)
      BY <2>3, <2>4, StepAnswered DEF SerialInv
    <2>6. ~HasFinishedSynchronous(t) /\ Handshake(t, << >>)
      BY <1>1, <1>3, <2>2, <2>4, <2>5, StepStarts
         DEF HasFinishedSynchronous, AllowSend
    <2> QED
      BY <2>1, <2>6 DEF Handshake, f
  <1>8. CASE ftdi
    <2> DEFINE u == [s EXCEPT !.configuredFtdiReset = TRUE,
                              !.discoverDue = TRUE]
    <2>1. Tail(r) = << >>
      BY <1>5, <1>8 DEF IsChildAnswer, IsReply
    <2>2. t = RunSynchronousSteps(u)
      BY <1>8 DEF SynchronousAnswer, IsReply
    <2>3. s.address /\ s.packetInterfaceId
      BY <1>6, <1>8 DEF SynchronousStep, IsReply
    <2>4. /\ u.tx = s.tx /\ u.pendingWrites = s.pendingWrites
          /\ u.sendState = s.sendState
          /\ u.address = s.address
          /\ u.packetInterfaceId = s.packetInterfaceId
          /\ u.configuredFtdiReset = TRUE
          /\ u.outstandingMessages = s.outstandingMessages
      BY <1>1 DEF Serials
    <2> HIDE DEF u
    <2>5. t = u
      BY <2>2, <2>3, <2>4 DEF RunSynchronousSteps, AllStepsDone
    <2>6. /\ << >> \in Seq(PacketsOf(TransactionRefs))
          /\ << >> \in Seq(FramesOf(TransactionRefs)) /\ Len(<< >>) = 0
      OBVIOUS
    <2>7. Counting(u, << >>, due)
      BY <1>1, <1>3, <2>4, <2>6, MaxOutstandingAssumption DEF Counting
    <2> QED
      BY <1>1, <2>1, <2>4, <2>5, <2>7 DEF HasFinishedSynchronous, f
  <1>9. CASE query
    <2> DEFINE u == [s EXCEPT !.packetInterfaceId = TRUE,
                              !.discoverDue = TRUE]
    <2>1. Tail(r) = << >>
      BY <1>5, <1>9 DEF IsChildAnswer, IsReply
    <2>2. t = RunSynchronousSteps(u)
      BY <1>9 DEF SynchronousAnswer, IsReply
    <2>3. u \in Serials
      BY <1>1, Zenon DEF Serials
    <2>4. /\ u.tx = s.tx /\ u.writeBuffer = s.writeBuffer
          /\ u.currentCount = s.currentCount
          /\ u.pendingWrites = s.pendingWrites /\ u.sendState = s.sendState
          /\ u.address = s.address /\ u.packetInterfaceId = TRUE
          /\ u.configuredFtdiReset = s.configuredFtdiReset
          /\ u.discoverDue = TRUE
          /\ u.outstandingMessages = s.outstandingMessages
      BY <1>1 DEF Serials
    <2>5. s.address
      BY <1>6, <1>9 DEF SynchronousStep, IsReply
    <2> HIDE DEF u
    <2>6. SerialInv(u)
      BY <2>3, <2>4, <2>5, StepAnswered
    <2>7. ~HasFinishedSynchronous(t) /\ Handshake(t, << >>)
      BY <1>1, <1>3, <2>2, <2>4, <2>6, StepStarts
         DEF HasFinishedSynchronous, AllowSend
    <2> QED
      BY <2>1, <2>7 DEF Handshake, f
  <1>10. CASE ~discover /\ ~ftdi /\ ~query
    <2>1. t = s
      BY <1>10 DEF SynchronousAnswer
    <2>2. OneStep(s, Tail(r))
      <3>1. Len(s.tx) + Len(Tail(r)) <= 1
        BY <1>2, <1>3 DEF Handshake, OneStep
      <3> QED
        BY <1>1, <1>2, <1>4, <3>1 DEF OneStep
    <2> QED
      BY <1>1, <2>1, <2>2 DEF Handshake, f
  <1> QED
    BY <1>7, <1>8, <1>9, <1>10

\* Within the window, Flush keeps the count.
LEMMA FlushCounting ==
    ASSUME NEW s, SerialInv(s), NEW r, Counting(s, r, FALSE),
           NEW P, s.writeBuffer \in Seq(P), s.tx \in Seq(P)
    PROVE  /\ Counting(Flush(s), r, FALSE) /\ Balanced(s, Flush(s))
           /\ Flush(s).writeBuffer \in Seq(P) /\ Flush(s).tx \in Seq(P)
  <1> DEFINE t == Flush(s)
             TP == PacketsOf(TransactionRefs)
  <1>1. /\ s \in Serials /\ s.outstandingMessages <= MaxOutstanding
        /\ s.tx \in Seq(TP) /\ r \in Seq(FramesOf(TransactionRefs))
    BY DEF SerialInv, Counting
  <1>2. s.writeBuffer \in Seq(TP) /\ s.outstandingMessages \in 0 .. 255
    BY <1>1, SerialFields
  <1>3. /\ t.outstandingMessages = s.outstandingMessages + Len(Flushed(s))
        /\ t.outstandingMessages <= MaxOutstanding
        /\ Len(t.tx) = Len(s.tx) + Len(Flushed(s))
        /\ Len(Flushed(s)) \in Nat
    BY <1>1, FlushCounts
  <1>4. /\ t.tx = s.tx \o Flushed(s) /\ t.writeBuffer = s.writeBuffer
        /\ t.sendState = s.sendState
        /\ Flushed(s) \in Seq(TP) /\ Flushed(s) \in Seq(P)
    BY <1>2, FlushFields, FlushedFrom
  <1>5. AllowSend(s) => Flushed(s) = << >>
    <2> HAVE AllowSend(s)
    <2>1. ToWrite(s) = 0 /\ s.currentCount \in Nat
      BY <1>1, ToWriteBound, SerialFields DEF SerialInv
    <2> QED
      BY <2>1, SubSeqEmpty DEF Flushed
  <1>6. t.tx \in Seq(TP) /\ t.tx \in Seq(P)
    <2> HIDE DEF t, TP
    <2> QED
      BY <1>1, <1>4
  <1> HIDE DEF t
  <1>7. Len(t.tx) + Len(r) <= t.outstandingMessages
    <2> DEFINE a == Len(s.tx)
               b == Len(r)
               k == Len(Flushed(s))
               o == s.outstandingMessages
    <2>1. a \in Nat /\ b \in Nat /\ k \in Nat /\ o \in 0 .. 255 /\ a + b <= o
      BY <1>1, <1>2, <1>3 DEF Counting
    <2>2. Len(t.tx) = a + k /\ t.outstandingMessages = o + k
      BY <1>3
    <2> HIDE DEF a, b, k, o
    <2>3. (a + k) + b <= o + k
      BY <2>1
    <2> QED
      BY <2>2, <2>3 DEF b
  <1>8. AllowSend(t) => t.outstandingMessages = 0
    <2> HAVE AllowSend(t)
    <2>1. AllowSend(s)
      BY <1>4 DEF AllowSend
    <2>2. s.outstandingMessages = 0 /\ Len(Flushed(s)) = 0
      BY <1>5, <2>1 DEF Counting
    <2> QED
      BY <1>3, <2>2
  <1>9. Counting(t, r, FALSE)
    BY <1>1, <1>3, <1>6, <1>7, <1>8 DEF Counting
  <1>10. Balanced(s, t)
    <2> DEFINE a == Len(s.tx)
               k == Len(Flushed(s))
               o == s.outstandingMessages
    <2>1. a \in Nat /\ k \in Nat /\ o \in 0 .. 255
      BY <1>1, <1>2, <1>3
    <2>2. Len(t.tx) = a + k /\ t.outstandingMessages = o + k
      BY <1>3
    <2> HIDE DEF a, k, o
    <2>3. (a + k) + o = a + (o + k)
      BY <2>1
    <2> QED
      BY <2>2, <2>3 DEF Balanced, a, o
  <1> QED
    BY <1>4, <1>6, <1>9, <1>10 DEF t

\* Each answer of a transaction takes exactly one packet off the count, and
\* it is one that was counted.
LEMMA CountingAnswer ==
    ASSUME NEW s, SerialInv(s), HasFinishedSynchronous(s),
           NEW r, r # << >>, NEW due, Counting(s, r, due),
           NEW commands \in Seq(PacketsOf(TransactionRefs)),
           NEW P, s.writeBuffer \in Seq(P), s.tx \in Seq(P),
           CommandsDue(NoteReply(s, Head(r))) => commands \in Seq(P)
    PROVE  LET t == HandlePayload(s, Head(r), commands)
               n == NoteReply(s, Head(r))
           IN  /\ ~due /\ ~AllowSend(s) /\ AdvancesState(s, Head(r))
               /\ SerialInv(t) /\ SameNotes(s, t) /\ SameAnswers(n, t)
               /\ t.writeBuffer \in Seq(P) /\ t.tx \in Seq(P)
               /\ Counting(t, Tail(r), FALSE)
               /\ Len(t.tx) + s.outstandingMessages
                      = Len(s.tx) + t.outstandingMessages + 1
               /\ t.sendState = "WaitingForPackets"
                      => s.sendState = "WaitingForPackets" /\ ~CommandsDue(n)
  <1> DEFINE f == Head(r)
             n == NoteReply(s, f)
             t == HandlePayload(s, f, commands)
  <1>1. /\ r \in Seq(FramesOf(TransactionRefs))
        /\ s.tx \in Seq(PacketsOf(TransactionRefs))
        /\ Len(s.tx) + Len(r) <= s.outstandingMessages
        /\ s.outstandingMessages <= MaxOutstanding
        /\ AllowSend(s) => s.outstandingMessages = 0
        /\ due => r = << >>
    BY DEF Counting
  <1>2. /\ f \in FramesOf(TransactionRefs)
        /\ Tail(r) \in Seq(FramesOf(TransactionRefs))
        /\ Len(Tail(r)) = Len(r) - 1 /\ Len(r) \in Nat \ {0}
        /\ Len(s.tx) \in Nat
    BY <1>1
  <1>3. s.outstandingMessages \in 0 .. 255 /\ s \in Serials
    BY SerialFields DEF SerialInv
  <1>4. s.outstandingMessages >= 1 /\ ~AllowSend(s) /\ ~due
    <2> DEFINE a == Len(s.tx)
               b == Len(r)
               o == s.outstandingMessages
    <2>1. a \in Nat /\ b \in Nat \ {0} /\ o \in 0 .. 255 /\ a + b <= o
      BY <1>1, <1>2, <1>3
    <2> HIDE DEF a, b, o
    <2>2. o >= 1 /\ o # 0
      BY <2>1
    <2> QED
      BY <1>1, <2>2 DEF o
  <1>5. AdvancesState(s, f)
    <2>1. s.packetInterfaceId
      BY DEF HasFinishedSynchronous, SerialInv
    <2>2. f.kind \in {"reply", "nack", "corrupt"} /\ f.ref \in TransactionRefs
      BY <1>2 DEF FramesOf
    <2>3. f.ref \notin SynchronousRefs
      BY <2>2 DEF TransactionRefs, CachedRefs, OtherRefs, SynchronousRefs
    <2> HIDE DEF f
    <2> QED
      BY <2>1, <2>2, <2>3 DEF AdvancesState, SynchronousRefs
  <1>6. t = CheckForStateAdvance(n, commands)
    BY <1>5 DEF HandlePayload
  <1>7. /\ SerialInv(n) /\ n.tx = s.tx
        /\ n.outstandingMessages = s.outstandingMessages
        /\ n.writeBuffer = s.writeBuffer /\ n.sendState = s.sendState
        /\ SameNotes(s, n)
    BY NoteReplyInv, NoteFields
  <1>8. CommandsDue(n) => commands \in Seq(P)
    OBVIOUS
  <1> HIDE DEF f, n, t
  <1>9. n.outstandingMessages >= 1 /\ n.outstandingMessages <= MaxOutstanding
        /\ ~AllowSend(n)
    BY <1>1, <1>4, <1>7 DEF AllowSend
  <1>10. /\ SerialInv(t) /\ SameNotes(n, t) /\ SameAnswers(n, t)
         /\ t.writeBuffer \in Seq(P) /\ t.tx \in Seq(P)
         /\ Len(t.tx) + n.outstandingMessages
                = Len(n.tx) + t.outstandingMessages + 1
         /\ t.outstandingMessages <= MaxOutstanding
         /\ AllowSend(t) => t.outstandingMessages = 0
         /\ t.sendState = "WaitingForPackets"
                => n.sendState = "WaitingForPackets" /\ ~CommandsDue(n)
    BY <1>6, <1>7, <1>8, <1>9, CheckFields
  <1>11. t.tx \in Seq(PacketsOf(TransactionRefs))
    <2>1. n.writeBuffer \in Seq(PacketsOf(TransactionRefs))
          /\ n.tx \in Seq(PacketsOf(TransactionRefs))
      BY <1>1, <1>3, <1>7, SerialFields
    <2> QED
      BY <1>6, <1>7, <1>9, <2>1, CheckFields
  <1>12. Len(t.tx) + Len(Tail(r)) <= t.outstandingMessages
    <2> DEFINE a == Len(s.tx)
               b == Len(r)
               o == s.outstandingMessages
               c == Len(t.tx)
               q == t.outstandingMessages
    <2>1. q \in 0 .. 255 /\ c \in Nat
      BY <1>10, <1>11, SerialFields DEF SerialInv
    <2>2. a \in Nat /\ b \in Nat /\ o \in 0 .. 255 /\ Len(Tail(r)) = b - 1
      BY <1>2, <1>3
    <2>3. a + b <= o /\ c + o = a + q + 1
      BY <1>1, <1>7, <1>10
    <2> HIDE DEF a, b, c, o, q
    <2>4. c + (b - 1) <= q
      BY <2>1, <2>2, <2>3
    <2> QED
      BY <2>2, <2>4 DEF b, c, q
  <1>13. Counting(t, Tail(r), FALSE)
    BY <1>2, <1>10, <1>11, <1>12 DEF Counting
  <1>14. SameNotes(s, t)
    BY <1>7, <1>10 DEF SameNotes
  <1> QED
    BY <1>4, <1>5, <1>7, <1>10, <1>13, <1>14 DEF f, n, t

\* The first frame and what the daemon makes of it.
Frame == Head(rx)
Noted == NoteReply(serial, Frame)
Ready == ForgetIfReset(AckedBy(Frame), Noted.deviceReset)
Commands == CommandPackets(Ready, Noted.canEnable)

\* A step of the daemon that handles an answer of a transaction.
LEMMA HandleCounting ==
    ASSUME IndInv, FlowInv, HasFinishedSynchronous(serial),
           NEW remaining, HandleNext(remaining), rx # << >>,
           NEW P, serial.writeBuffer \in Seq(P), serial.tx \in Seq(P),
           CommandsDue(Noted) => Commands \in Seq(P)
    PROVE  /\ ~loopDue /\ ~AllowSend(serial)
           /\ Counting(serial', rx', loopDue')
           /\ Len(serial'.tx) + serial.outstandingMessages
                  = Len(serial.tx) + serial'.outstandingMessages + 1
           /\ SameNotes(serial, serial') /\ SameAnswers(Noted, serial')
           /\ serial'.writeBuffer \in Seq(P) /\ serial'.tx \in Seq(P)
           /\ cache' = IF CommandsDue(Noted) THEN GetAll(Ready, Noted.canEnable)
                                             ELSE AckedBy(Frame)
           /\ serial'.sendState = "WaitingForPackets"
                  => /\ serial.sendState = "WaitingForPackets"
                     /\ ~CommandsDue(Noted)
  <1> DEFINE t == HandlePayload(serial, Frame, Commands)
  <1>1. SerialInv(serial) /\ Counting(serial, rx, loopDue)
    BY DEF IndInv, FlowInv
  <1>2. Commands \in Seq(PacketsOf(TransactionRefs))
    BY IndInvType, CommandPacketsType DEF Commands
  <1>3. /\ ~loopDue /\ ~AllowSend(serial) /\ AdvancesState(serial, Frame)
        /\ SerialInv(t) /\ SameNotes(serial, t) /\ SameAnswers(Noted, t)
        /\ t.writeBuffer \in Seq(P) /\ t.tx \in Seq(P)
        /\ Counting(t, Tail(rx), FALSE)
        /\ Len(t.tx) + serial.outstandingMessages
               = Len(serial.tx) + t.outstandingMessages + 1
        /\ t.sendState = "WaitingForPackets"
               => /\ serial.sendState = "WaitingForPackets"
                  /\ ~CommandsDue(Noted)
    BY <1>1, <1>2, CountingAnswer DEF Frame, Noted
  <1>4. /\ serial' = IF remaining = 0 THEN Flush(t) ELSE t
        /\ cache' = IF AdvancesState(serial, Frame) /\ CommandsDue(Noted)
                    THEN GetAll(Ready, Noted.canEnable) ELSE AckedBy(Frame)
        /\ rx' = Tail(rx) /\ loopDue' = loopDue
    BY DEF HandleNext, HandleFrame, Frame, Noted, Ready, Commands
  <1> HIDE DEF t
  <1>5. /\ Counting(Flush(t), Tail(rx), FALSE) /\ Balanced(t, Flush(t))
        /\ Flush(t).writeBuffer \in Seq(P) /\ Flush(t).tx \in Seq(P)
        /\ Flush(t).sendState = t.sendState
        /\ SameNotes(t, Flush(t)) /\ SameAnswers(t, Flush(t))
    BY <1>3, FlushCounting, FlushFields
  <1>6. /\ SameNotes(serial, Flush(t)) /\ SameAnswers(Noted, Flush(t))
    BY <1>3, <1>5 DEF SameNotes, SameAnswers
  <1>7. loopDue' = FALSE
    <2>1. loopDue \in BOOLEAN
      BY DEF IndInv, RestOK
    <2> QED
      BY <1>3, <1>4, <2>1
  <1>8. Len(Flush(t).tx) + serial.outstandingMessages
            = Len(serial.tx) + Flush(t).outstandingMessages + 1
    <2> DEFINE a == Len(serial.tx)
               b == Len(t.tx)
               c == Len(Flush(t).tx)
               i == serial.outstandingMessages
               j == t.outstandingMessages
               k == Flush(t).outstandingMessages
    <2>1. /\ a \in Nat /\ b \in Nat /\ c \in Nat
          /\ i \in 0 .. 255 /\ j \in 0 .. 255 /\ k \in 0 .. 255
      <3>1. SerialInv(Flush(t))
        BY <1>3, FlushInv
      <3> QED
        BY <1>1, <1>3, <1>5, <3>1, SerialFields, SMTT(40) DEF SerialInv, Counting
    <2>2. b + i = a + j + 1 /\ c + j = b + k
      BY <1>3, <1>5 DEF Balanced
    <2> HIDE DEF a, b, c, i, j, k
    <2>3. c + i = a + k + 1
      BY <2>1, <2>2
    <2> QED
      BY <2>3 DEF a, c, i, k
  <1>9. CASE remaining = 0
    BY <1>3, <1>4, <1>5, <1>6, <1>7, <1>8, <1>9
  <1>10. CASE remaining # 0
    BY <1>3, <1>4, <1>7, <1>10
  <1> QED
    BY <1>9, <1>10

\* A transaction starts with nothing on its way.
LEMMA BeginCounting ==
    ASSUME IndInv, rx = << >>, NEW s, SerialInv(s), s.pendingWrites = 0,
           s.tx = << >>, s.outstandingMessages = 0,
           BeginTransaction(s),
           NEW P, InitialPackets \in Seq(P)
    PROVE  /\ Counting(serial', rx', loopDue')
           /\ serial'.configuredFtdiReset = s.configuredFtdiReset
           /\ serial'.writeBuffer \in Seq(P) /\ serial'.tx \in Seq(P)
           /\ serial'.sendState = "WaitingForPackets"
           /\ serial'.haveModuleStatus = FALSE
  <1> DEFINE t == StartTransaction(s, watchdog)
             u == SendPackets(t, InitialPackets)
             TP == PacketsOf(TransactionRefs)
  <1>1. TypeOK /\ InitialPackets \in Seq(TP)
    BY IndInvType, InitialPacketsType
  <1>2. /\ SerialInv(t) /\ ~AllowSend(t) /\ t.tx = << >>
        /\ t.outstandingMessages = 0 /\ t.writeBuffer = << >>
        /\ t.sendState = "WaitingForPackets" /\ t.haveModuleStatus = FALSE
        /\ t.configuredFtdiReset = s.configuredFtdiReset
    <2>1. watchdog \in BOOLEAN
      BY <1>1 DEF TypeOK
    <2>2. SerialInv(t) /\ ~AllowSend(t)
      BY <2>1, StartTransactionInv
    <2>3. /\ t.tx = s.tx /\ t.outstandingMessages = s.outstandingMessages
          /\ t.writeBuffer = << >> /\ t.sendState = "WaitingForPackets"
          /\ t.haveModuleStatus = FALSE
          /\ t.configuredFtdiReset = s.configuredFtdiReset
      BY StartFields, ZenonT(60)
    <2> HIDE DEF t
    <2> QED
      BY <2>2, <2>3
  <1>3. /\ serial' = Flush(u) /\ rx' = rx /\ loopDue' = FALSE
    BY DEF BeginTransaction
  <1> HIDE DEF t
  <1>4. SerialInv(u)
    BY <1>1, <1>2, SendPacketsInv
  <1>5. /\ u.tx = << >> /\ u.outstandingMessages = 0
        /\ u.writeBuffer = << >> \o InitialPackets
        /\ u.sendState = "WaitingForPackets" /\ u.haveModuleStatus = FALSE
        /\ u.configuredFtdiReset = s.configuredFtdiReset
    <2>1. /\ u.tx = t.tx /\ u.outstandingMessages = t.outstandingMessages
          /\ u.writeBuffer = t.writeBuffer \o InitialPackets
          /\ u.sendState = t.sendState
          /\ SameNotes(t, u) /\ SameAnswers(t, u)
      BY <1>2, SendPacketsFields
    <2> HIDE DEF u
    <2> QED
      BY <1>2, <2>1 DEF SameNotes, SameAnswers
  <1> HIDE DEF u
  <1>6. u.writeBuffer \in Seq(P) /\ u.tx \in Seq(P)
    BY <1>5
  <1>7. Counting(u, << >>, FALSE)
    <2>1. /\ << >> \in Seq(TP) /\ << >> \in Seq(FramesOf(TransactionRefs))
          /\ Len(<< >>) = 0
      OBVIOUS
    <2>2. 0 <= MaxOutstanding
      BY MaxOutstandingAssumption
    <2> QED
      BY <1>5, <2>1, <2>2 DEF Counting, AllowSend
  <1>8. /\ Counting(Flush(u), << >>, FALSE)
        /\ Flush(u).writeBuffer \in Seq(P) /\ Flush(u).tx \in Seq(P)
        /\ Flush(u).sendState = u.sendState
        /\ SameNotes(u, Flush(u)) /\ SameAnswers(u, Flush(u))
    BY <1>4, <1>6, <1>7, FlushCounting, FlushFields
  <1> QED
    BY <1>3, <1>5, <1>8 DEF SameNotes, SameAnswers

LEMMA FlowInit ==
    ASSUME Init
    PROVE  FlowInv
  <1> DEFINE s == NewSerial
  <1>1. /\ s.tx = << >> /\ s.discoverDue = TRUE
        /\ s.configuredFtdiReset = FALSE /\ s.sendState = "ReadyToSend"
        /\ s.pendingWrites = 0 /\ s.outstandingMessages = 0
    BY DEF NewSerial
  <1>2. SerialInv(s)
    BY NewSerialInv
  <1>3. serial = RunSynchronousSteps(s) /\ rx = << >>
    BY DEF Init
  <1> HIDE DEF s
  <1>4. ~HasFinishedSynchronous(serial) /\ Handshake(serial, rx)
    BY <1>1, <1>2, <1>3, StepStarts DEF HasFinishedSynchronous, AllowSend
  <1> QED
    BY <1>4 DEF FlowInv

\* What is on its way when a transaction starts: nothing.
LEMMA NothingOnItsWay ==
    ASSUME IndInv, FlowInv, HasFinishedSynchronous(serial),
           AllowSend(serial) \/ loopDue
    PROVE  serial.tx = << >> /\ rx = << >>
  <1>1. Counting(serial, rx, loopDue) /\ serial \in Serials
    BY DEF FlowInv, IndInv, SerialInv
  <1>2. CASE loopDue
    BY <1>1, <1>2 DEF Counting
  <1>3. CASE AllowSend(serial)
    <2> DEFINE a == Len(serial.tx)
               b == Len(rx)
    <2>1. a \in Nat /\ b \in Nat /\ a + b <= 0
      BY <1>1, <1>3 DEF Counting
    <2> HIDE DEF a, b
    <2>2. a = 0 /\ b = 0
      BY <2>1
    <2> QED
      BY <1>1, <2>2, EmptySeq DEF a, b, Counting
  <1> QED
    BY <1>2, <1>3

\* A transaction begins, the object being s by then.
Begins(s) ==
    /\ SerialInv(s) /\ BeginTransaction(s)
    /\ s.tx = << >> /\ rx = << >>
    /\ s.pendingWrites = 0 /\ s.outstandingMessages = 0
    /\ s.configuredFtdiReset

LEMMA TransactionBegins ==
    ASSUME IndInv, FlowInv, OnUpdateSend \/ OnUpdateRecover
    PROVE  \E s : Begins(s)
  <1>1. HasFinishedSynchronous(serial) /\ SerialInv(serial)
        /\ Counting(serial, rx, loopDue)
    BY DEF OnUpdateSend, OnUpdateRecover, FlowInv, IndInv
  <1>2. CASE OnUpdateSend
    <2>1. serial.tx = << >> /\ rx = << >>
      BY <1>1, <1>2, NothingOnItsWay DEF OnUpdateSend
    <2>2. Begins(serial)
      BY <1>1, <1>2, <2>1 DEF OnUpdateSend, Begins, SerialInv, Counting,
                              HasFinishedSynchronous
    <2> QED
      BY <2>2
  <1>3. CASE OnUpdateRecover
    <2> DEFINE s == Recover(serial)
    <2>1. serial.tx = << >> /\ rx = << >>
      BY <1>1, <1>3, NothingOnItsWay DEF OnUpdateRecover
    <2>2. /\ SerialInv(s) /\ s.pendingWrites = 0
          /\ s.tx = serial.tx /\ s.outstandingMessages = 0
          /\ SameNotes(serial, s)
      BY <1>1, RecoverInv, RecoverFields
    <2>3. BeginTransaction(s)
      BY <1>3 DEF OnUpdateRecover
    <2> HIDE DEF s
    <2>4. Begins(s)
      BY <1>1, <2>1, <2>2, <2>3 DEF Begins, SameNotes, HasFinishedSynchronous
    <2> QED
      BY <2>4
  <1> QED
    BY <1>2, <1>3

LEMMA DaemonFlow ==
    ASSUME IndInv, FlowInv, Daemon
    PROVE  FlowInv'
  <1>0. SerialInv(serial)
    BY DEF IndInv
  <1>1. CASE OnUpdateSynchronous
    <2>1. /\ ~HasFinishedSynchronous(serial) /\ serial.discoverDue
          /\ serial' = RunSynchronousSteps(serial) /\ rx' = rx
      BY <1>1 DEF OnUpdateSynchronous
    <2>2. Handshake(serial, rx)
      BY <2>1 DEF FlowInv
    <2>3. /\ serial.tx = << >> /\ rx = << >> /\ AllowSend(serial)
          /\ serial.pendingWrites = 0 /\ serial.outstandingMessages = 0
      BY <2>1, <2>2 DEF Handshake, OneStep
    <2>4. ~HasFinishedSynchronous(serial') /\ Handshake(serial', rx')
      BY <1>0, <2>1, <2>3, StepStarts
    <2> QED
      BY <2>4 DEF FlowInv
  <1>2. CASE OnUpdateSend \/ OnUpdateRecover
    <2>1. PICK s : Begins(s)
      BY <1>2, TransactionBegins
    <2>2. TypeOK
      BY IndInvType
    <2>3. Counting(serial', rx', loopDue')
          /\ serial'.configuredFtdiReset = s.configuredFtdiReset
      BY <2>1, <2>2, InitialPacketsType, BeginCounting DEF Begins
    <2> QED
      BY <2>1, <2>3 DEF FlowInv, HasFinishedSynchronous, Begins
  <1>3. ASSUME NEW remaining \in Nat, HandleNext(remaining), rx # << >>
        PROVE  FlowInv'
    <2>1. CASE HasFinishedSynchronous(serial)
      <3> DEFINE TP == PacketsOf(TransactionRefs)
      <3>1. serial.writeBuffer \in Seq(TP) /\ serial.tx \in Seq(TP)
        BY <1>0, <2>1, SerialFields DEF SerialInv, FlowInv, Counting
      <3>2. Commands \in Seq(TP)
        BY IndInvType, CommandPacketsType DEF Commands
      <3> HIDE DEF TP
      <3>3. Counting(serial', rx', loopDue') /\ SameNotes(serial, serial')
        BY <1>3, <2>1, <3>1, <3>2, HandleCounting
      <3> QED
        BY <2>1, <3>3 DEF FlowInv, HasFinishedSynchronous, SameNotes
    <2>2. CASE ~HasFinishedSynchronous(serial)
      <3> DEFINE t == HandlePayload(serial, Frame, Commands)
      <3>1. Handshake(serial, rx)
        BY <2>2 DEF FlowInv
      <3>2. Frame \in StepAnswers(serial)
        BY <1>3, <3>1 DEF Handshake, OneStep, Frame
      <3>3. t = SynchronousAnswer(serial, Frame)
        BY <1>0, <2>2, <3>2, HandshakeNotCounted DEF HandlePayload
      <3>4. /\ t.pendingWrites = 0
            /\ IF HasFinishedSynchronous(t) THEN Counting(t, Tail(rx), loopDue)
                                            ELSE Handshake(t, Tail(rx))
        BY <1>0, <1>3, <2>2, <3>1, <3>3, HandshakeAnswer DEF Frame
      <3>5. /\ serial' = IF remaining = 0 THEN Flush(t) ELSE t
            /\ rx' = Tail(rx) /\ loopDue' = loopDue
        BY <1>3 DEF HandleNext, HandleFrame, Frame, Noted, Ready, Commands
      <3>6. SerialInv(t)
        <4>1. Frame \in FramesOf(RefsSoFar(serial))
          BY <1>3 DEF IndInv, Frame
        <4>2. Commands \in Seq(PacketsOf(TransactionRefs))
          BY IndInvType, CommandPacketsType DEF Commands
        <4> QED
          BY <1>0, <4>1, <4>2, HandlePayloadInv
      <3> HIDE DEF t
      <3>7. CASE remaining = 0
        BY <3>4, <3>5, <3>6, <3>7, FlushIdle DEF FlowInv
      <3>8. CASE remaining # 0
        BY <3>4, <3>5, <3>8 DEF FlowInv
      <3> QED
        BY <3>7, <3>8
    <2> QED
      BY <2>1, <2>2
  <1>4. CASE DoRead
    <2>1. PICK n \in 1 .. MaxRead : n <= Len(rx) /\ HandleNext(n - 1)
      BY <1>4 DEF DoRead
    <2>2. n - 1 \in Nat /\ rx # << >>
      BY <2>1, BoundsAssumption DEF IndInv
    <2> QED
      BY <1>3, <2>1, <2>2
  <1>5. CASE DoReadNext
    <2>1. toRead - 1 \in Nat /\ rx # << >>
      BY <1>5 DEF DoReadNext, IndInv, RestOK
    <2> QED
      BY <1>3, <1>5, <2>1 DEF DoReadNext
  <1> QED
    BY <1>1, <1>2, <1>4, <1>5 DEF Daemon

\* The hub takes a packet and may answer it with one of the same number.
LEMMA TakesFields ==
    ASSUME IndInv, HubTakes
    PROVE  /\ serial'.tx = Tail(serial.tx) /\ serial.tx # << >>
           /\ serial'.outstandingMessages = serial.outstandingMessages
           /\ serial'.writeBuffer = serial.writeBuffer
           /\ serial'.currentCount = serial.currentCount
           /\ serial'.pendingWrites = serial.pendingWrites
           /\ serial'.sendState = serial.sendState
           /\ SameNotes(serial, serial') /\ SameAnswers(serial, serial')
  BY DEF IndInv, SerialInv, Serials, HubTakes, SameNotes, SameAnswers

LEMMA AnswerFields ==
    ASSUME NEW kind, NEW p
    PROVE  /\ Answer(kind, p).kind = kind /\ Answer(kind, p).ref = p.ref
           /\ Answer(kind, p).ch = p.ch
  BY DEF Answer

\* What the hub and the link can do with the first packet.
Delivered ==
    LET p == Head(serial.tx)
    IN  \/ rx' = rx
        \/ /\ rx' = Append(rx, Answer("reply", p)) /\ hub' = Perform(p)
        \/ /\ <<"nack", p.ref>> \in Faults
           /\ rx' = Append(rx, Answer("nack", p)) /\ hub' = hub
        \/ /\ <<"corrupt answer", p.ref>> \in Faults
           /\ rx' = Append(rx, Answer("corrupt", p)) /\ hub' = Perform(p)
        \/ /\ <<"child answers", p.ref>> \in Faults
           /\ rx' = rx \o <<[Answer("reply", p) EXCEPT !.val = 0],
                            Answer("reply", p)>>
           /\ hub' = hub

LEMMA HubDelivers ==
    ASSUME HubAndLink
    PROVE  \/ HubTakes /\ Delivered
           \/ HubResets
  BY DEF HubAndLink, HubAnswers, LoseRequest, HubNacks, LoseAnswer,
         CorruptAnswer, ChildAnswersToo, Fault, Delivered

LEMMA TakesHandshake ==
    ASSUME CountedOnly, IndInv, Handshake(serial, rx), HubTakes, Delivered
    PROVE  Handshake(serial', rx')
  <1> DEFINE p == Head(serial.tx)
             t == serial'
  <1>1. /\ serial.tx \in Seq(StepRequests(serial))
        /\ rx \in Seq(StepAnswers(serial))
        /\ Len(serial.tx) + Len(rx) <= 1 \/ Len(serial.tx) = 0
        /\ serial.discoverDue => serial.tx = << >>
    BY DEF Handshake, OneStep
  <1>2. /\ t.tx = Tail(serial.tx) /\ serial.tx # << >>
        /\ t.outstandingMessages = serial.outstandingMessages
        /\ t.pendingWrites = serial.pendingWrites
        /\ t.sendState = serial.sendState
        /\ SameNotes(serial, t)
    BY TakesFields
  <1>3. Len(serial.tx) \in Nat \ {0} /\ Len(rx) \in Nat
    BY <1>1, <1>2, EmptySeq
  <1>4. Len(serial.tx) = 1 /\ Len(rx) = 0
    <2> DEFINE a == Len(serial.tx)
               b == Len(rx)
    <2>1. a \in Nat \ {0} /\ b \in Nat /\ (a + b <= 1 \/ a = 0)
      BY <1>1, <1>3
    <2> HIDE DEF a, b
    <2>2. a = 1 /\ b = 0
      BY <2>1
    <2> QED
      BY <2>2 DEF a, b
  <1>5. rx = << >> /\ t.tx = << >>
    <2>1. Tail(serial.tx) \in Seq(StepRequests(serial))
          /\ Len(Tail(serial.tx)) = 0
      BY <1>1, <1>2, <1>4
    <2> QED
      BY <1>1, <1>2, <1>4, <2>1, EmptySeq
  <1>6. p \in StepRequests(serial)
    BY <1>1, <1>2
  <1>7. SynchronousStep(t) = SynchronousStep(serial) /\ ~t.discoverDue
    BY <1>1, <1>2 DEF SynchronousStep, SameNotes
  <1>8. p \in PacketsOf(SynchronousRefs) /\ p.ref = SynchronousStep(t)
    BY <1>6, <1>7 DEF StepRequests
  <1>9. \A kind \in {"reply", "nack", "corrupt"} :
            (kind # "reply" => p.ref # "FTDI_RESET_CONTROL")
                => Answer(kind, p) \in StepAnswers(t)
    BY <1>8, AnswerType, AnswerFields DEF StepAnswers
  <1> DEFINE a == Answer("reply", p)
             child == [a EXCEPT !.val = 0]
  <1>10. child \in StepAnswers(t)
         /\ (p.ref = "DISCOVER" => IsChildAnswer(child))
    <2>1. a \in StepAnswers(t) /\ a.kind = "reply" /\ a.ref = p.ref
      BY <1>9, AnswerFields
    <2>2. a \in FramesOf(SynchronousRefs)
      BY <2>1 DEF StepAnswers
    <2> HIDE DEF a
    <2>3. /\ child \in FramesOf(SynchronousRefs) /\ child.kind = "reply"
          /\ child.ref = p.ref /\ child.val = 0
      BY <2>1, <2>2 DEF FramesOf
    <2> QED
      BY <1>8, <2>3 DEF StepAnswers, IsChildAnswer, IsReply
  <1>11. \/ rx' = << >>
         \/ \E f \in StepAnswers(t) : rx' = <<f>>
         \/ \E f, g \in StepAnswers(t) : rx' = <<f, g>> /\ IsChildAnswer(f)
    <2>1. CASE rx' = rx
      BY <1>5, <2>1
    <2>2. ASSUME NEW f \in StepAnswers(t), rx' = Append(rx, f)
          PROVE  rx' = <<f>>
      BY <1>5, <2>2
    <2>3. CASE rx' = Append(rx, Answer("reply", p))
      <3>1. Answer("reply", p) \in StepAnswers(t)
        BY <1>9
      <3> QED
        BY <2>2, <2>3, <3>1
    <2>4. CASE /\ <<"nack", p.ref>> \in Faults
               /\ rx' = Append(rx, Answer("nack", p))
      <3>1. Answer("nack", p) \in StepAnswers(t)
        BY <1>9, <2>4 DEF CountedOnly
      <3> QED
        BY <2>2, <2>4, <3>1
    <2>5. CASE /\ <<"corrupt answer", p.ref>> \in Faults
               /\ rx' = Append(rx, Answer("corrupt", p))
      <3>1. Answer("corrupt", p) \in StepAnswers(t)
        BY <1>9, <2>5 DEF CountedOnly
      <3> QED
        BY <2>2, <2>5, <3>1
    <2>6. CASE /\ <<"child answers", p.ref>> \in Faults
               /\ rx' = rx \o <<child, a>>
      <3>1. a \in StepAnswers(t) /\ p.ref = "DISCOVER"
        BY <1>9, <2>6 DEF CountedOnly
      <3>2. child \in StepAnswers(t) /\ IsChildAnswer(child)
        BY <1>10, <3>1
      <3> HIDE DEF a, child, t, p
      <3>3. <<child, a>> \in Seq(StepAnswers(t))
        BY <3>1, <3>2
      <3>4. rx' = <<child, a>>
        BY <1>5, <2>6, <3>3, ConcatEmptySeq
      <3> QED
        BY <3>1, <3>2, <3>4
    <2> QED
      BY <2>1, <2>3, <2>4, <2>5, <2>6 DEF Delivered
  <1> HIDE DEF t, p, a, child
  <1>12. t.tx \in Seq(StepRequests(t)) /\ Len(t.tx) = 0
    BY <1>5
  <1>13. /\ rx' \in Seq(StepAnswers(t))
         /\ \/ Len(t.tx) + Len(rx') <= 1
            \/ Len(t.tx) = 0 /\ Len(rx') = 2 /\ IsChildAnswer(rx'[1])
    <2>1. CASE rx' = << >>
      BY <1>12, <2>1
    <2>2. CASE \E f \in StepAnswers(t) : rx' = <<f>>
      BY <1>12, <2>2
    <2>3. CASE \E f, g \in StepAnswers(t) : rx' = <<f, g>> /\ IsChildAnswer(f)
      <3>1. PICK f, g \in StepAnswers(t) : rx' = <<f, g>> /\ IsChildAnswer(f)
        BY <2>3
      <3>2. Len(<<f, g>>) = 2 /\ <<f, g>>[1] = f
            /\ <<f, g>> \in Seq(StepAnswers(t))
        OBVIOUS
      <3> QED
        BY <1>12, <3>1, <3>2
    <2> QED
      BY <1>11, <2>1, <2>2, <2>3
  <1>14. OneStep(t, rx')
    BY <1>7, <1>12, <1>13 DEF OneStep
  <1>15. Handshake(t, rx')
    BY <1>2, <1>14 DEF Handshake, AllowSend
  <1> QED
    BY <1>15 DEF t

LEMMA TakesCounting ==
    ASSUME CountedOnly, IndInv, Counting(serial, rx, loopDue), HubTakes,
           Delivered
    PROVE  /\ Counting(serial', rx', loopDue')
           /\ \/ rx' = rx
              \/ \E kind \in {"reply", "nack", "corrupt"} :
                     /\ rx' = Append(rx, Answer(kind, Head(serial.tx)))
                     /\ kind # "nack" => hub' = Perform(Head(serial.tx))
  <1> DEFINE p == Head(serial.tx)
             t == serial'
  <1>1. /\ serial.tx \in Seq(PacketsOf(TransactionRefs))
        /\ rx \in Seq(FramesOf(TransactionRefs))
        /\ Len(serial.tx) + Len(rx) <= serial.outstandingMessages
        /\ loopDue => serial.tx = << >>
    BY DEF Counting
  <1>2. /\ t.tx = Tail(serial.tx) /\ serial.tx # << >>
        /\ t.outstandingMessages = serial.outstandingMessages
        /\ t.sendState = serial.sendState /\ loopDue' = loopDue
    BY TakesFields DEF HubTakes
  <1>3. /\ t.tx \in Seq(PacketsOf(TransactionRefs))
        /\ Len(t.tx) = Len(serial.tx) - 1
        /\ p \in PacketsOf(TransactionRefs)
        /\ Len(serial.tx) \in Nat /\ Len(rx) \in Nat
    BY <1>1, <1>2
  <1>4. p.ref \in TransactionRefs
    BY <1>3 DEF PacketsOf
  <1>5. p.ref # "DISCOVER"
    BY <1>4 DEF TransactionRefs, CachedRefs, OtherRefs
  <1>6. \/ rx' = rx
        \/ \E kind \in {"reply", "nack", "corrupt"} :
               /\ rx' = Append(rx, Answer(kind, p))
               /\ kind # "nack" => hub' = Perform(p)
    BY <1>5 DEF Delivered, CountedOnly
  <1>7. /\ rx' \in Seq(FramesOf(TransactionRefs))
        /\ Len(rx') = Len(rx) \/ Len(rx') = Len(rx) + 1
    <2>1. CASE rx' = rx
      BY <1>1, <2>1
    <2>2. CASE \E kind \in {"reply", "nack", "corrupt"} :
                   rx' = Append(rx, Answer(kind, p))
      <3>1. PICK kind \in {"reply", "nack", "corrupt"} :
                rx' = Append(rx, Answer(kind, p))
        BY <2>2
      <3>2. Answer(kind, p) \in FramesOf(TransactionRefs)
        BY <1>3, AnswerType
      <3> QED
        BY <1>1, <3>1, <3>2, AppendProperties
    <2> QED
      BY <1>6, <2>1, <2>2
  <1> HIDE DEF t, p
  <1>8. Len(t.tx) + Len(rx') <= t.outstandingMessages
    <2> DEFINE a == Len(serial.tx)
               b == Len(rx)
               c == Len(rx')
               o == serial.outstandingMessages
    <2>1. a \in Nat /\ b \in Nat /\ o \in 0 .. 255 /\ a + b <= o
          /\ (c = b \/ c = b + 1)
      BY <1>1, <1>3, <1>7, SerialFields DEF IndInv, SerialInv
    <2> HIDE DEF a, b, c, o
    <2>2. (a - 1) + c <= o
      BY <2>1
    <2> QED
      BY <1>2, <1>3, <2>2 DEF a, c, o
  <1>9. Counting(t, rx', loopDue')
    BY <1>1, <1>2, <1>3, <1>7, <1>8 DEF Counting, AllowSend
  <1> QED
    BY <1>6, <1>9 DEF t, p

LEMMA HubFlow ==
    ASSUME CountedOnly, IndInv, FlowInv, HubAndLink
    PROVE  FlowInv'
  <1>1. CASE HubTakes /\ Delivered
    <2>1. HasFinishedSynchronous(serial') = HasFinishedSynchronous(serial)
      BY <1>1, TakesFields DEF HasFinishedSynchronous, SameNotes
    <2> QED
      BY <1>1, <2>1, TakesHandshake, TakesCounting DEF FlowInv
  <1>2. CASE HubResets
    BY <1>2 DEF HubResets, FlowInv
  <1> QED
    BY <1>1, <1>2, HubDelivers

LEMMA ClockFlow ==
    ASSUME NeverStalls, IndInv, FlowInv, SecondPasses
    PROVE  FlowInv'
  <1> DEFINE t == [serial EXCEPT !.discoverDue = TRUE]
  <1>1. serial.tx = << >> /\ rx = << >>
    <2>1. left.stalls \in 0 .. 0
      BY DEF IndInv, RestOK, Bounds, NeverStalls
    <2> QED
      BY <2>1 DEF SecondPasses, Quiet
  <1>2. serial' = t /\ rx' = rx /\ serial \in Serials
    BY DEF SecondPasses, IndInv, SerialInv
  <1>3. /\ t.tx = serial.tx /\ t.address = serial.address
        /\ t.packetInterfaceId = serial.packetInterfaceId
        /\ t.configuredFtdiReset = serial.configuredFtdiReset
        /\ t.sendState = serial.sendState
        /\ t.pendingWrites = serial.pendingWrites
        /\ t.outstandingMessages = serial.outstandingMessages
    BY <1>2 DEF Serials
  <1> HIDE DEF t
  <1>4. /\ HasFinishedSynchronous(t) = HasFinishedSynchronous(serial)
        /\ AllowSend(t) = AllowSend(serial)
        /\ SynchronousStep(t) = SynchronousStep(serial)
    BY <1>3 DEF HasFinishedSynchronous, AllowSend, SynchronousStep
  <1>5. /\ StepRequests(t) = StepRequests(serial)
        /\ StepAnswers(t) = StepAnswers(serial)
    BY <1>4 DEF StepRequests, StepAnswers
  <1>6. CASE HasFinishedSynchronous(serial)
    <2>1. Counting(t, rx, TRUE)
      BY <1>1, <1>3, <1>4, <1>6 DEF FlowInv, Counting
    <2>2. loopDue' = TRUE
      BY DEF SecondPasses
    <2> QED
      BY <1>2, <1>4, <1>6, <2>1, <2>2 DEF FlowInv
  <1>7. CASE ~HasFinishedSynchronous(serial)
    <2>1. Handshake(t, rx)
      BY <1>1, <1>3, <1>4, <1>5, <1>7 DEF FlowInv, Handshake, OneStep
    <2> QED
      BY <1>2, <1>4, <1>7, <2>1 DEF FlowInv
  <1> QED
    BY <1>6, <1>7

(***************************************************************************)
(* The theorems about the count.                                           *)
(***************************************************************************)

\* The invariant of the flow holds in every reachable state.
THEOREM FlowInductive ==
    ASSUME CountedOnly, NeverStalls
    PROVE  Spec => []FlowInv
  <1>1. Init => FlowInv
    BY FlowInit
  <1>2. IndInv /\ FlowInv /\ [Next]_vars => FlowInv'
    <2> SUFFICES ASSUME IndInv, FlowInv, [Next]_vars
                 PROVE  FlowInv'
      OBVIOUS
    <2>1. CASE Client
      <3>1. UNCHANGED <<serial, rx, loopDue>>
        BY <2>1 DEF Client, SetSetting, SetPulseWidth, RequestReset,
                    WatchdogChanges, ClientChanges
      <3> QED
        BY <3>1 DEF FlowInv
    <2>2. CASE UNCHANGED vars
      BY <2>2 DEF vars, FlowInv
    <2> QED
      BY <2>1, <2>2, DaemonFlow, HubFlow, ClockFlow DEF Next
  <1> QED
    BY <1>1, <1>2, Inductive, PTL DEF Spec

\* A sequence of synchronous packets counts none.
LEMMA CountedNone ==
    ASSUME NEW q, \A i \in DOMAIN q : q[i].ref \in SynchronousRefs
    PROVE  Counted(q) = 0
  <1>1. {i \in DOMAIN q : q[i].ref \notin SynchronousRefs} = {}
    OBVIOUS
  <1> QED
    BY <1>1, FS_EmptySet DEF Counted

\* A sequence of transaction packets counts them all.
LEMMA CountedAll ==
    ASSUME NEW S, NEW q \in Seq(S),
           \A i \in DOMAIN q : q[i].ref \in TransactionRefs
    PROVE  Counted(q) = Len(q)
  <1>1. TransactionRefs \cap SynchronousRefs = {}
    BY DEF TransactionRefs, SynchronousRefs, CachedRefs, OtherRefs
  <1>2. {i \in DOMAIN q : q[i].ref \notin SynchronousRefs} = 1 .. Len(q)
    BY <1>1
  <1>3. Len(q) \in Nat
    OBVIOUS
  <1>4. Cardinality(1 .. Len(q)) = Len(q)
    BY <1>3, FS_Interval, SMTT(40)
  <1> QED
    BY <1>2, <1>4 DEF Counted

\* How much is in flight in the two phases.
LEMMA InFlightIs ==
    ASSUME FlowInv
    PROVE  InFlight = IF HasFinishedSynchronous(serial)
                      THEN Len(serial.tx) + Len(rx) ELSE 0
  <1>1. CASE HasFinishedSynchronous(serial)
    <2>1. /\ serial.tx \in Seq(PacketsOf(TransactionRefs))
          /\ rx \in Seq(FramesOf(TransactionRefs))
      BY <1>1 DEF FlowInv, Counting
    <2>2. /\ \A i \in DOMAIN serial.tx : serial.tx[i].ref \in TransactionRefs
          /\ \A i \in DOMAIN rx : rx[i].ref \in TransactionRefs
      <3>1. /\ \A i \in DOMAIN serial.tx :
                   serial.tx[i] \in PacketsOf(TransactionRefs)
            /\ \A i \in DOMAIN rx : rx[i] \in FramesOf(TransactionRefs)
        BY <2>1
      <3>2. /\ \A p \in PacketsOf(TransactionRefs) : p.ref \in TransactionRefs
            /\ \A f \in FramesOf(TransactionRefs) : f.ref \in TransactionRefs
        BY DEF PacketsOf, FramesOf
      <3> QED
        BY <3>1, <3>2
    <2>3. Counted(serial.tx) = Len(serial.tx) /\ Counted(rx) = Len(rx)
      BY <2>1, <2>2, CountedAll
    <2> QED
      BY <1>1, <2>3 DEF InFlight
  <1>2. CASE ~HasFinishedSynchronous(serial)
    <2>1. /\ serial.tx \in Seq(StepRequests(serial))
          /\ rx \in Seq(StepAnswers(serial))
      BY <1>2 DEF FlowInv, Handshake, OneStep
    <2>2. /\ \A i \in DOMAIN serial.tx : serial.tx[i].ref \in SynchronousRefs
          /\ \A i \in DOMAIN rx : rx[i].ref \in SynchronousRefs
      BY <2>1 DEF PacketsOf, FramesOf, StepRequests, StepAnswers
    <2>3. Counted(serial.tx) = 0 /\ Counted(rx) = 0
      BY <2>2, CountedNone
    <2> QED
      BY <1>2, <2>3 DEF InFlight
  <1> QED
    BY <1>1, <1>2

\* Never more packets on their way than the daemon counts, and never more
\* counted than the window allows, for every window up to 255 and any number
\* of losses, refusals and corruptions.
THEOREM FlowControlled ==
    ASSUME CountedOnly, NeverStalls
    PROVE  Spec => []FlowControl
  <1>1. FlowInv => FlowControl
    <2> SUFFICES ASSUME FlowInv
                 PROVE  FlowControl
      OBVIOUS
    <2>1. 0 <= 0 /\ 0 <= MaxOutstanding
      BY MaxOutstandingAssumption
    <2> QED
      BY <2>1, InFlightIs DEF FlowInv, FlowControl, Counting, Handshake
  <1> QED
    BY <1>1, FlowInductive, PTL

\* No answer of a transaction is left over for the next one.
THEOREM NothingStale ==
    ASSUME CountedOnly, NeverStalls
    PROVE  Spec => []NoStaleAnswers
  <1>1. IndInv /\ FlowInv => NoStaleAnswers
    <2> SUFFICES ASSUME IndInv, FlowInv, AllowSend(serial)
                 PROVE  InFlight = 0
      BY DEF NoStaleAnswers
    <2>1. HasFinishedSynchronous(serial)
              => Len(serial.tx) = 0 /\ Len(rx) = 0
      BY NothingOnItsWay
    <2> QED
      BY <2>1, InFlightIs
  <1> QED
    BY <1>1, Inductive, FlowInductive, PTL
=============================================================================
