--------------------------- MODULE HubDaemonProofs ---------------------------
(***************************************************************************)
(* Theorems about HubDaemon, for every set of channels, every window and   *)
(* every bound on the environment, with every fault.                       *)
(***************************************************************************)
EXTENDS HubDaemon, SequenceTheorems, TLAPS

(***************************************************************************)
(* The inductive invariant.                                                *)
(***************************************************************************)

\* The requests that can have been made: a synchronous step is only taken
\* when the one before it was answered.
RefsSoFar(s) ==
    TransactionRefs \cup {"DISCOVER"}
        \cup (IF s.address THEN {"QUERY_INTERFACE"} ELSE {})
        \cup (IF s.packetInterfaceId THEN {"FTDI_RESET_CONTROL"} ELSE {})

\* What every method of the object preserves.
SerialInv(s) ==
    /\ s \in Serials
    /\ Len(s.writeBuffer) = s.currentCount + s.pendingWrites
    /\ AllowSend(s) => s.pendingWrites = 0
    /\ s.configuredFtdiReset => s.packetInterfaceId
    /\ s.packetInterfaceId => s.address
    /\ s.tx \in Seq(PacketsOf(RefsSoFar(s)))

\* The types of everything but the object and the answers.
RestOK ==
    /\ cache \in [Settings -> Caches(Value)]
    /\ encoderReset \in EncoderResets
    /\ toRead \in Nat
    /\ loopDue \in BOOLEAN
    /\ client \in Clients
    /\ watchdog \in BOOLEAN
    /\ hub \in Hubs
    /\ left \in Bounds

IndInv ==
    /\ SerialInv(serial)
    /\ rx \in Seq(FramesOf(RefsSoFar(serial)))
    /\ toRead <= Len(rx)
    /\ RestOK

(***************************************************************************)
(* Sequences.                                                              *)
(***************************************************************************)

\* A sequence over a set is one over every larger set.
LEMMA SeqMonotone ==
    ASSUME NEW S, NEW T, S \subseteq T, NEW q \in Seq(S)
    PROVE  q \in Seq(T)
  <1>1. q \in [1 .. Len(q) -> S] /\ Len(q) \in Nat
    OBVIOUS
  <1>2. q \in [1 .. Len(q) -> T]
    BY <1>1
  <1> QED
    BY <1>1, <1>2, SeqDef

\* Flush hands over exactly the packets that follow the ones already written.
LEMMA FlushedPart ==
    ASSUME NEW S, NEW q \in Seq(S), NEW c \in Nat, NEW n \in Nat,
           c + n <= Len(q)
    PROVE  SubSeq(q, c + 1, c + n) \in Seq(S)
  BY SubSeqProperties

(***************************************************************************)
(* The methods of ExpansionHubSerial preserve SerialInv.                   *)
(***************************************************************************)

\* The types of the fields that are computed with.
LEMMA SerialFields ==
    ASSUME NEW s \in Serials
    PROVE  /\ s.outstandingMessages \in 0 .. 255
           /\ s.pendingWrites \in Nat
           /\ s.currentCount \in Nat
           /\ s.writeBuffer \in Seq(PacketsOf(TransactionRefs))
           /\ s.tx \in Seq(PacketsOf(Refs))
  BY DEF Serials, UInt8

\* A uint8_t stays one.
LEMMA UInt8Range ==
    ASSUME NEW k \in Nat
    PROVE  k % UInt8 \in 0 .. 255
  BY DEF UInt8

\* Counting an answer too many wraps to 255.
LEMMA DecrementRange ==
    ASSUME NEW k \in 0 .. 255
    PROVE  Decrement(k) \in 0 .. 255
  <1>1. k + UInt8 - 1 \in Nat
    BY DEF UInt8
  <1> QED
    BY <1>1, UInt8Range DEF Decrement

\* Flush never writes more than is pending.
LEMMA ToWriteBound ==
    ASSUME NEW s \in Serials
    PROVE  ToWrite(s) \in Nat /\ ToWrite(s) <= s.pendingWrites
  <1>1. s.pendingWrites \in Nat /\ s.outstandingMessages \in 0 .. 255
    BY SerialFields
  <1> QED
    BY <1>1, MaxOutstandingAssumption DEF ToWrite

\* The packets a transaction queues may always be on the wire.
LEMMA TransactionPacketsSoFar ==
    ASSUME NEW s
    PROVE  PacketsOf(TransactionRefs) \subseteq PacketsOf(RefsSoFar(s))
  BY DEF PacketsOf, RefsSoFar

\* A method that changes neither the address nor the interface id changes
\* nothing about which requests can have been made.
LEMMA FlushInv ==
    ASSUME NEW s, SerialInv(s)
    PROVE  /\ SerialInv(Flush(s))
           /\ RefsSoFar(Flush(s)) = RefsSoFar(s)
           /\ Flush(s).sendState = s.sendState
  <1> DEFINE n == ToWrite(s)
             part == SubSeq(s.writeBuffer, s.currentCount + 1,
                            s.currentCount + n)
             t == Flush(s)
  <1>1. n \in Nat /\ n <= s.pendingWrites /\ s \in Serials
    BY ToWriteBound DEF SerialInv
  <1>2. part \in Seq(PacketsOf(TransactionRefs))
    <2>1. s.writeBuffer \in Seq(PacketsOf(TransactionRefs))
      BY <1>1, SerialFields
    <2>2. s.currentCount \in Nat /\ s.currentCount + n <= Len(s.writeBuffer)
      BY <1>1, SerialFields DEF SerialInv
    <2> QED
      BY <1>1, <2>1, <2>2, FlushedPart
  <1>3. part \in Seq(PacketsOf(RefsSoFar(s)))
    BY <1>2, TransactionPacketsSoFar, SeqMonotone
  <1>4. part \in Seq(PacketsOf(Refs))
    <2>1. PacketsOf(TransactionRefs) \subseteq PacketsOf(Refs)
      BY DEF PacketsOf, Refs
    <2> QED
      BY <1>2, <2>1, SeqMonotone
  <1>5. s.tx \o part \in Seq(PacketsOf(RefsSoFar(s)))
    BY <1>3 DEF SerialInv
  <1>6. s.tx \o part \in Seq(PacketsOf(Refs))
    BY <1>1, <1>4, SerialFields
  <1> DEFINE out == (s.outstandingMessages + n) % UInt8
             pending == s.pendingWrites - n
             count == s.currentCount + n
             tx == s.tx \o part
  <1>c. tx \in Seq(PacketsOf(Refs))
    BY <1>6
  <1>7. out \in 0 .. 255 /\ pending \in Nat /\ count \in Nat
    <2>1. /\ s.outstandingMessages \in 0 .. 255
          /\ s.pendingWrites \in Nat /\ s.currentCount \in Nat
      BY <1>1, SerialFields
    <2> HIDE DEF n
    <2>2. s.outstandingMessages + n \in Nat
      BY <1>1, <2>1
    <2>3. out \in 0 .. 255
      BY <2>2, UInt8Range
    <2> QED
      BY <1>1, <2>1, <2>3
  <1>8. t = [s EXCEPT !.tx = tx, !.outstandingMessages = out,
                      !.pendingWrites = pending, !.currentCount = count]
    BY DEF Flush
  <1> HIDE DEF n, part, t, out, pending, count, tx
  <1>a. t \in Serials
    <2>1. [s EXCEPT !.tx = tx, !.outstandingMessages = out,
                    !.pendingWrites = pending, !.currentCount = count]
              \in Serials
      BY <1>1, <1>c, <1>7, Zenon DEF Serials
    <2> QED
      BY <1>8, <2>1
  <1>b. /\ t.tx = tx /\ t.pendingWrites = pending
        /\ t.currentCount = count /\ t.writeBuffer = s.writeBuffer
        /\ t.sendState = s.sendState /\ t.address = s.address
        /\ t.packetInterfaceId = s.packetInterfaceId
        /\ t.configuredFtdiReset = s.configuredFtdiReset
    BY <1>1, <1>8 DEF Serials
  <1>9. RefsSoFar(t) = RefsSoFar(s)
    BY <1>b DEF RefsSoFar
  <1>10. SerialInv(t)
    BY <1>1, <1>5, <1>a, <1>b, <1>9, SerialFields
       DEF SerialInv, AllowSend, pending, count, tx
  <1> QED
    BY <1>b, <1>9, <1>10 DEF t

\* Queueing packets, which only happens inside a transaction.
LEMMA SendPacketsInv ==
    ASSUME NEW s, SerialInv(s), ~AllowSend(s),
           NEW packets \in Seq(PacketsOf(TransactionRefs))
    PROVE  /\ SerialInv(SendPackets(s, packets))
           /\ RefsSoFar(SendPackets(s, packets)) = RefsSoFar(s)
           /\ SendPackets(s, packets).sendState = s.sendState
  <1> DEFINE t == SendPackets(s, packets)
             buffer == s.writeBuffer \o packets
  <1>1. s \in Serials
    BY DEF SerialInv
  <1>2. /\ buffer \in Seq(PacketsOf(TransactionRefs))
        /\ Len(buffer) = Len(s.writeBuffer) + Len(packets)
        /\ Len(packets) \in Nat
    BY <1>1, SerialFields
  <1> DEFINE pending == s.pendingWrites + Len(packets)
  <1>3. pending \in Nat
    BY <1>1, <1>2, SerialFields
  <1>4. t = [s EXCEPT !.writeBuffer = buffer, !.pendingWrites = pending]
    BY DEF SendPackets
  <1> HIDE DEF t, buffer, pending
  <1>a. t \in Serials
    <2>1. [s EXCEPT !.writeBuffer = buffer, !.pendingWrites = pending]
              \in Serials
      BY <1>1, <1>2, <1>3, Zenon DEF Serials
    <2> QED
      BY <1>4, <2>1
  <1>b. /\ t.tx = s.tx /\ t.pendingWrites = pending
        /\ t.currentCount = s.currentCount /\ t.writeBuffer = buffer
        /\ t.sendState = s.sendState /\ t.address = s.address
        /\ t.packetInterfaceId = s.packetInterfaceId
        /\ t.configuredFtdiReset = s.configuredFtdiReset
    BY <1>1, <1>4 DEF Serials
  <1>5. RefsSoFar(t) = RefsSoFar(s)
    BY <1>b DEF RefsSoFar
  <1>6. SerialInv(t)
    BY <1>1, <1>2, <1>a, <1>b, <1>5, SerialFields
       DEF SerialInv, AllowSend, pending
  <1> QED
    BY <1>b, <1>5, <1>6 DEF t

\* Changing fields that SerialInv says nothing about.
LEMMA SameBuffers ==
    ASSUME NEW s, SerialInv(s), NEW t \in Serials,
           t.tx = s.tx, t.writeBuffer = s.writeBuffer,
           t.currentCount = s.currentCount,
           t.pendingWrites = s.pendingWrites, t.address = s.address,
           t.packetInterfaceId = s.packetInterfaceId,
           t.configuredFtdiReset = s.configuredFtdiReset,
           AllowSend(t) => t.pendingWrites = 0
    PROVE  SerialInv(t) /\ RefsSoFar(t) = RefsSoFar(s)
  <1>1. RefsSoFar(t) = RefsSoFar(s)
    BY DEF RefsSoFar
  <1> QED
    BY <1>1 DEF SerialInv

\* A transaction starts with nothing pending, so clearing the buffer loses
\* nothing.
LEMMA StartTransactionInv ==
    ASSUME NEW s, SerialInv(s), s.pendingWrites = 0, NEW canDoEnable \in BOOLEAN
    PROVE  /\ SerialInv(StartTransaction(s, canDoEnable))
           /\ RefsSoFar(StartTransaction(s, canDoEnable)) = RefsSoFar(s)
           /\ ~AllowSend(StartTransaction(s, canDoEnable))
  <1> DEFINE t == StartTransaction(s, canDoEnable)
  <1>1. s \in Serials
    BY DEF SerialInv
  <1>2. << >> \in Seq(PacketsOf(TransactionRefs)) /\ Len(<< >>) = 0
    OBVIOUS
  <1>3. t \in Serials
    <2>1. "WaitingForPackets" \in SendStates
      BY DEF SendStates
    <2>2. 0 \in Nat
      OBVIOUS
    <2> QED
      BY <1>1, <1>2, <2>1, <2>2, Zenon DEF Serials, StartTransaction
  <1>4. /\ t.tx = s.tx /\ t.writeBuffer = << >> /\ t.currentCount = 0
        /\ t.pendingWrites = s.pendingWrites /\ t.address = s.address
        /\ t.packetInterfaceId = s.packetInterfaceId
        /\ t.configuredFtdiReset = s.configuredFtdiReset
        /\ t.sendState = "WaitingForPackets"
    BY <1>1 DEF Serials, StartTransaction
  <1> HIDE DEF t
  <1>5. RefsSoFar(t) = RefsSoFar(s)
    BY <1>4 DEF RefsSoFar
  <1>6. SerialInv(t) /\ ~AllowSend(t)
    BY <1>2, <1>3, <1>4, <1>5 DEF SerialInv, AllowSend
  <1> QED
    BY <1>5, <1>6 DEF t

\* Recover leaves nothing pending, in any state.
LEMMA RecoverInv ==
    ASSUME NEW s, SerialInv(s)
    PROVE  /\ SerialInv(Recover(s))
           /\ RefsSoFar(Recover(s)) = RefsSoFar(s)
           /\ Recover(s).pendingWrites = 0
  <1> DEFINE t == Recover(s)
  <1>1. s \in Serials
    BY DEF SerialInv
  <1>2. << >> \in Seq(PacketsOf(TransactionRefs)) /\ Len(<< >>) = 0
    OBVIOUS
  <1>3. t \in Serials
    <2>1. 0 \in Nat /\ 0 \in 0 .. 255
      OBVIOUS
    <2> QED
      BY <1>1, <1>2, <2>1, Zenon DEF Serials, Recover
  <1>4. /\ t.tx = s.tx /\ t.writeBuffer = << >> /\ t.currentCount = 0
        /\ t.pendingWrites = 0 /\ t.address = s.address
        /\ t.packetInterfaceId = s.packetInterfaceId
        /\ t.configuredFtdiReset = s.configuredFtdiReset
    BY <1>1 DEF Serials, Recover
  <1> HIDE DEF t
  <1>5. RefsSoFar(t) = RefsSoFar(s)
    BY <1>4 DEF RefsSoFar
  <1>6. SerialInv(t)
    BY <1>2, <1>3, <1>4, <1>5 DEF SerialInv
  <1> QED
    BY <1>4, <1>5, <1>6 DEF t

\* The request of a synchronous step is one that can be made by then.
LEMMA RunSynchronousStepsInv ==
    ASSUME NEW s, SerialInv(s)
    PROVE  /\ SerialInv(RunSynchronousSteps(s))
           /\ RefsSoFar(RunSynchronousSteps(s)) = RefsSoFar(s)
  <1>1. CASE ~(s.discoverDue /\ ~AllStepsDone(s))
    BY <1>1 DEF RunSynchronousSteps
  <1>2. CASE s.discoverDue /\ ~AllStepsDone(s)
    <2> DEFINE request == Request(SynchronousStep(s), 0, 0)
               tx == Append(s.tx, request)
               t == [s EXCEPT !.discoverDue = FALSE, !.tx = tx]
    <2>1. s \in Serials
      BY DEF SerialInv
    <2>2. SynchronousStep(s) \in RefsSoFar(s) /\ SynchronousStep(s) \in Refs
      BY DEF SynchronousStep, RefsSoFar, Refs, SynchronousRefs, SerialInv
    <2>3. request \in PacketsOf(RefsSoFar(s)) /\ request \in PacketsOf(Refs)
      BY <2>2 DEF PacketsOf, Request
    <2> HIDE DEF request
    <2>4. tx \in Seq(PacketsOf(RefsSoFar(s))) /\ tx \in Seq(PacketsOf(Refs))
      BY <2>1, <2>3, SerialFields DEF SerialInv
    <2> HIDE DEF tx
    <2>5. t \in Serials
      BY <2>1, <2>4, Zenon DEF Serials
    <2>6. /\ t.tx = tx /\ t.writeBuffer = s.writeBuffer
          /\ t.currentCount = s.currentCount
          /\ t.pendingWrites = s.pendingWrites /\ t.address = s.address
          /\ t.packetInterfaceId = s.packetInterfaceId
          /\ t.configuredFtdiReset = s.configuredFtdiReset
          /\ t.sendState = s.sendState
      BY <2>1 DEF Serials
    <2>7. RunSynchronousSteps(s) = t
      BY <1>2, <2>1 DEF RunSynchronousSteps, SendDirect, tx, request, Serials
    <2> HIDE DEF t
    <2>8. RefsSoFar(t) = RefsSoFar(s)
      BY <2>6 DEF RefsSoFar
    <2>9. SerialInv(t)
      BY <2>4, <2>5, <2>6, <2>8 DEF SerialInv, AllowSend
    <2> QED
      BY <2>7, <2>8, <2>9
  <1> QED
    BY <1>1, <1>2

\* Learning an answer to a synchronous step only adds requests that can be
\* made.
LEMMA StepAnswered ==
    ASSUME NEW s, SerialInv(s), NEW t \in Serials,
           t.tx = s.tx, t.writeBuffer = s.writeBuffer,
           t.currentCount = s.currentCount,
           t.pendingWrites = s.pendingWrites, t.sendState = s.sendState,
           s.address => t.address,
           s.packetInterfaceId => t.packetInterfaceId,
           t.configuredFtdiReset => t.packetInterfaceId,
           t.packetInterfaceId => t.address
    PROVE  SerialInv(t) /\ RefsSoFar(s) \subseteq RefsSoFar(t)
  <1>1. RefsSoFar(s) \subseteq RefsSoFar(t)
    BY DEF RefsSoFar
  <1>2. PacketsOf(RefsSoFar(s)) \subseteq PacketsOf(RefsSoFar(t))
    BY <1>1 DEF PacketsOf
  <1>3. t.tx \in Seq(PacketsOf(RefsSoFar(t)))
    BY <1>2, SeqMonotone DEF SerialInv
  <1> QED
    BY <1>1, <1>3 DEF SerialInv, AllowSend

\* An answer to a synchronous step fills the next optional, never one whose
\* predecessor is empty: the request it answers was only made after that.
LEMMA SynchronousAnswerInv ==
    ASSUME NEW s, SerialInv(s), NEW f \in FramesOf(RefsSoFar(s))
    PROVE  /\ SerialInv(SynchronousAnswer(s, f))
           /\ RefsSoFar(s) \subseteq RefsSoFar(SynchronousAnswer(s, f))
  <1>0. s \in Serials /\ f.ref \in RefsSoFar(s)
    BY DEF SerialInv, FramesOf
  <1> DEFINE discover == IsReply(f, "DISCOVER") /\ ~s.address /\ f.val = 1
             ftdi == IsReply(f, "FTDI_RESET_CONTROL")
             query == IsReply(f, "QUERY_INTERFACE") /\ ~s.packetInterfaceId
  <1>1. CASE discover
    <2> DEFINE t == [s EXCEPT !.address = TRUE, !.discoverDue = TRUE]
    <2>1. t \in Serials
      BY <1>0, Zenon DEF Serials
    <2>2. /\ t.tx = s.tx /\ t.writeBuffer = s.writeBuffer
          /\ t.currentCount = s.currentCount
          /\ t.pendingWrites = s.pendingWrites /\ t.sendState = s.sendState
          /\ t.address = TRUE /\ t.packetInterfaceId = s.packetInterfaceId
          /\ t.configuredFtdiReset = s.configuredFtdiReset
      BY <1>0 DEF Serials
    <2>3. SynchronousAnswer(s, f) = RunSynchronousSteps(t)
      BY <1>1 DEF SynchronousAnswer, IsReply
    <2> HIDE DEF t
    <2>4. SerialInv(t) /\ RefsSoFar(s) \subseteq RefsSoFar(t)
      BY <2>1, <2>2, StepAnswered DEF SerialInv
    <2> QED
      BY <2>3, <2>4, RunSynchronousStepsInv
  <1>2. CASE ftdi
    <2> DEFINE t == [s EXCEPT !.configuredFtdiReset = TRUE,
                              !.discoverDue = TRUE]
    <2>1. t \in Serials
      BY <1>0, Zenon DEF Serials
    <2>2. /\ t.tx = s.tx /\ t.writeBuffer = s.writeBuffer
          /\ t.currentCount = s.currentCount
          /\ t.pendingWrites = s.pendingWrites /\ t.sendState = s.sendState
          /\ t.address = s.address
          /\ t.packetInterfaceId = s.packetInterfaceId
      BY <1>0 DEF Serials
    <2>3. SynchronousAnswer(s, f) = RunSynchronousSteps(t)
      BY <1>2 DEF SynchronousAnswer, IsReply
    <2>4. s.packetInterfaceId /\ s.address
      BY <1>0, <1>2 DEF RefsSoFar, IsReply, SerialInv, TransactionRefs,
                        CachedRefs, OtherRefs
    <2> HIDE DEF t
    <2>5. SerialInv(t) /\ RefsSoFar(s) \subseteq RefsSoFar(t)
      BY <2>1, <2>2, <2>4, StepAnswered
    <2> QED
      BY <2>3, <2>5, RunSynchronousStepsInv
  <1>3. CASE query
    <2> DEFINE t == [s EXCEPT !.packetInterfaceId = TRUE,
                              !.discoverDue = TRUE]
    <2>1. t \in Serials
      BY <1>0, Zenon DEF Serials
    <2>2. /\ t.tx = s.tx /\ t.writeBuffer = s.writeBuffer
          /\ t.currentCount = s.currentCount
          /\ t.pendingWrites = s.pendingWrites /\ t.sendState = s.sendState
          /\ t.address = s.address /\ t.packetInterfaceId = TRUE
          /\ t.configuredFtdiReset = s.configuredFtdiReset
      BY <1>0 DEF Serials
    <2>3. SynchronousAnswer(s, f) = RunSynchronousSteps(t)
      BY <1>3 DEF SynchronousAnswer, IsReply
    <2>4. s.address
      BY <1>0, <1>3 DEF RefsSoFar, IsReply, SerialInv, TransactionRefs,
                        CachedRefs, OtherRefs
    <2> HIDE DEF t
    <2>5. SerialInv(t) /\ RefsSoFar(s) \subseteq RefsSoFar(t)
      BY <2>1, <2>2, <2>4, StepAnswered
    <2> QED
      BY <2>3, <2>5, RunSynchronousStepsInv
  <1>4. CASE ~discover /\ ~ftdi /\ ~query
    <2>1. SynchronousAnswer(s, f) = s
      BY <1>4 DEF SynchronousAnswer
    <2> QED
      BY <2>1
  <1> QED
    BY <1>1, <1>2, <1>3, <1>4

\* Noting what an answer brought.
LEMMA NoteReplyInv ==
    ASSUME NEW s, SerialInv(s), NEW f
    PROVE  /\ SerialInv(NoteReply(s, f))
           /\ RefsSoFar(NoteReply(s, f)) = RefsSoFar(s)
  <1> DEFINE status == s.haveModuleStatus \/ IsReply(f, "MODULE_STATUS")
             reset == IF IsReply(f, "MODULE_STATUS")
                      THEN f.val # 0 ELSE s.deviceReset
             bulk == s.haveBulk \/ IsReply(f, "BULK_INPUT")
             battery == s.haveBattery \/ IsReply(f, "BATTERY_VOLTAGE")
             t == NoteReply(s, f)
  <1>1. s \in Serials
    BY DEF SerialInv
  <1>2. /\ status \in BOOLEAN /\ reset \in BOOLEAN
        /\ bulk \in BOOLEAN /\ battery \in BOOLEAN
    BY <1>1 DEF IsReply, Serials
  <1>3. t = [s EXCEPT !.haveModuleStatus = status, !.deviceReset = reset,
                      !.haveBulk = bulk, !.haveBattery = battery]
    BY DEF NoteReply
  <1> HIDE DEF status, reset, bulk, battery, t
  <1>4. t \in Serials
    <2> DEFINE u == [s EXCEPT !.haveModuleStatus = status]
               v == [u EXCEPT !.deviceReset = reset]
               w == [v EXCEPT !.haveBulk = bulk]
    <2>1. u \in Serials
      BY <1>1, <1>2, Zenon DEF Serials
    <2>2. t = [w EXCEPT !.haveBattery = battery]
      BY <1>3
    <2> HIDE DEF u
    <2>3. v \in Serials
      BY <1>2, <2>1, Zenon DEF Serials
    <2> HIDE DEF v
    <2>4. w \in Serials
      BY <1>2, <2>3, Zenon DEF Serials
    <2> HIDE DEF w
    <2>5. [w EXCEPT !.haveBattery = battery] \in Serials
      BY <1>2, <2>4, Zenon DEF Serials
    <2> QED
      BY <2>2, <2>5
  <1>5. /\ t.tx = s.tx /\ t.writeBuffer = s.writeBuffer
        /\ t.currentCount = s.currentCount
        /\ t.pendingWrites = s.pendingWrites /\ t.address = s.address
        /\ t.packetInterfaceId = s.packetInterfaceId
        /\ t.configuredFtdiReset = s.configuredFtdiReset
        /\ t.sendState = s.sendState
    BY <1>1, <1>3 DEF Serials
  <1>6. AllowSend(t) => t.pendingWrites = 0
    BY <1>5 DEF AllowSend, SerialInv
  <1>7. SerialInv(t) /\ RefsSoFar(t) = RefsSoFar(s)
    BY <1>4, <1>5, <1>6, SameBuffers
  <1> QED
    BY <1>7 DEF t

\* A new send state.
LEMMA SendStateInv ==
    ASSUME NEW s, SerialInv(s), NEW state \in SendStates,
           state = "ReadyToSend" => s.pendingWrites = 0
    PROVE  /\ SerialInv([s EXCEPT !.sendState = state])
           /\ RefsSoFar([s EXCEPT !.sendState = state]) = RefsSoFar(s)
  <1> DEFINE t == [s EXCEPT !.sendState = state]
  <1>1. s \in Serials
    BY DEF SerialInv
  <1>2. t \in Serials
    BY <1>1, Zenon DEF Serials
  <1>3. /\ t.tx = s.tx /\ t.writeBuffer = s.writeBuffer
        /\ t.currentCount = s.currentCount
        /\ t.pendingWrites = s.pendingWrites /\ t.address = s.address
        /\ t.packetInterfaceId = s.packetInterfaceId
        /\ t.configuredFtdiReset = s.configuredFtdiReset
        /\ t.sendState = state
    BY <1>1 DEF Serials
  <1> HIDE DEF t
  <1>4. AllowSend(t) => t.pendingWrites = 0
    BY <1>3 DEF AllowSend
  <1>5. SerialInv(t) /\ RefsSoFar(t) = RefsSoFar(s)
    BY <1>2, <1>3, <1>4, SameBuffers
  <1> QED
    BY <1>5 DEF t

\* Counting an answer may send the commands of the transaction and may end
\* it, in that order.
LEMMA CheckForStateAdvanceInv ==
    ASSUME NEW s, SerialInv(s),
           NEW commands \in Seq(PacketsOf(TransactionRefs))
    PROVE  /\ SerialInv(CheckForStateAdvance(s, commands))
           /\ RefsSoFar(CheckForStateAdvance(s, commands)) = RefsSoFar(s)
  <1> DEFINE out == Decrement(s.outstandingMessages)
             counted == [s EXCEPT !.outstandingMessages = out]
             sent == Flush(SendPackets(counted, commands))
             advanced == IF CommandsDue(s)
                         THEN [sent EXCEPT !.sendState = "WaitingForFinish"]
                         ELSE counted
  <1>0. s \in Serials
    BY DEF SerialInv
  <1>1. out \in 0 .. 255
    <2>1. s.outstandingMessages \in 0 .. 255
      BY <1>0, SerialFields
    <2> QED
      BY <2>1, DecrementRange
  <1>2. /\ SerialInv(counted) /\ RefsSoFar(counted) = RefsSoFar(s)
        /\ counted.sendState = s.sendState
    <2> HIDE DEF out
    <2>1. counted \in Serials
      BY <1>0, <1>1, Zenon DEF Serials
    <2>2. /\ counted.tx = s.tx /\ counted.writeBuffer = s.writeBuffer
          /\ counted.currentCount = s.currentCount
          /\ counted.pendingWrites = s.pendingWrites
          /\ counted.address = s.address
          /\ counted.packetInterfaceId = s.packetInterfaceId
          /\ counted.configuredFtdiReset = s.configuredFtdiReset
          /\ counted.sendState = s.sendState
      BY <1>0 DEF Serials
    <2> HIDE DEF counted
    <2>3. AllowSend(counted) => counted.pendingWrites = 0
      BY <2>2 DEF AllowSend, SerialInv
    <2> QED
      BY <2>1, <2>2, <2>3, SameBuffers
  <1> HIDE DEF out, counted
  <1>3. SerialInv(advanced) /\ RefsSoFar(advanced) = RefsSoFar(s)
    <2>1. CASE CommandsDue(s)
      <3>1. ~AllowSend(counted)
        BY <1>2, <2>1 DEF CommandsDue, AllowSend
      <3>2. SerialInv(sent) /\ RefsSoFar(sent) = RefsSoFar(s)
        BY <1>2, <3>1, SendPacketsInv, FlushInv
      <3> HIDE DEF sent
      <3>3. "WaitingForFinish" \in SendStates
            /\ "WaitingForFinish" # "ReadyToSend"
        BY DEF SendStates
      <3> QED
        BY <2>1, <3>2, <3>3, SendStateInv
    <2>2. CASE ~CommandsDue(s)
      BY <1>2, <2>2
    <2> QED
      BY <2>1, <2>2
  <1>4. CheckForStateAdvance(s, commands) =
            IF TransactionDone(advanced)
            THEN [advanced EXCEPT !.sendState = "ReadyToSend"]
            ELSE advanced
    BY DEF CheckForStateAdvance, counted, out
  <1> HIDE DEF advanced
  <1>5. CASE TransactionDone(advanced)
    BY <1>3, <1>4, <1>5, SendStateInv DEF TransactionDone, SendStates
  <1>6. CASE ~TransactionDone(advanced)
    BY <1>3, <1>4, <1>6
  <1> QED
    BY <1>5, <1>6

\* Whatever arrives, HandlePayload preserves what the object promises.
LEMMA HandlePayloadInv ==
    ASSUME NEW s, SerialInv(s), NEW f \in FramesOf(RefsSoFar(s)),
           NEW commands \in Seq(PacketsOf(TransactionRefs))
    PROVE  /\ SerialInv(HandlePayload(s, f, commands))
           /\ RefsSoFar(s) \subseteq RefsSoFar(HandlePayload(s, f, commands))
  <1>1. CASE AdvancesState(s, f)
    BY <1>1, NoteReplyInv, CheckForStateAdvanceInv DEF HandlePayload
  <1>2. CASE ~AdvancesState(s, f)
    BY <1>2, SynchronousAnswerInv DEF HandlePayload
  <1> QED
    BY <1>1, <1>2

(***************************************************************************)
(* The packets of a transaction are transaction packets.                   *)
(***************************************************************************)

LEMMA RequestType ==
    ASSUME NEW ref \in TransactionRefs, NEW ch \in 0 .. 5, NEW val \in Nat
    PROVE  Request(ref, ch, val) \in PacketsOf(TransactionRefs)
  BY DEF Request, PacketsOf

LEMMA SendIfType ==
    ASSUME NEW condition, NEW packet,
           condition => packet \in PacketsOf(TransactionRefs)
    PROVE  SendIf(condition, packet) \in Seq(PacketsOf(TransactionRefs))
  BY DEF SendIf

\* A value cut down to 16 bits is a natural number.
LEMMA UInt16Type ==
    ASSUME NEW k \in Nat
    PROVE  k % UInt16 \in Nat
  BY DEF UInt16

LEMMA InitialPacketsType ==
    ASSUME TypeOK
    PROVE  InitialPackets \in Seq(PacketsOf(TransactionRefs))
  <1> DEFINE TP == PacketsOf(TransactionRefs)
  <1>1. \A m : EncoderResetPacket(m) \in Seq(TP)
    <2> TAKE m
    <2>1. m \in Motors /\ DoReset(m)
              => Request("MOTOR_RESET_ENCODER", m, client.resetTime[m]) \in TP
      <3> HAVE m \in Motors /\ DoReset(m)
      <3>1. m \in 0 .. 5 /\ client.resetTime[m] \in Nat
        BY MotorsAssumption DEF TypeOK, Clients
      <3> QED
        BY <3>1, RequestType DEF TransactionRefs, OtherRefs
    <2> QED
      BY <2>1, SendIfType DEF EncoderResetPacket
  <1>2. \A v : ServoPulseWidthPacket(v) \in Seq(TP)
    <2> TAKE v
    <2> DEFINE width == client.pulseWidth[v] % UInt16
    <2>1. v \in Servos => Request("SERVO_PULSE_WIDTH", v, width) \in TP
      <3> HAVE v \in Servos
      <3>1. v \in 0 .. 5 /\ client.pulseWidth[v] \in Nat
        BY ServosAssumption DEF TypeOK, Clients
      <3>2. width \in Nat
        BY <3>1, UInt16Type
      <3> QED
        BY <3>1, <3>2, RequestType DEF TransactionRefs, OtherRefs
    <2> QED
      BY <2>1, SendIfType DEF ServoPulseWidthPacket
  <1>3. ForMotors(EncoderResetPacket) \in Seq(TP)
    BY <1>1 DEF ForMotors
  <1>4. ForServos(ServoPulseWidthPacket) \in Seq(TP)
    BY <1>2 DEF ForServos
  <1>5. /\ Request("KEEP_ALIVE", 0, 0) \in TP
        /\ Request("MODULE_STATUS", 0, 0) \in TP
        /\ Request("BATTERY_VOLTAGE", 0, 0) \in TP
        /\ Request("BULK_INPUT", 0, 0) \in TP
    <2>1. {"KEEP_ALIVE", "MODULE_STATUS", "BATTERY_VOLTAGE", "BULK_INPUT"}
              \subseteq TransactionRefs
      BY DEF TransactionRefs, OtherRefs
    <2>2. 0 \in 0 .. 5 /\ 0 \in Nat
      OBVIOUS
    <2> QED
      BY <2>1, <2>2, RequestType
  <1> HIDE DEF TP
  <1>6. /\ <<Request("KEEP_ALIVE", 0, 0), Request("MODULE_STATUS", 0, 0)>>
               \in Seq(TP)
        /\ <<Request("BATTERY_VOLTAGE", 0, 0), Request("BULK_INPUT", 0, 0)>>
               \in Seq(TP)
    BY <1>5
  <1>7. InitialPackets \in Seq(TP)
    BY <1>3, <1>4, <1>6 DEF InitialPackets
  <1> QED
    BY <1>7 DEF TP

\* What a transaction wants a setting to be is a value.
LEMMA WantedType ==
    ASSUME TypeOK, NEW x \in Settings, NEW canEnable
    PROVE  Wanted(x, canEnable) \in Nat
  BY DEF TypeOK, Clients, Wanted, WithCanEnable, Value

LEMMA SettingPacketType ==
    ASSUME TypeOK, NEW ref, NEW ch, NEW caches, NEW canEnable
    PROVE  SettingPacket(<<ref, ch>>, caches, canEnable)
               \in Seq(PacketsOf(TransactionRefs))
  <1> DEFINE x == <<ref, ch>>
             value == Wanted(x, canEnable) % UInt16
  <1>1. x \in Settings
            => Request(x[1], x[2], value) \in PacketsOf(TransactionRefs)
    <2> HAVE x \in Settings
    <2>1. /\ ref \in CachedRefs
          /\ ch \in Motors \cup Servos
      BY DEF Settings, MotorSettings, ServoSettings, CachedRefs
    <2>3. x[1] \in TransactionRefs
      BY <2>1 DEF TransactionRefs
    <2>4. x[2] \in 0 .. 5
      BY <2>1, MotorsAssumption, ServosAssumption
    <2>2. value \in Nat
      BY WantedType, UInt16Type
    <2> QED
      BY <2>2, <2>3, <2>4, RequestType
  <1> QED
    BY <1>1, SendIfType DEF SettingPacket

LEMMA CommandPacketsType ==
    ASSUME TypeOK, NEW caches, NEW canEnable
    PROVE  CommandPackets(caches, canEnable)
               \in Seq(PacketsOf(TransactionRefs))
  <1> DEFINE TP == PacketsOf(TransactionRefs)
             Power(m) == SendIf(m \in Motors,
                                Request("MOTOR_SET_CONSTANT_POWER", m, 0))
             Current(m) == SendIf(m \in Motors,
                                  Request("MOTOR_GET_CURRENT", m, 0))
             Setting(ref, ch) == SettingPacket(<<ref, ch>>, caches, canEnable)
  <1>1. \A m : Power(m) \in Seq(TP) /\ Current(m) \in Seq(TP)
    <2> TAKE m
    <2>1. m \in Motors
              => /\ Request("MOTOR_SET_CONSTANT_POWER", m, 0) \in TP
                 /\ Request("MOTOR_GET_CURRENT", m, 0) \in TP
      <3> HAVE m \in Motors
      <3>1. {"MOTOR_SET_CONSTANT_POWER", "MOTOR_GET_CURRENT"}
                \subseteq TransactionRefs
        BY DEF TransactionRefs, OtherRefs
      <3>2. m \in 0 .. 5 /\ 0 \in Nat
        BY MotorsAssumption
      <3> QED
        BY <3>1, <3>2, RequestType
    <2> QED
      BY <2>1, SendIfType
  <1>2. \A ref, ch : Setting(ref, ch) \in Seq(TP)
    BY SettingPacketType
  <1> HIDE DEF TP, Power, Current, Setting
  <1>3. ForMotors(Power) \in Seq(TP) /\ ForMotors(Current) \in Seq(TP)
    BY <1>1 DEF ForMotors
  <1>4. /\ ForMotors(LAMBDA m : Setting("MOTOR_SET_RUN_MODE", m)) \in Seq(TP)
        /\ ForMotors(LAMBDA m : Setting("MOTOR_ENABLE", m)) \in Seq(TP)
    BY <1>2 DEF ForMotors
  <1>5. /\ ForServos(LAMBDA v : Setting("SERVO_CONFIGURATION", v)) \in Seq(TP)
        /\ ForServos(LAMBDA v : Setting("SERVO_ENABLE", v)) \in Seq(TP)
    BY <1>2 DEF ForServos
  <1>6. ForMotors(Power) \o ForMotors(Current)
            \o ForMotors(LAMBDA m : Setting("MOTOR_SET_RUN_MODE", m))
            \o ForMotors(LAMBDA m : Setting("MOTOR_ENABLE", m))
            \o ForServos(LAMBDA v : Setting("SERVO_CONFIGURATION", v))
            \o ForServos(LAMBDA v : Setting("SERVO_ENABLE", v)) \in Seq(TP)
    BY <1>3, <1>4, <1>5
  <1> QED
    BY <1>6 DEF CommandPackets, TP, Power, Current, Setting

(***************************************************************************)
(* The steps preserve the inductive invariant.                             *)
(***************************************************************************)

LEMMA IndInvType ==
    ASSUME IndInv
    PROVE  TypeOK
  <1>1. FramesOf(RefsSoFar(serial)) \subseteq FramesOf(Refs)
    BY DEF FramesOf, RefsSoFar, Refs, SynchronousRefs
  <1>2. rx \in Seq(FramesOf(Refs))
    BY <1>1, SeqMonotone DEF IndInv
  <1> QED
    BY <1>2 DEF IndInv, RestOK, TypeOK, SerialInv

LEMMA NewSerialInv == SerialInv(NewSerial)
  <1> DEFINE s == NewSerial
  <1>1. /\ s.writeBuffer = << >> /\ s.tx = << >> /\ s.currentCount = 0
        /\ s.pendingWrites = 0 /\ s.configuredFtdiReset = FALSE
        /\ s.packetInterfaceId = FALSE
    BY DEF NewSerial
  <1>2. s \in Serials
    BY DEF NewSerial, Serials, SendStates
  <1> HIDE DEF s
  <1>3. SerialInv(s)
    BY <1>1, <1>2 DEF SerialInv
  <1> QED
    BY <1>3 DEF s

LEMMA InitInv ==
    ASSUME Init
    PROVE  IndInv
  <1>1. SerialInv(serial)
    BY NewSerialInv, RunSynchronousStepsInv DEF Init
  <1>2. rx \in Seq(FramesOf(RefsSoFar(serial))) /\ toRead <= Len(rx)
    BY DEF Init
  <1>3. cache \in [Settings -> Caches(Value)]
    BY DEF Init, DeviceAdded, ForceReset, NewCache, Caches
  <1>4. client \in Clients
    BY ValuesAssumption DEF Init, Clients, Value
  <1>5. hub \in Hubs
    <2>1. PoweredUp \in Hubs
      BY DEF PoweredUp, Hubs, Value
    <2>2. [x \in Settings |-> IF x[1] \in Enables THEN 1 ELSE 0]
              \in [Settings -> Value]
      BY DEF Value
    <2> QED
      BY <2>1, <2>2 DEF Init, Hubs
  <1>6. /\ encoderReset \in EncoderResets
        /\ toRead \in Nat /\ loopDue \in BOOLEAN /\ watchdog \in BOOLEAN
    BY DEF Init, DeviceAdded, EncoderResets
  <1>7. left \in Bounds
    BY BoundsAssumption DEF Init, Bounds
  <1> QED
    BY <1>1, <1>2, <1>3, <1>4, <1>5, <1>6, <1>7 DEF IndInv, RestOK

LEMMA BeginTransactionStep ==
    ASSUME IndInv, NEW s, SerialInv(s), s.pendingWrites = 0,
           RefsSoFar(s) = RefsSoFar(serial), BeginTransaction(s)
    PROVE  IndInv'
  <1>1. TypeOK
    BY IndInvType
  <1> DEFINE t == StartTransaction(s, watchdog)
             u == SendPackets(t, InitialPackets)
  <1>2. SerialInv(t) /\ ~AllowSend(t) /\ RefsSoFar(t) = RefsSoFar(serial)
    BY <1>1, StartTransactionInv DEF TypeOK
  <1> HIDE DEF t
  <1>3. SerialInv(u) /\ RefsSoFar(u) = RefsSoFar(serial)
    BY <1>1, <1>2, InitialPacketsType, SendPacketsInv
  <1>4. serial' = Flush(u)
    BY DEF BeginTransaction, t
  <1> HIDE DEF u
  <1>5. SerialInv(serial') /\ RefsSoFar(serial') = RefsSoFar(serial)
    BY <1>3, <1>4, FlushInv
  <1>6. encoderReset' \in EncoderResets
    <2>1. \A m \in Motors : DoReset(m) \in BOOLEAN
      BY <1>1 DEF DoReset, TypeOK, EncoderResets
    <2>2. client.resetTime \in [Motors -> Nat]
      BY <1>1 DEF TypeOK, Clients
    <2> QED
      BY <2>1, <2>2 DEF BeginTransaction, EncoderResets
  <1>7. RestOK'
    BY <1>6 DEF BeginTransaction, RestOK, IndInv
  <1> QED
    BY <1>5, <1>7 DEF BeginTransaction, IndInv

\* The caches keep their type.
LEMMA CacheTypes ==
    ASSUME TypeOK, NEW f, NEW caches \in [Settings -> Caches(Value)],
           NEW canEnable, NEW deviceReset
    PROVE  /\ AckedBy(f) \in [Settings -> Caches(Value)]
           /\ ForgetIfReset(caches, deviceReset)
                  \in [Settings -> Caches(Value)]
           /\ GetAll(caches, canEnable) \in [Settings -> Caches(Value)]
  <1>1. \A x \in Settings :
            /\ cache[x] \in Caches(Value) /\ caches[x] \in Caches(Value)
            /\ Wanted(x, canEnable) \in Value
    BY WantedType DEF TypeOK, Value
  <1>2. \A c \in Caches(Value) :
            Ack(c) \in Caches(Value) /\ ForceReset(c) \in Caches(Value)
    BY DEF Ack, ForceReset, Caches
  <1>3. \A c \in Caches(Value), v \in Value : Get(c, v) \in Caches(Value)
    BY DEF Get, Caches
  <1>4. AckedBy(f) \in [Settings -> Caches(Value)]
    BY <1>1, <1>2 DEF AckedBy
  <1>5. ForgetIfReset(caches, deviceReset) \in [Settings -> Caches(Value)]
    BY <1>1, <1>2 DEF ForgetIfReset
  <1>6. GetAll(caches, canEnable) \in [Settings -> Caches(Value)]
    BY <1>1, <1>3 DEF GetAll
  <1> QED
    BY <1>4, <1>5, <1>6

LEMMA HandleNextStep ==
    ASSUME IndInv, NEW remaining \in Nat, remaining < Len(rx),
           HandleNext(remaining)
    PROVE  IndInv'
  <1> DEFINE f == Head(rx)
             noted == NoteReply(serial, f)
             acked == AckedBy(f)
             ready == ForgetIfReset(acked, noted.deviceReset)
             commands == CommandPackets(ready, noted.canEnable)
             after == HandlePayload(serial, f, commands)
  <1>1. TypeOK
    BY IndInvType
  <1>2. f \in FramesOf(RefsSoFar(serial)) /\ Len(rx) \in Nat /\ rx # << >>
    BY DEF IndInv
  <1>3. commands \in Seq(PacketsOf(TransactionRefs))
    BY <1>1, CommandPacketsType
  <1>4. SerialInv(after) /\ RefsSoFar(serial) \subseteq RefsSoFar(after)
    <2> HIDE DEF f, commands
    <2> QED
      BY <1>2, <1>3, HandlePayloadInv DEF IndInv
  <1>5. /\ serial' = IF remaining = 0 THEN Flush(after) ELSE after
        /\ cache' \in {acked, GetAll(ready, noted.canEnable)}
        /\ encoderReset' = ResetsAfter(f)
        /\ toRead' = remaining /\ rx' = Tail(rx)
        /\ UNCHANGED <<loopDue, client, watchdog, hub, left>>
    BY DEF HandleNext, HandleFrame
  <1>6. /\ acked \in [Settings -> Caches(Value)]
        /\ GetAll(ready, noted.canEnable) \in [Settings -> Caches(Value)]
    <2> HIDE DEF f, noted
    <2>1. acked \in [Settings -> Caches(Value)]
      BY <1>1, CacheTypes DEF TypeOK
    <2> HIDE DEF acked
    <2>2. ready \in [Settings -> Caches(Value)]
      BY <1>1, <2>1, CacheTypes
    <2> HIDE DEF ready
    <2> QED
      BY <1>1, <2>1, <2>2, CacheTypes
  <1>7. encoderReset' \in EncoderResets
    BY <1>1, <1>5 DEF ResetsAfter, TypeOK, EncoderResets, IsReply
  <1> HIDE DEF f, noted, acked, ready, commands, after
  <1>8. SerialInv(serial') /\ RefsSoFar(serial) \subseteq RefsSoFar(serial')
    BY <1>4, <1>5, FlushInv
  <1>9. FramesOf(RefsSoFar(serial)) \subseteq FramesOf(RefsSoFar(serial'))
    BY <1>8 DEF FramesOf
  <1>10. rx' \in Seq(FramesOf(RefsSoFar(serial)))
         /\ Len(rx') = Len(rx) - 1
    BY <1>2, <1>5 DEF IndInv
  <1>11. rx' \in Seq(FramesOf(RefsSoFar(serial')))
    BY <1>9, <1>10, SeqMonotone
  <1>12. RestOK'
    BY <1>5, <1>6, <1>7 DEF RestOK, IndInv
  <1>13. toRead' <= Len(rx')
    BY <1>2, <1>5, <1>10
  <1> QED
    BY <1>8, <1>11, <1>12, <1>13 DEF IndInv

\* The hub and the link only shorten what is on its way to the hub, and
\* answer nothing that was not asked.
LEMMA HubTakesInv ==
    ASSUME IndInv, HubTakes
    PROVE  /\ SerialInv(serial') /\ RefsSoFar(serial') = RefsSoFar(serial)
           /\ Head(serial.tx) \in PacketsOf(RefsSoFar(serial))
  <1> DEFINE tx == Tail(serial.tx)
             t == [serial EXCEPT !.tx = tx]
  <1>1. serial \in Serials /\ serial.tx \in Seq(PacketsOf(RefsSoFar(serial)))
    BY DEF IndInv, SerialInv
  <1>2. serial.tx # << >> /\ serial' = t
    BY DEF HubTakes
  <1>3. Head(serial.tx) \in PacketsOf(RefsSoFar(serial))
    BY <1>1, <1>2
  <1>4. tx \in Seq(PacketsOf(RefsSoFar(serial))) /\ tx \in Seq(PacketsOf(Refs))
    BY <1>1, <1>2, SerialFields
  <1> HIDE DEF tx
  <1>5. t \in Serials
    BY <1>1, <1>4, Zenon DEF Serials
  <1>6. /\ t.tx = tx /\ t.writeBuffer = serial.writeBuffer
        /\ t.currentCount = serial.currentCount
        /\ t.pendingWrites = serial.pendingWrites
        /\ t.address = serial.address
        /\ t.packetInterfaceId = serial.packetInterfaceId
        /\ t.configuredFtdiReset = serial.configuredFtdiReset
        /\ t.sendState = serial.sendState
    BY <1>1 DEF Serials
  <1> HIDE DEF t
  <1>7. RefsSoFar(t) = RefsSoFar(serial)
    BY <1>6 DEF RefsSoFar
  <1>8. SerialInv(t)
    BY <1>4, <1>5, <1>6, <1>7 DEF IndInv, SerialInv, AllowSend
  <1> QED
    BY <1>2, <1>3, <1>7, <1>8

LEMMA AnswerType ==
    ASSUME NEW R, NEW p \in PacketsOf(R), NEW kind \in {"reply", "nack", "corrupt"}
    PROVE  Answer(kind, p) \in FramesOf(R)
  <1> DEFINE val == CASE p.ref = "DISCOVER" -> 1
                      [] p.ref = "MODULE_STATUS" ->
                             IF hub.attention THEN 1 ELSE 0
                      [] OTHER -> 0
  <1>1. val \in Nat
    OBVIOUS
  <1>2. Answer(kind, p) = [kind |-> kind, ref |-> p.ref, ch |-> p.ch,
                           val |-> val]
    BY DEF Answer
  <1> HIDE DEF val
  <1> QED
    BY <1>1, <1>2 DEF PacketsOf, FramesOf

LEMMA PerformType ==
    ASSUME IndInv, NEW R, NEW p \in PacketsOf(R)
    PROVE  Perform(p) \in Hubs
  <1>1. p.val \in Nat
    BY DEF PacketsOf
  <1>2. /\ hub.value \in [Settings -> Nat] /\ hub.resetFor \in [Motors -> Nat]
        /\ hub.attention \in BOOLEAN
    BY DEF IndInv, RestOK, Hubs, Value
  <1> QED
    BY <1>1, <1>2 DEF Perform, Hubs, Value

\* A step of the hub that appends answers to the one request it takes.
LEMMA HubStep ==
    ASSUME IndInv, HubTakes, rx' \in Seq(FramesOf(RefsSoFar(serial))),
           Len(rx) <= Len(rx'), hub' \in Hubs, left' \in Bounds
    PROVE  IndInv'
  <1>1. SerialInv(serial') /\ RefsSoFar(serial') = RefsSoFar(serial)
    BY HubTakesInv
  <1>2. Len(rx') \in Nat /\ Len(rx) \in Nat
    BY DEF IndInv
  <1>3. RestOK'
    BY DEF HubTakes, RestOK, IndInv
  <1>4. toRead' <= Len(rx')
    BY <1>2 DEF HubTakes, IndInv, RestOK
  <1> QED
    BY <1>1, <1>3, <1>4 DEF IndInv

\* Each of the bounds is only ever counted down to zero.
LEMMA Spent ==
    ASSUME NEW b \in Bounds
    PROVE  /\ b.faults > 0 => [b EXCEPT !.faults = @ - 1] \in Bounds
           /\ b.hubResets > 0 => [b EXCEPT !.hubResets = @ - 1] \in Bounds
           /\ b.stalls > 0 => [b EXCEPT !.stalls = @ - 1] \in Bounds
           /\ b.changes > 0 => [b EXCEPT !.changes = @ - 1] \in Bounds
  <1>1. /\ b.faults \in 0 .. MaxFaults /\ b.hubResets \in 0 .. MaxHubResets
        /\ b.stalls \in 0 .. MaxStalls /\ b.changes \in 0 .. MaxClientChanges
    BY DEF Bounds
  <1>2. /\ b.faults > 0 => b.faults - 1 \in 0 .. MaxFaults
        /\ b.hubResets > 0 => b.hubResets - 1 \in 0 .. MaxHubResets
        /\ b.stalls > 0 => b.stalls - 1 \in 0 .. MaxStalls
        /\ b.changes > 0 => b.changes - 1 \in 0 .. MaxClientChanges
    BY <1>1, BoundsAssumption
  <1> QED
    BY <1>2, Zenon DEF Bounds

LEMMA HubAndLinkStep ==
    ASSUME IndInv, HubAndLink
    PROVE  IndInv'
  <1> DEFINE p == Head(serial.tx)
             Frames == FramesOf(RefsSoFar(serial))
  <1>0. hub \in Hubs /\ left \in Bounds /\ rx \in Seq(Frames)
        /\ Len(rx) \in Nat
    BY DEF IndInv, RestOK
  <1>a. ASSUME HubTakes
        PROVE  /\ Perform(p) \in Hubs
               /\ \A kind \in {"reply", "nack", "corrupt"} :
                      Answer(kind, p) \in Frames
    <2>1. p \in PacketsOf(RefsSoFar(serial))
      BY <1>a, HubTakesInv
    <2> HIDE DEF p
    <2> QED
      BY <2>1, PerformType, AnswerType
  <1>b. ASSUME NEW kind, Fault(kind, p)
        PROVE  left' \in Bounds
    BY <1>0, <1>b, Spent DEF Fault
  <1>c. ASSUME NEW a \in Frames
        PROVE  Append(rx, a) \in Seq(Frames) /\ Len(rx) <= Len(Append(rx, a))
    BY <1>0, <1>c, AppendProperties
  <1> HIDE DEF p, Frames
  <1>1. CASE HubAnswers
    <2>1. /\ HubTakes /\ hub' = Perform(p) /\ left' = left
          /\ rx' = Append(rx, Answer("reply", p))
      BY <1>1 DEF HubAnswers, p
    <2> QED
      BY <1>0, <1>a, <1>c, <2>1, HubStep DEF Frames
  <1>2. CASE LoseRequest
    <2>1. HubTakes /\ Fault("lose request", p) /\ hub' = hub /\ rx' = rx
      BY <1>2 DEF LoseRequest, p
    <2>2. rx' \in Seq(Frames) /\ Len(rx) <= Len(rx')
      <3>1. Len(rx) <= Len(rx)
        BY <1>0
      <3> QED
        BY <1>0, <2>1, <3>1, Zenon
    <2>3. hub' \in Hubs /\ left' \in Bounds
      BY <1>0, <1>b, <2>1
    <2> QED
      BY <2>1, <2>2, <2>3, HubStep DEF Frames
  <1>3. CASE HubNacks
    <2>1. /\ HubTakes /\ Fault("nack", p) /\ hub' = hub
          /\ rx' = Append(rx, Answer("nack", p))
      BY <1>3 DEF HubNacks, p
    <2> QED
      BY <1>0, <1>a, <1>b, <1>c, <2>1, HubStep DEF Frames
  <1>4. CASE LoseAnswer
    <2>1. /\ HubTakes /\ Fault("lose answer", p) /\ hub' = Perform(p)
          /\ rx' = rx
      BY <1>4 DEF LoseAnswer, p
    <2>2. rx' \in Seq(Frames) /\ Len(rx) <= Len(rx')
      <3>1. Len(rx) <= Len(rx)
        BY <1>0
      <3> QED
        BY <1>0, <2>1, <3>1, Zenon
    <2>3. hub' \in Hubs /\ left' \in Bounds
      BY <1>a, <1>b, <2>1
    <2> QED
      BY <2>1, <2>2, <2>3, HubStep DEF Frames
  <1>5. CASE CorruptAnswer
    <2>1. /\ HubTakes /\ Fault("corrupt answer", p) /\ hub' = Perform(p)
          /\ rx' = Append(rx, Answer("corrupt", p))
      BY <1>5 DEF CorruptAnswer, p
    <2> QED
      BY <1>0, <1>a, <1>b, <1>c, <2>1, HubStep DEF Frames
  <1>6. CASE ChildAnswersToo
    <2> DEFINE child == [Answer("reply", p) EXCEPT !.val = 0]
               answers == <<child, Answer("reply", p)>>
    <2>1. /\ HubTakes /\ Fault("child answers", p) /\ hub' = hub
          /\ rx' = rx \o answers
      BY <1>6 DEF ChildAnswersToo, p
    <2>2. Answer("reply", p) \in Frames
      BY <1>a, <2>1
    <2>3. child \in Frames
      BY <2>2 DEF FramesOf, Frames
    <2> HIDE DEF child
    <2>4. answers \in Seq(Frames) /\ Len(answers) \in Nat
      BY <2>2, <2>3
    <2> HIDE DEF answers
    <2>5. rx' \in Seq(Frames) /\ Len(rx) <= Len(rx')
      <3>1. /\ rx \o answers \in Seq(Frames)
            /\ Len(rx \o answers) = Len(rx) + Len(answers)
        BY <1>0, <2>4, ConcatProperties
      <3>2. Len(rx) <= Len(rx) + Len(answers)
        BY <1>0, <2>4
      <3> QED
        BY <2>1, <3>1, <3>2
    <2> QED
      BY <1>0, <1>b, <2>1, <2>5, HubStep DEF Frames
  <1>7. CASE HubResets
    <2>1. hub' \in Hubs
      <3>1. PoweredUp \in Hubs
        BY DEF PoweredUp, Value, Hubs
      <3>2. hub.resetFor \in [Motors -> Nat]
        BY <1>0 DEF Hubs
      <3> QED
        BY <1>7, <3>1, <3>2 DEF HubResets, Hubs
    <2>2. left' \in Bounds
      BY <1>0, <1>7, Spent DEF HubResets
    <2>3. RestOK'
      BY <1>7, <2>1, <2>2 DEF HubResets, RestOK, IndInv
    <2> QED
      BY <1>7, <2>3 DEF HubResets, IndInv
  <1> QED
    BY <1>1, <1>2, <1>3, <1>4, <1>5, <1>6, <1>7 DEF HubAndLink

LEMMA SecondPassesStep ==
    ASSUME IndInv, SecondPasses
    PROVE  IndInv'
  <1> DEFINE t == [serial EXCEPT !.discoverDue = TRUE]
  <1>1. serial \in Serials /\ serial' = t
    BY DEF IndInv, SerialInv, SecondPasses
  <1>2. t \in Serials
    BY <1>1, Zenon DEF Serials
  <1>3. /\ t.tx = serial.tx /\ t.writeBuffer = serial.writeBuffer
        /\ t.currentCount = serial.currentCount
        /\ t.pendingWrites = serial.pendingWrites
        /\ t.address = serial.address
        /\ t.packetInterfaceId = serial.packetInterfaceId
        /\ t.configuredFtdiReset = serial.configuredFtdiReset
        /\ t.sendState = serial.sendState
    BY <1>1 DEF Serials
  <1> HIDE DEF t
  <1>4. AllowSend(t) => t.pendingWrites = 0
    BY <1>3 DEF AllowSend, IndInv, SerialInv
  <1>5. SerialInv(serial') /\ RefsSoFar(serial') = RefsSoFar(serial)
    BY <1>1, <1>2, <1>3, <1>4, SameBuffers DEF IndInv
  <1>6. left' \in Bounds
    BY Spent DEF SecondPasses, IndInv, RestOK
  <1>7. RestOK'
    BY <1>6 DEF SecondPasses, IndInv, RestOK
  <1> QED
    BY <1>5, <1>7 DEF SecondPasses, IndInv

LEMMA ClientStep ==
    ASSUME IndInv, Client
    PROVE  IndInv'
  <1>0. client \in Clients
    BY DEF IndInv, RestOK
  <1>1. ClientChanges
    BY DEF Client, SetSetting, SetPulseWidth, RequestReset, WatchdogChanges
  <1>2. client' \in Clients /\ watchdog' \in BOOLEAN
    <2>1. ASSUME NEW x \in Settings, SetSetting(x)
          PROVE  client' \in Clients /\ watchdog' \in BOOLEAN
      <3>1. PICK v \in ValuesOf(x) : client' = [client EXCEPT !.value[x] = v]
        BY <2>1 DEF SetSetting
      <3>2. v \in Value
        BY ValuesAssumption DEF ValuesOf, Value
      <3>3. watchdog' \in BOOLEAN
        BY <2>1 DEF SetSetting, IndInv, RestOK
      <3> QED
        BY <1>0, <3>1, <3>2, <3>3 DEF Clients
    <2>2. ASSUME NEW v \in Servos, SetPulseWidth(v)
          PROVE  client' \in Clients /\ watchdog' \in BOOLEAN
      <3>1. PICK w \in PulseWidths :
                client' = [client EXCEPT !.pulseWidth[v] = w]
        BY <2>2 DEF SetPulseWidth
      <3>2. w \in Nat
        BY ValuesAssumption
      <3>3. watchdog' \in BOOLEAN
        BY <2>2 DEF SetPulseWidth, IndInv, RestOK
      <3> QED
        BY <1>0, <3>1, <3>2, <3>3 DEF Clients
    <2>3. ASSUME NEW m \in Motors, RequestReset(m)
          PROVE  client' \in Clients /\ watchdog' \in BOOLEAN
      <3>1. client.resetTime[m] + 1 \in Nat
        BY <1>0 DEF Clients
      <3>2. watchdog' \in BOOLEAN
        BY <2>3 DEF RequestReset, IndInv, RestOK
      <3> QED
        BY <1>0, <2>3, <3>1, <3>2 DEF RequestReset, Clients
    <2>4. ASSUME WatchdogChanges
          PROVE  client' \in Clients /\ watchdog' \in BOOLEAN
      BY <1>0, <2>4 DEF WatchdogChanges
    <2> QED
      BY <2>1, <2>2, <2>3, <2>4 DEF Client
  <1>3. left' \in Bounds
    BY <1>1, Spent DEF ClientChanges, IndInv, RestOK
  <1>4. RestOK'
    BY <1>1, <1>2, <1>3 DEF ClientChanges, IndInv, RestOK
  <1> QED
    BY <1>1, <1>4 DEF ClientChanges, IndInv

LEMMA DaemonStep ==
    ASSUME IndInv, Daemon
    PROVE  IndInv'
  <1>1. CASE OnUpdateSynchronous
    <2>1. SerialInv(serial') /\ RefsSoFar(serial') = RefsSoFar(serial)
      BY <1>1, RunSynchronousStepsInv DEF OnUpdateSynchronous, IndInv
    <2>2. RestOK'
      BY <1>1 DEF OnUpdateSynchronous, IndInv, RestOK
    <2> QED
      BY <1>1, <2>1, <2>2 DEF OnUpdateSynchronous, IndInv
  <1>2. CASE OnUpdateSend
    <2>1. SerialInv(serial) /\ serial.pendingWrites = 0
      BY <1>2 DEF OnUpdateSend, IndInv, SerialInv
    <2> QED
      BY <1>2, <2>1, BeginTransactionStep DEF OnUpdateSend
  <1>3. CASE OnUpdateRecover
    <2>1. /\ SerialInv(Recover(serial))
          /\ RefsSoFar(Recover(serial)) = RefsSoFar(serial)
          /\ Recover(serial).pendingWrites = 0
      BY RecoverInv DEF IndInv
    <2> QED
      BY <1>3, <2>1, BeginTransactionStep DEF OnUpdateRecover
  <1>4. CASE DoRead
    <2>1. PICK n \in 1 .. MaxRead : n <= Len(rx) /\ HandleNext(n - 1)
      BY <1>4 DEF DoRead
    <2>2. n - 1 \in Nat /\ n - 1 < Len(rx)
      BY <2>1, BoundsAssumption DEF IndInv
    <2> QED
      BY <2>1, <2>2, HandleNextStep
  <1>5. CASE DoReadNext
    <2>1. toRead - 1 \in Nat /\ toRead - 1 < Len(rx)
      BY <1>5 DEF DoReadNext, IndInv, RestOK
    <2> QED
      BY <1>5, <2>1, HandleNextStep DEF DoReadNext
  <1> QED
    BY <1>1, <1>2, <1>3, <1>4, <1>5 DEF Daemon

(***************************************************************************)
(* The theorems.                                                           *)
(***************************************************************************)

\* The inductive invariant holds in every reachable state.
THEOREM Inductive == Spec => []IndInv
  <1>1. Init => IndInv
    BY InitInv
  <1>2. IndInv /\ [Next]_vars => IndInv'
    <2> SUFFICES ASSUME IndInv, [Next]_vars
                 PROVE  IndInv'
      OBVIOUS
    <2>1. CASE Next
      BY <2>1, DaemonStep, HubAndLinkStep, SecondPassesStep, ClientStep
         DEF Next
    <2>2. CASE UNCHANGED vars
      <3>1. RestOK'
        BY <2>2 DEF vars, IndInv, RestOK
      <3> QED
        BY <2>2, <3>1 DEF vars, IndInv
    <2> QED
      BY <2>1, <2>2
  <1> QED
    BY <1>1, <1>2, PTL DEF Spec

\* Every variable keeps its type: in particular outstandingMessages stays a
\* uint8_t and only transaction packets are ever queued in the write buffer.
THEOREM TypeCorrect == Spec => []TypeOK
  <1>1. IndInv => TypeOK
    BY IndInvType
  <1> QED
    BY <1>1, Inductive, PTL

\* Flush never reads outside the write buffer, and a transaction only ends
\* with nothing left to write, whatever is lost, refused, corrupted or late
\* and whatever the size of the window.
THEOREM BuffersAccounted == Spec => []BufferAccounting
  <1>1. IndInv => BufferAccounting
    BY DEF IndInv, SerialInv, BufferAccounting
  <1> QED
    BY <1>1, Inductive, PTL

\* The address and the interface id are known before any packet is built that
\* dereferences them, however late, repeated or out of turn the answers are.
THEOREM HandshakeOrdered == Spec => []StepsInOrder
  <1>1. IndInv => StepsInOrder
    BY DEF IndInv, SerialInv, StepsInOrder
  <1> QED
    BY <1>1, Inductive, PTL
=============================================================================
