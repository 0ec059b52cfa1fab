------------------------- MODULE ExpansionHubSerial -------------------------
(***************************************************************************)
(* expansionhub/ExpansionHubSerial.{h,cpp}: the object that talks to one   *)
(* expansion hub over a serial port.  Each method is an operator from the  *)
(* object's state before the call to its state after it.                   *)
(*                                                                         *)
(* A packet is the record [ref, ch, val]: the message number (reference    *)
(* number), the channel of the MESSAGE_..._<ch> families, and the payload  *)
(* as far as anything depends on it.  The writeBuffer is a sequence of     *)
(* packets where the code has their bytes; pendingWrites (a deque with the *)
(* size of every unwritten packet) and currentCount (an offset in bytes)   *)
(* count packets.                                                          *)
(***************************************************************************)
EXTENDS CachedCommand, Sequences

CONSTANTS
    Motors,            \* the motor channels in use, some of 0 .. 3
    Servos,            \* the servo channels in use, some of 0 .. 5
    MaxOutstanding     \* MAX_NUM_OUTSTANDING_MESSAGES

ASSUME MotorsAssumption == Motors \subseteq 0 .. 3
ASSUME ServosAssumption == Servos \subseteq 0 .. 5
ASSUME MaxOutstandingAssumption == MaxOutstanding \in 1 .. 255

UInt8 == 256
UInt16 == 65536

SynchronousRefs == {"DISCOVER", "QUERY_INTERFACE", "FTDI_RESET_CONTROL"}
CachedRefs == {"MOTOR_SET_RUN_MODE", "MOTOR_ENABLE",
               "SERVO_CONFIGURATION", "SERVO_ENABLE"}
OtherRefs == {"KEEP_ALIVE", "MODULE_STATUS", "MOTOR_RESET_ENCODER",
              "BATTERY_VOLTAGE", "BULK_INPUT", "SERVO_PULSE_WIDTH",
              "MOTOR_SET_CONSTANT_POWER", "MOTOR_GET_CURRENT"}
TransactionRefs == CachedRefs \cup OtherRefs
Refs == SynchronousRefs \cup TransactionRefs

PacketsOf(R) == [ref : R, ch : 0 .. 5, val : Nat]

\* What the receive state machine hands to HandlePayload: a packet that fails
\* its checksum is "corrupt", whatever it was.
FramesOf(R) == [kind : {"reply", "nack", "corrupt"},
                ref : R, ch : 0 .. 5, val : Nat]

SendStates == {"ReadyToSend", "WaitingForPackets", "WaitingForFinish"}

\* The object's fields.  discoverDue: more than MESSAGE_TIMEOUT since
\* discoverStartTime.  tx: what write(serialFd) has handed to the kernel and
\* the hub has not taken yet.
Serials ==
    [address : BOOLEAN, packetInterfaceId : BOOLEAN,
     configuredFtdiReset : BOOLEAN, discoverDue : BOOLEAN,
     outstandingMessages : 0 .. 255,
     writeBuffer : Seq(PacketsOf(TransactionRefs)),
     pendingWrites : Nat, currentCount : Nat, canEnable : BOOLEAN,
     deviceReset : BOOLEAN, sendState : SendStates, haveBulk : BOOLEAN,
     haveBattery : BOOLEAN, haveModuleStatus : BOOLEAN,
     tx : Seq(PacketsOf(Refs))]

NewSerial ==
    [address |-> FALSE, packetInterfaceId |-> FALSE,
     configuredFtdiReset |-> FALSE, discoverDue |-> TRUE,
     outstandingMessages |-> 0, writeBuffer |-> << >>,
     pendingWrites |-> 0, currentCount |-> 0, canEnable |-> FALSE,
     deviceReset |-> FALSE, sendState |-> "ReadyToSend", haveBulk |-> FALSE,
     haveBattery |-> FALSE, haveModuleStatus |-> FALSE, tx |-> << >>]

Request(ref, ch, val) == [ref |-> ref, ch |-> ch, val |-> val]

(***************************************************************************)
(* Sending.                                                                *)
(***************************************************************************)

\* SendPacket without the direct flag, for each packet of a sequence.
SendPackets(s, packets) ==
    [s EXCEPT !.writeBuffer = @ \o packets,
              !.pendingWrites = @ + Len(packets)]

\* SendPacket with the direct flag.
SendDirect(s, packet) == [s EXCEPT !.tx = Append(@, packet)]

\* Mutant: the window is one packet too wide.
ToWriteOneMore(s) ==
    IF s.outstandingMessages > MaxOutstanding
        \/ s.pendingWrites <= MaxOutstanding - s.outstandingMessages + 1
    THEN s.pendingWrites
    ELSE MaxOutstanding - s.outstandingMessages + 1

\* How many packets Flush writes.  The subtraction is done in size_t: above
\* the limit it wraps to a huge number and everything is written.
ToWrite(s) ==
    IF s.outstandingMessages > MaxOutstanding
        \/ s.pendingWrites <= MaxOutstanding - s.outstandingMessages
    THEN s.pendingWrites
    ELSE MaxOutstanding - s.outstandingMessages

Flush(s) ==
    LET n == ToWrite(s)
    IN  [s EXCEPT !.tx = @ \o SubSeq(s.writeBuffer, s.currentCount + 1,
                                     s.currentCount + n),
                  !.outstandingMessages = (@ + n) % UInt8,
                  !.pendingWrites = @ - n,
                  !.currentCount = @ + n]

(***************************************************************************)
(* The synchronous steps: discover, query the interface, configure the     *)
(* FTDI reset.  One request at a time, repeated after MESSAGE_TIMEOUT.     *)
(***************************************************************************)

\* Mutant: the interface is queried before there is an address to ask.
QueryFirst(s) ==
    CASE ~s.packetInterfaceId -> "QUERY_INTERFACE"
      [] s.packetInterfaceId /\ ~s.address -> "DISCOVER"
      [] OTHER -> "FTDI_RESET_CONTROL"

\* The step whose answer is still missing.
SynchronousStep(s) ==
    CASE ~s.address -> "DISCOVER"
      [] s.address /\ ~s.packetInterfaceId -> "QUERY_INTERFACE"
      [] OTHER -> "FTDI_RESET_CONTROL"

\* The branch of RunSynchronousSteps that only reports a ready device.
AllStepsDone(s) == s.address /\ s.packetInterfaceId /\ s.configuredFtdiReset

RunSynchronousSteps(s) ==
    IF s.discoverDue /\ ~AllStepsDone(s)
    THEN SendDirect([s EXCEPT !.discoverDue = FALSE],
                    Request(SynchronousStep(s), 0, 0))
    ELSE s

HasFinishedSynchronous(s) == s.configuredFtdiReset

(***************************************************************************)
(* Transactions.                                                           *)
(***************************************************************************)

AllowSend(s) == s.sendState = "ReadyToSend"

StartTransaction(s, canDoEnable) ==
    [s EXCEPT !.writeBuffer = << >>, !.currentCount = 0,
              !.canEnable = canDoEnable, !.haveBattery = FALSE,
              !.haveBulk = FALSE, !.haveModuleStatus = FALSE,
              !.sendState = "WaitingForPackets"]

\* Mutant: the sizes of the packets that were not written stay queued.
RecoverKeepsPending(s) ==
    [s EXCEPT !.outstandingMessages = 0, !.writeBuffer = << >>,
              !.currentCount = 0]

\* Mutant: the packets that were never answered stay counted.
RecoverKeepsCount(s) ==
    [s EXCEPT !.writeBuffer = << >>, !.pendingWrites = 0, !.currentCount = 0]

Recover(s) ==
    [s EXCEPT !.outstandingMessages = 0, !.writeBuffer = << >>,
              !.pendingWrites = 0, !.currentCount = 0]

\* The condition on which CheckForStateAdvance calls onSendCommands.
CommandsDue(s) ==
    /\ s.sendState = "WaitingForPackets"
    /\ s.haveBattery /\ s.haveBulk /\ s.haveModuleStatus

\* Mutant: the count is a signed number.
DecrementSigned(n) == n - 1

\* One packet fewer outstanding, in a uint8_t.
Decrement(n) == (n + UInt8 - 1) % UInt8

\* Mutant: a transaction is done once everything is written.
DoneWhenWritten(s) == s.pendingWrites = 0

\* Every packet of the transaction is written and answered.
TransactionDone(s) == s.pendingWrites = 0 /\ s.outstandingMessages = 0

\* commands: the packets onSendCommands queues, if it is called.
CheckForStateAdvance(s, commands) ==
    LET counted == [s EXCEPT !.outstandingMessages = Decrement(@)]
        advanced ==
            IF CommandsDue(s)
            THEN [Flush(SendPackets(counted, commands))
                     EXCEPT !.sendState = "WaitingForFinish"]
            ELSE counted
    IN  IF TransactionDone(advanced)
        THEN [advanced EXCEPT !.sendState = "ReadyToSend"]
        ELSE advanced

(***************************************************************************)
(* HandlePayload.                                                          *)
(***************************************************************************)

IsReply(f, ref) == f.kind = "reply" /\ f.ref = ref

\* HandlePayload reaches CheckForStateAdvance.
AdvancesState(s, f) ==
    \/ f.kind = "corrupt" /\ s.packetInterfaceId
    \/ f.kind = "nack" /\ f.ref \notin {"DISCOVER", "QUERY_INTERFACE"}
    \/ f.kind = "reply" /\ f.ref \notin SynchronousRefs

\* The answers to the three synchronous requests, none of which is counted.
\* A discover answer is only taken from the parent hub (payload 1).
SynchronousAnswer(s, f) ==
    CASE IsReply(f, "DISCOVER") /\ ~s.address /\ f.val = 1 ->
             RunSynchronousSteps([s EXCEPT !.address = TRUE,
                                           !.discoverDue = TRUE])
      [] IsReply(f, "FTDI_RESET_CONTROL") ->
             RunSynchronousSteps([s EXCEPT !.configuredFtdiReset = TRUE,
                                           !.discoverDue = TRUE])
      [] IsReply(f, "QUERY_INTERFACE") /\ ~s.packetInterfaceId ->
             RunSynchronousSteps([s EXCEPT !.packetInterfaceId = TRUE,
                                           !.discoverDue = TRUE])
      [] OTHER -> s

\* The part of the switch that changes the object itself.
NoteReply(s, f) ==
    [s EXCEPT !.haveModuleStatus = @ \/ IsReply(f, "MODULE_STATUS"),
              !.deviceReset = IF IsReply(f, "MODULE_STATUS")
                              THEN f.val # 0 ELSE @,
              !.haveBulk = @ \/ IsReply(f, "BULK_INPUT"),
              !.haveBattery = @ \/ IsReply(f, "BATTERY_VOLTAGE")]

HandlePayload(s, f, commands) ==
    IF AdvancesState(s, f) THEN CheckForStateAdvance(NoteReply(s, f), commands)
                           ELSE SynchronousAnswer(s, f)
=============================================================================
