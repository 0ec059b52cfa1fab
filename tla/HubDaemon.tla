------------------------------ MODULE HubDaemon ------------------------------
(***************************************************************************)
(* The expansion hub daemon with one hub attached: ExpansionHubState of    *)
(* expansionhub/main.cpp driving an ExpansionHubSerial, the serial link,   *)
(* the hub at its other end and the NetworkTables client that asks for     *)
(* settings.                                                               *)
(*                                                                         *)
(* Every callback of the daemon runs on one libuv loop thread: the 12 ms   *)
(* timer (OnUpdate) and the readable event of the serial port (DoRead).    *)
(* The hub, the link, the clock, the client and the robot's watchdog run   *)
(* beside it.  The hub firmware and the link are not in this repository:   *)
(* they are modelled from how the daemon uses them.                        *)
(***************************************************************************)
EXTENDS ExpansionHubSerial, FiniteSets

CONSTANTS
    FramePeriods,      \* servo frame periods the client may publish
    PulseWidths,       \* servo pulse widths the client may publish
    Faults,            \* pairs <<fault, ref>>: what may go wrong with a packet
    MaxFaults,         \* bound: how many packets go wrong
    MaxHubResets,      \* bound: how often the hub loses its state
    MaxStalls,         \* bound: how often a second passes with answers unread
    MaxClientChanges,  \* bound: how often the client publishes something
    MaxRead            \* bound: packets that one read() returns

ASSUME ValuesAssumption ==
    FramePeriods \subseteq Nat /\ PulseWidths \subseteq Nat
ASSUME BoundsAssumption ==
    /\ MaxFaults \in Nat /\ MaxHubResets \in Nat /\ MaxStalls \in Nat
    /\ MaxClientChanges \in Nat /\ MaxRead \in Nat \ {0}

VARIABLES
    serial,            \* the ExpansionHubSerial object
    cache,             \* ntStore: the CachedCommand of every setting
    encoderReset,      \* ntStore: doReset and lastResetTime of every motor
    rx,                \* packets the hub has answered with, unread
    toRead,            \* packets of the current read() still to be handled
    loopDue,           \* a second or more since ExpansionHubState::lastLoop
    client,            \* what the client has published
    watchdog,          \* EnabledState: the robot may be enabled
    hub,               \* the hub's own state
    left               \* what is left of the bounds on the environment

vars == <<serial, cache, encoderReset, rx, toRead, loopDue, client, watchdog,
          hub, left>>

\* The settings that are cached, one per message number and channel.
MotorSettings == {"MOTOR_SET_RUN_MODE", "MOTOR_ENABLE"} \X Motors
ServoSettings == {"SERVO_CONFIGURATION", "SERVO_ENABLE"} \X Servos
Settings == MotorSettings \cup ServoSettings

Enables == {"MOTOR_ENABLE", "SERVO_ENABLE"}

Value == Nat
ValuesOf(x) == IF x[1] = "SERVO_CONFIGURATION" THEN FramePeriods ELSE {0, 1}

EncoderResets == [doReset : [Motors -> BOOLEAN],
                  lastResetTime : [Motors -> Nat]]
Clients == [value : [Settings -> Value], pulseWidth : [Servos -> Nat],
            resetTime : [Motors -> Nat]]
Hubs == [value : [Settings -> Value], resetFor : [Motors -> Nat],
         attention : BOOLEAN]
Bounds == [faults : 0 .. MaxFaults, hubResets : 0 .. MaxHubResets,
           stalls : 0 .. MaxStalls, changes : 0 .. MaxClientChanges]

TypeOK ==
    /\ serial \in Serials
    /\ cache \in [Settings -> Caches(Value)]
    /\ encoderReset \in EncoderResets
    /\ rx \in Seq(FramesOf(Refs))
    /\ toRead \in Nat
    /\ loopDue \in BOOLEAN
    /\ client \in Clients
    /\ watchdog \in BOOLEAN
    /\ hub \in Hubs
    /\ left \in Bounds

(***************************************************************************)
(* The packets of a transaction.                                           *)
(***************************************************************************)

\* A packet sent for a channel that is in use and meets a condition.
SendIf(condition, packet) == IF condition THEN <<packet>> ELSE << >>

\* for (i = 0; i < NUM_MOTORS_PER_HUB; i++), and the same for the servos.
ForMotors(P(_)) == P(0) \o P(1) \o P(2) \o P(3)
ForServos(P(_)) == P(0) \o P(1) \o P(2) \o P(3) \o P(4) \o P(5)

\* Mutant: a request is only sent in the transaction that first sees it.
DoResetOnce(m) == client.resetTime[m] # encoderReset.lastResetTime[m]

\* A published reset request is new when its timestamp is.
DoReset(m) ==
    \/ encoderReset.doReset[m]
    \/ client.resetTime[m] # encoderReset.lastResetTime[m]

\* The payload of a reset request is its channel alone; val is a history of
\* which request it serves.
EncoderResetPacket(m) ==
    SendIf(m \in Motors /\ DoReset(m),
           Request("MOTOR_RESET_ENCODER", m, client.resetTime[m]))

\* The int64 of the topic becomes a uint16; 0 is not sent.
ServoPulseWidthPacket(v) ==
    SendIf(v \in Servos /\ client.pulseWidth[v] % UInt16 # 0,
           Request("SERVO_PULSE_WIDTH", v, client.pulseWidth[v] % UInt16))

\* SendInitial.
InitialPackets ==
    <<Request("KEEP_ALIVE", 0, 0), Request("MODULE_STATUS", 0, 0)>>
        \o ForMotors(EncoderResetPacket)
        \o <<Request("BATTERY_VOLTAGE", 0, 0), Request("BULK_INPUT", 0, 0)>>
        \o ForServos(ServoPulseWidthPacket)

\* What a transaction wants a setting to be.
Wanted(x, canEnable) ==
    IF x[1] \in Enables THEN WithCanEnable(canEnable, client.value[x])
                        ELSE client.value[x]

\* Mutant: a reset of the device is not acted on.
ForgetNothing(caches, deviceReset) == [x \in Settings |-> caches[x]]

\* SendCommands first forgets every acknowledgement when the device was reset.
ForgetIfReset(caches, deviceReset) ==
    [x \in Settings |->
        IF deviceReset THEN ForceReset(caches[x]) ELSE caches[x]]

\* What the Get calls of SendCommands leave in the caches.
GetAll(caches, canEnable) ==
    [x \in Settings |-> Get(caches[x], Wanted(x, canEnable))]

\* SendMotorMode, SendMotorEnable, SendServoEnable and SendServoConfiguration:
\* sent when Get returned a value, a frame period only when its low 16 bits
\* exceed 1.
SettingPacket(x, caches, canEnable) ==
    SendIf(/\ x \in Settings
           /\ MustSend(caches[x], Wanted(x, canEnable))
           /\ x[1] = "SERVO_CONFIGURATION"
                  => Wanted(x, canEnable) % UInt16 > 1,
           Request(x[1], x[2], Wanted(x, canEnable) % UInt16))

\* The packets of SendCommands.
CommandPackets(caches, canEnable) ==
    LET Power(m) == SendIf(m \in Motors,
                           Request("MOTOR_SET_CONSTANT_POWER", m, 0))
        Current(m) == SendIf(m \in Motors, Request("MOTOR_GET_CURRENT", m, 0))
        Setting(ref, ch) == SettingPacket(<<ref, ch>>, caches, canEnable)
    IN  ForMotors(Power) \o ForMotors(Current)
        \o ForMotors(LAMBDA m : Setting("MOTOR_SET_RUN_MODE", m))
        \o ForMotors(LAMBDA m : Setting("MOTOR_ENABLE", m))
        \o ForServos(LAMBDA v : Setting("SERVO_CONFIGURATION", v))
        \o ForServos(LAMBDA v : Setting("SERVO_ENABLE", v))

(***************************************************************************)
(* The 12 ms timer.  The branch that only counts a missed loop changes     *)
(* nothing here.                                                           *)
(***************************************************************************)

\* Mutant: only the discover is repeated.
RepeatDiscoverOnly ==
    /\ toRead = 0
    /\ ~serial.address
    /\ serial.discoverDue
    /\ serial' = RunSynchronousSteps(serial)
    /\ UNCHANGED <<cache, encoderReset, rx, toRead, loopDue, client, watchdog,
                   hub, left>>

OnUpdateSynchronous ==
    /\ toRead = 0
    /\ ~HasFinishedSynchronous(serial)
    /\ serial.discoverDue
    /\ serial' = RunSynchronousSteps(serial)
    /\ UNCHANGED <<cache, encoderReset, rx, toRead, loopDue, client, watchdog,
                   hub, left>>

\* StartTransaction and SendInitial, from the object s.
BeginTransaction(s) ==
    /\ serial' = Flush(SendPackets(StartTransaction(s, watchdog),
                                   InitialPackets))
    /\ encoderReset' = [doReset |-> [m \in Motors |-> DoReset(m)],
                        lastResetTime |-> client.resetTime]
    /\ loopDue' = FALSE
    /\ UNCHANGED <<cache, rx, toRead, client, watchdog, hub, left>>

OnUpdateSend ==
    /\ toRead = 0
    /\ HasFinishedSynchronous(serial)
    /\ AllowSend(serial)
    /\ BeginTransaction(serial)

OnUpdateRecover ==
    /\ toRead = 0
    /\ HasFinishedSynchronous(serial)
    /\ ~AllowSend(serial)
    /\ loopDue
    /\ BeginTransaction(Recover(serial))

(***************************************************************************)
(* The readable event of the serial port: a read() returns some packets,   *)
(* each is handled, and Flush follows the last one.  Nothing else of the   *)
(* daemon runs in between.                                                 *)
(***************************************************************************)

\* Mutant: any packet that names a setting acknowledges it, a NACK too.
AckedByAnything(f) ==
    [x \in Settings |-> IF x = <<f.ref, f.ch>>
                        THEN Ack(cache[x]) ELSE cache[x]]

\* The acknowledgements of the switch in HandlePayload.
AckedBy(f) ==
    [x \in Settings |-> IF f.kind = "reply" /\ x = <<f.ref, f.ch>>
                        THEN Ack(cache[x]) ELSE cache[x]]

\* Mutant: a NACK of a reset request ends it too.
ResetsAfterAnything(f) ==
    [encoderReset EXCEPT !.doReset =
        [m \in Motors |->
            @[m] /\ ~(f.ref = "MOTOR_RESET_ENCODER" /\ f.ch = m)]]

\* The same for the encoder resets.
ResetsAfter(f) ==
    [encoderReset EXCEPT !.doReset =
        [m \in Motors |->
            @[m] /\ ~(IsReply(f, "MOTOR_RESET_ENCODER") /\ f.ch = m)]]

HandleFrame(f, remaining) ==
    LET noted == NoteReply(serial, f)
        sends == AdvancesState(serial, f) /\ CommandsDue(noted)
        acked == AckedBy(f)
        ready == ForgetIfReset(acked, noted.deviceReset)
        after == HandlePayload(serial, f,
                               CommandPackets(ready, noted.canEnable))
    IN  /\ serial' = IF remaining = 0 THEN Flush(after) ELSE after
        /\ cache' = IF sends
                    THEN GetAll(ready, noted.canEnable) ELSE acked
        /\ encoderReset' = ResetsAfter(f)
        /\ toRead' = remaining

HandleNext(remaining) ==
    /\ HandleFrame(Head(rx), remaining)
    /\ rx' = Tail(rx)
    /\ UNCHANGED <<loopDue, client, watchdog, hub, left>>

DoRead ==
    /\ toRead = 0
    /\ \E n \in 1 .. MaxRead : n <= Len(rx) /\ HandleNext(n - 1)

DoReadNext ==
    /\ toRead > 0
    /\ HandleNext(toRead - 1)

(***************************************************************************)
(* The hub.  It takes the packets in order and answers each with one       *)
(* packet.  Reading the module status clears it.                           *)
(***************************************************************************)

Answer(kind, p) ==
    [kind |-> kind, ref |-> p.ref, ch |-> p.ch,
     val |-> CASE p.ref = "DISCOVER" -> 1
               [] p.ref = "MODULE_STATUS" -> IF hub.attention THEN 1 ELSE 0
               [] OTHER -> 0]

Perform(p) ==
    [value |-> [x \in Settings |->
                   IF x = <<p.ref, p.ch>> THEN p.val ELSE hub.value[x]],
     resetFor |-> [m \in Motors |->
                      IF p.ref = "MOTOR_RESET_ENCODER" /\ p.ch = m
                      THEN p.val ELSE hub.resetFor[m]],
     attention |-> hub.attention /\ p.ref # "MODULE_STATUS"]

\* The hub takes the next packet.
HubTakes ==
    /\ serial.tx # << >>
    /\ serial' = [serial EXCEPT !.tx = Tail(@)]
    /\ UNCHANGED <<cache, encoderReset, toRead, loopDue, client, watchdog>>

Fault(kind, p) ==
    /\ <<kind, p.ref>> \in Faults
    /\ left.faults > 0
    /\ left' = [left EXCEPT !.faults = @ - 1]

HubAnswers ==
    LET p == Head(serial.tx)
    IN  /\ HubTakes
        /\ hub' = Perform(p)
        /\ rx' = Append(rx, Answer("reply", p))
        /\ UNCHANGED left

\* The packet is lost on its way to the hub.
LoseRequest ==
    LET p == Head(serial.tx)
    IN  /\ HubTakes /\ Fault("lose request", p)
        /\ UNCHANGED <<hub, rx>>

\* The hub refuses the packet.
HubNacks ==
    LET p == Head(serial.tx)
    IN  /\ HubTakes /\ Fault("nack", p)
        /\ rx' = Append(rx, Answer("nack", p))
        /\ UNCHANGED hub

\* The answer is lost on its way to the daemon.
LoseAnswer ==
    LET p == Head(serial.tx)
    IN  /\ HubTakes /\ Fault("lose answer", p)
        /\ hub' = Perform(p)
        /\ UNCHANGED rx

\* The answer arrives with a bad checksum.
CorruptAnswer ==
    LET p == Head(serial.tx)
    IN  /\ HubTakes /\ Fault("corrupt answer", p)
        /\ hub' = Perform(p)
        /\ rx' = Append(rx, Answer("corrupt", p))

\* A second hub behind the first answers a discover before it does.
ChildAnswersToo ==
    LET p == Head(serial.tx)
    IN  /\ HubTakes /\ Fault("child answers", p)
        /\ rx' = rx \o <<[Answer("reply", p) EXCEPT !.val = 0],
                         Answer("reply", p)>>
        /\ UNCHANGED hub

PoweredUp ==
    [value |-> [x \in Settings |-> 0], resetFor |-> [m \in Motors |-> 0],
     attention |-> TRUE]

\* The hub loses its settings and remembers it in its module status.
HubResets ==
    /\ left.hubResets > 0
    /\ left' = [left EXCEPT !.hubResets = @ - 1]
    /\ hub' = [PoweredUp EXCEPT !.resetFor = hub.resetFor]
    /\ UNCHANGED <<serial, cache, encoderReset, rx, toRead, loopDue, client,
                   watchdog>>

(***************************************************************************)
(* The clock.  Answers take milliseconds, so a second passes with answers  *)
(* on their way only when the daemon or the link stalls.                   *)
(***************************************************************************)

Quiet == serial.tx = << >> /\ rx = << >>

SecondPasses ==
    /\ toRead = 0
    /\ ~(loopDue /\ serial.discoverDue)
    /\ \/ Quiet /\ UNCHANGED left
       \/ /\ ~Quiet /\ left.stalls > 0
          /\ left' = [left EXCEPT !.stalls = @ - 1]
    /\ serial' = [serial EXCEPT !.discoverDue = TRUE]
    /\ loopDue' = TRUE
    /\ UNCHANGED <<cache, encoderReset, rx, toRead, client, watchdog, hub>>

(***************************************************************************)
(* The client and the watchdog.                                            *)
(***************************************************************************)

ClientChanges ==
    /\ left.changes > 0
    /\ left' = [left EXCEPT !.changes = @ - 1]
    /\ UNCHANGED <<serial, cache, encoderReset, rx, toRead, loopDue, hub>>

SetSetting(x) ==
    /\ ClientChanges
    /\ \E v \in ValuesOf(x) \ {client.value[x]} :
           client' = [client EXCEPT !.value[x] = v]
    /\ UNCHANGED watchdog

SetPulseWidth(v) ==
    /\ ClientChanges
    /\ \E w \in PulseWidths \ {client.pulseWidth[v]} :
           client' = [client EXCEPT !.pulseWidth[v] = w]
    /\ UNCHANGED watchdog

\* resetTime stands for the timestamp of the latest reset request, which
\* grows with every request.
RequestReset(m) ==
    /\ ClientChanges
    /\ client' = [client EXCEPT !.resetTime[m] = @ + 1]
    /\ UNCHANGED watchdog

WatchdogChanges ==
    /\ ClientChanges
    /\ watchdog' = ~watchdog
    /\ UNCHANGED client

(***************************************************************************)
(* The specification.  OnDeviceAdded has just run: the first discover is   *)
(* written and every cache is empty.  The hub may have been running        *)
(* before, with anything enabled.                                          *)
(***************************************************************************)

\* What ExpansionHubState::OnDeviceAdded leaves in ntStore for the first hub
\* of the bus.
DeviceAdded ==
    /\ cache = [x \in Settings |-> ForceReset(NewCache)]
    /\ encoderReset = [doReset |-> [m \in Motors |-> FALSE],
                       lastResetTime |-> [m \in Motors |-> 0]]

Init ==
    /\ serial = RunSynchronousSteps(NewSerial)
    /\ DeviceAdded
    /\ rx = << >>
    /\ toRead = 0
    /\ loopDue = FALSE
    /\ \E p \in FramePeriods, w \in PulseWidths :
           client = [value |-> [x \in Settings |->
                                  IF x[1] = "SERVO_CONFIGURATION"
                                  THEN p ELSE 0],
                     pulseWidth |-> [v \in Servos |-> w],
                     resetTime |-> [m \in Motors |-> 0]]
    /\ watchdog = FALSE
    /\ \/ hub = PoweredUp
       \/ hub = [PoweredUp EXCEPT
                    !.value = [x \in Settings |->
                                  IF x[1] \in Enables THEN 1 ELSE 0],
                    !.attention = FALSE]
    /\ left = [faults |-> MaxFaults, hubResets |-> MaxHubResets,
               stalls |-> MaxStalls, changes |-> MaxClientChanges]

Daemon == \/ OnUpdateSynchronous \/ OnUpdateSend \/ OnUpdateRecover
          \/ DoRead \/ DoReadNext

HubAndLink == \/ HubAnswers \/ LoseRequest \/ HubNacks \/ LoseAnswer
              \/ CorruptAnswer \/ ChildAnswersToo \/ HubResets

Client == \/ \E x \in Settings : SetSetting(x)
          \/ \E v \in Servos : SetPulseWidth(v)
          \/ \E m \in Motors : RequestReset(m)
          \/ WatchdogChanges

Next == Daemon \/ HubAndLink \/ SecondPasses \/ Client

Spec == Init /\ [][Next]_vars

\* The timer keeps firing, the readable event is level triggered, the hub
\* answers what it receives and time passes.
Fairness ==
    /\ WF_vars(OnUpdateSynchronous)
    /\ WF_vars(OnUpdateSend)
    /\ WF_vars(OnUpdateRecover)
    /\ WF_vars(DoRead)
    /\ WF_vars(DoReadNext)
    /\ WF_vars(HubAnswers)
    /\ WF_vars(SecondPasses)

FairSpec == Spec /\ Fairness

(***************************************************************************)
(* Properties.                                                             *)
(***************************************************************************)

\* The bytes Flush is about to write are in the write buffer: it holds what
\* was written in this transaction followed by what is pending, although
\* StartTransaction clears the buffer and not pendingWrites.  A transaction
\* therefore only ends, or starts again, with nothing pending.
BufferAccounting ==
    /\ Len(serial.writeBuffer) = serial.currentCount + serial.pendingWrites
    /\ AllowSend(serial) => serial.pendingWrites = 0

\* No step uses an address or an interface id that is not known: the second
\* and third synchronous step, and every transaction, dereference optionals
\* that only the answers to the steps before them fill.
StepsInOrder ==
    /\ serial.configuredFtdiReset => serial.packetInterfaceId
    /\ serial.packetInterfaceId => serial.address

\* The packets of transactions on their way to the hub or back.
Counted(q) == Cardinality({i \in DOMAIN q : q[i].ref \notin SynchronousRefs})
InFlight == Counted(serial.tx) + Counted(rx)

\* outstandingMessages never counts fewer packets than are on their way, so
\* no more than MAX_NUM_OUTSTANDING_MESSAGES of them ever are.
FlowControl ==
    InFlight <= serial.outstandingMessages
        /\ serial.outstandingMessages <= MaxOutstanding

\* When the next transaction may start, no answer of the last one is still
\* to come: haveBattery, haveBulk, haveModuleStatus and the acknowledgements
\* of a transaction come from its own packets.
NoStaleAnswers == AllowSend(serial) => InFlight = 0

\* An Ack never copies a lastAttemptedValue that was never written: whatever
\* can still be answered was attempted.
AttemptBeforeAck ==
    \A x \in Settings :
        (\/ \E i \in DOMAIN rx : <<rx[i].ref, rx[i].ch>> = x
         \/ \E i \in DOMAIN serial.tx :
                <<serial.tx[i].ref, serial.tx[i].ch>> = x
         \/ \E i \in DOMAIN serial.writeBuffer :
                <<serial.writeBuffer[i].ref, serial.writeBuffer[i].ch>> = x)
        => cache[x].attempted # {}

\* The module status that tells of a reset is still to be acted on.
ResetUnderway ==
    \/ hub.attention
    \/ \E i \in DOMAIN rx : IsReply(rx[i], "MODULE_STATUS") /\ rx[i].val # 0
    \/ /\ serial.sendState = "WaitingForPackets"
       /\ serial.haveModuleStatus /\ serial.deviceReset

\* A value the daemon holds for acknowledged, and so will not send again, is
\* the value the hub uses, unless the daemon is about to learn that the hub
\* was reset.
AckedMeansApplied ==
    \A x \in Settings :
        cache[x].acked # {} =>
            \/ cache[x].acked = {v \in cache[x].acked :
                                    v % UInt16 = hub.value[x]}
            \/ ResetUnderway

\* A reset request the daemon holds for done was carried out by the hub after
\* the client published it.
EncoderResetConfirmed ==
    \A m \in Motors :
        ~encoderReset.doReset[m] =>
            hub.resetFor[m] = encoderReset.lastResetTime[m]

\* After a transaction that started with the watchdog off and got as far as
\* sending its commands, nothing is enabled on the hub.
DisabledWhenDone ==
    /\ AllowSend(serial) /\ ~serial.canEnable
    /\ serial.haveBattery /\ serial.haveBulk /\ serial.haveModuleStatus
    => \A x \in Settings : x[1] \in Enables => hub.value[x] = 0

\* The synchronous steps complete, whatever is lost on the way.
HandshakeCompletes == <>HasFinishedSynchronous(serial)

\* Transactions keep completing: a transaction whose answers were lost is
\* abandoned after a second and a later one completes.
TransactionsComplete == []<>(HasFinishedSynchronous(serial) => AllowSend(serial))

\* A setting the daemon can send at all.
Sendable(x) ==
    x[1] = "SERVO_CONFIGURATION" => client.value[x] % UInt16 > 1

\* Once the client and the watchdog are stable, the hub ends up with the
\* settings they ask for and keeps them.
SettingsConverge ==
    <>[](\A x \in Settings :
            Sendable(x) => hub.value[x] = Wanted(x, watchdog) % UInt16)

\* Encoder resets are not forgotten.
ResetsHappen ==
    <>[](\A m \in Motors : hub.resetFor[m] = client.resetTime[m])
=============================================================================
