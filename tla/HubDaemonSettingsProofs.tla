----------------------- MODULE HubDaemonSettingsProofs -----------------------
(***************************************************************************)
(* Theorems about what the packets of HubDaemon carry and what an answer   *)
(* to them lets the daemon conclude: the cached settings, the encoder      *)
(* resets and the disabling of everything when the watchdog is off.        *)
(***************************************************************************)
EXTENDS HubDaemonFlowProofs

(***************************************************************************)
(* Whatever is queued ends up on the wire: if every packet that is built   *)
(* is in a set P, the buffer and the wire only ever hold packets of P.     *)
(***************************************************************************)

\* The buffer and the wire hold packets of P.
Holds(s, P) == s.writeBuffer \in Seq(P) /\ s.tx \in Seq(P)

LEMMA HoldsMonotone ==
    ASSUME NEW s, NEW P, NEW Q, Holds(s, P), P \subseteq Q
    PROVE  Holds(s, Q)
  BY SeqMonotone DEF Holds

LEMMA FlushHolds ==
    ASSUME NEW s, SerialInv(s), NEW P, Holds(s, P)
    PROVE  Holds(Flush(s), P)
  <1>1. /\ Flush(s).tx = s.tx \o Flushed(s)
        /\ Flush(s).writeBuffer = s.writeBuffer
    BY FlushFields
  <1>2. Flushed(s) \in Seq(P)
    BY FlushedFrom DEF Holds
  <1> QED
    BY <1>1, <1>2 DEF Holds

\* The count may wrap here: nothing is assumed of it.
LEMMA CountDownHolds ==
    ASSUME NEW s, SerialInv(s)
    PROVE  /\ SerialInv(CountDown(s))
           /\ CountDown(s).tx = s.tx
           /\ CountDown(s).writeBuffer = s.writeBuffer
           /\ CountDown(s).currentCount = s.currentCount
           /\ CountDown(s).sendState = s.sendState
  <1> DEFINE out == Decrement(s.outstandingMessages)
             t == CountDown(s)
  <1>1. s \in Serials /\ out \in 0 .. 255
    BY SerialFields, DecrementRange DEF SerialInv
  <1>2. t = [s EXCEPT !.outstandingMessages = out]
    BY DEF CountDown
  <1> HIDE DEF out, t
  <1>3. t \in Serials
    <2>1. [s EXCEPT !.outstandingMessages = out] \in Serials
      BY <1>1, Zenon DEF Serials
    <2> QED
      BY <1>2, <2>1
  <1>4. /\ t.tx = s.tx /\ t.writeBuffer = s.writeBuffer
        /\ t.currentCount = s.currentCount
        /\ t.pendingWrites = s.pendingWrites /\ t.sendState = s.sendState
        /\ SameNotes(s, t)
    BY <1>1, <1>2 DEF Serials, SameNotes
  <1>5. AllowSend(t) => t.pendingWrites = 0
    BY <1>4 DEF AllowSend, SerialInv
  <1>6. SerialInv(t)
    BY <1>3, <1>4, <1>5, SameBuffers DEF SameNotes
  <1> QED
    BY <1>4, <1>6 DEF t

LEMMA CheckHolds ==
    ASSUME NEW s, SerialInv(s), NEW P, Holds(s, P),
           NEW commands \in Seq(PacketsOf(TransactionRefs)),
           CommandsDue(s) => commands \in Seq(P)
    PROVE  Holds(CheckForStateAdvance(s, commands), P)
  <1> DEFINE c == CountDown(s)
             q == SendPackets(c, commands)
             u == Flush(q)
             a == Advanced(s, commands)
  <1>1. /\ SerialInv(c) /\ c.tx = s.tx /\ c.writeBuffer = s.writeBuffer
        /\ c.sendState = s.sendState
    BY CountDownHolds
  <1>2. SerialInv(a) /\ Holds(a, P)
    <2>1. CASE CommandsDue(s)
      <3>1. a = [u EXCEPT !.sendState = "WaitingForFinish"]
        BY <2>1 DEF Advanced
      <3> HIDE DEF a
      <3>2. ~AllowSend(c)
        BY <1>1, <2>1 DEF CommandsDue, AllowSend
      <3> HIDE DEF c
      <3>3. SerialInv(q)
        BY <1>1, <3>2, SendPacketsInv
      <3>4. q.tx = c.tx /\ q.writeBuffer = c.writeBuffer \o commands
        BY <1>1, SendPacketsFields
      <3> HIDE DEF q
      <3>5. Holds(q, P)
        BY <1>1, <2>1, <3>4 DEF Holds
      <3>6. SerialInv(u) /\ Holds(u, P)
        BY <3>3, <3>5, FlushInv, FlushHolds
      <3> HIDE DEF u
      <3>7. SerialInv(a)
        BY <3>1, <3>6, SendStateInv DEF SendStates
      <3>8. a.tx = u.tx /\ a.writeBuffer = u.writeBuffer
        BY <3>1, <3>6, StateFields
      <3> QED
        BY <3>6, <3>7, <3>8 DEF Holds
    <2>2. CASE ~CommandsDue(s)
      <3>1. a = c
        BY <2>2 DEF Advanced
      <3> HIDE DEF a, c
      <3> QED
        BY <1>1, <3>1 DEF Holds
    <2> QED
      BY <2>1, <2>2
  <1> DEFINE t == CheckForStateAdvance(s, commands)
  <1>3. \/ t = [a EXCEPT !.sendState = "ReadyToSend"]
        \/ t = a
    BY CheckIs
  <1> HIDE DEF a, t
  <1>4. t.tx = a.tx /\ t.writeBuffer = a.writeBuffer
    <2>1. CASE t = [a EXCEPT !.sendState = "ReadyToSend"]
      BY <1>2, <2>1, StateFields
    <2>2. CASE t = a
      BY <2>2
    <2> QED
      BY <1>3, <2>1, <2>2
  <1>5. Holds(t, P)
    BY <1>2, <1>4 DEF Holds
  <1> QED
    BY <1>5 DEF t

LEMMA RunSynchronousStepsHolds ==
    ASSUME NEW s, SerialInv(s), NEW P, Holds(s, P),
           \A ref \in SynchronousRefs : Request(ref, 0, 0) \in P
    PROVE  Holds(RunSynchronousSteps(s), P)
  <1>1. CASE ~(s.discoverDue /\ ~AllStepsDone(s))
    BY <1>1 DEF RunSynchronousSteps
  <1>2. CASE s.discoverDue /\ ~AllStepsDone(s)
    <2> DEFINE request == Request(SynchronousStep(s), 0, 0)
               t == RunSynchronousSteps(s)
    <2>1. request \in P
      BY DEF SynchronousStep, SynchronousRefs
    <2>2. t = SendDirect([s EXCEPT !.discoverDue = FALSE], request)
      BY <1>2 DEF RunSynchronousSteps
    <2> HIDE DEF request, t
    <2>3. t.tx = Append(s.tx, request) /\ t.writeBuffer = s.writeBuffer
      BY <2>2 DEF SerialInv, Serials, SendDirect
    <2>4. Holds(t, P)
      BY <2>1, <2>3 DEF Holds
    <2> QED
      BY <2>4 DEF t
  <1> QED
    BY <1>1, <1>2

LEMMA SynchronousAnswerHolds ==
    ASSUME NEW s, SerialInv(s), NEW f \in FramesOf(RefsSoFar(s)),
           NEW P, Holds(s, P),
           \A ref \in SynchronousRefs : Request(ref, 0, 0) \in P
    PROVE  Holds(SynchronousAnswer(s, f), P)
  <1>0. s \in Serials /\ f.ref \in RefsSoFar(s)
    BY DEF SerialInv, FramesOf
  <1>a. ASSUME NEW u \in Serials, u.tx = s.tx, u.writeBuffer = s.writeBuffer,
               u.currentCount = s.currentCount,
               u.pendingWrites = s.pendingWrites, u.sendState = s.sendState,
               s.address => u.address,
               s.packetInterfaceId => u.packetInterfaceId,
               u.configuredFtdiReset => u.packetInterfaceId,
               u.packetInterfaceId => u.address
        PROVE  Holds(RunSynchronousSteps(u), P)
    <2>1. SerialInv(u)
      BY <1>a, StepAnswered
    <2>2. Holds(u, P)
      BY <1>a DEF Holds
    <2> QED
      BY <2>1, <2>2, RunSynchronousStepsHolds
  <1>1. CASE IsReply(f, "DISCOVER") /\ ~s.address /\ f.val = 1
    <2> DEFINE u == [s EXCEPT !.address = TRUE, !.discoverDue = TRUE]
    <2>1. u \in Serials
      BY <1>0, Zenon DEF Serials
    <2>2. /\ u.tx = s.tx /\ u.writeBuffer = s.writeBuffer
          /\ u.currentCount = s.currentCount
          /\ u.pendingWrites = s.pendingWrites /\ u.sendState = s.sendState
          /\ u.address = TRUE /\ u.packetInterfaceId = s.packetInterfaceId
          /\ u.configuredFtdiReset = s.configuredFtdiReset
      BY <1>0 DEF Serials
    <2>3. SynchronousAnswer(s, f) = RunSynchronousSteps(u)
      BY <1>1 DEF SynchronousAnswer, IsReply
    <2> HIDE DEF u
    <2> QED
      BY <1>a, <2>1, <2>2, <2>3 DEF SerialInv
  <1>2. CASE IsReply(f, "FTDI_RESET_CONTROL")
    <2> DEFINE u == [s EXCEPT !.configuredFtdiReset = TRUE,
                              !.discoverDue = TRUE]
    <2>1. u \in Serials
      BY <1>0, Zenon DEF Serials
    <2>2. /\ u.tx = s.tx /\ u.writeBuffer = s.writeBuffer
          /\ u.currentCount = s.currentCount
          /\ u.pendingWrites = s.pendingWrites /\ u.sendState = s.sendState
          /\ u.address = s.address
          /\ u.packetInterfaceId = s.packetInterfaceId
      BY <1>0 DEF Serials
    <2>3. SynchronousAnswer(s, f) = RunSynchronousSteps(u)
      BY <1>2 DEF SynchronousAnswer, IsReply
    <2>4. s.packetInterfaceId /\ s.address
      BY <1>0, <1>2 DEF RefsSoFar, IsReply, SerialInv, TransactionRefs,
                        CachedRefs, OtherRefs
    <2> HIDE DEF u
    <2> QED
      BY <1>a, <2>1, <2>2, <2>3, <2>4
  <1>3. CASE IsReply(f, "QUERY_INTERFACE") /\ ~s.packetInterfaceId
    <2> DEFINE u == [s EXCEPT !.packetInterfaceId = TRUE,
                              !.discoverDue = TRUE]
    <2>1. u \in Serials
      BY <1>0, Zenon DEF Serials
    <2>2. /\ u.tx = s.tx /\ u.writeBuffer = s.writeBuffer
          /\ u.currentCount = s.currentCount
          /\ u.pendingWrites = s.pendingWrites /\ u.sendState = s.sendState
          /\ u.address = s.address /\ u.packetInterfaceId = TRUE
      BY <1>0 DEF Serials
    <2>3. SynchronousAnswer(s, f) = RunSynchronousSteps(u)
      BY <1>3 DEF SynchronousAnswer, IsReply
    <2>4. s.address
      BY <1>0, <1>3 DEF RefsSoFar, IsReply, SerialInv, TransactionRefs,
                        CachedRefs, OtherRefs
    <2> HIDE DEF u
    <2> QED
      BY <1>a, <2>1, <2>2, <2>3, <2>4
  <1> QED
    BY <1>1, <1>2, <1>3 DEF SynchronousAnswer

\* A step that handles a frame.
LEMMA HandleHolds ==
    ASSUME IndInv, NEW remaining, HandleNext(remaining), rx # << >>,
           NEW P, Holds(serial, P),
           AdvancesState(serial, Frame) /\ CommandsDue(Noted)
               => Commands \in Seq(P),
           \A ref \in SynchronousRefs : Request(ref, 0, 0) \in P
    PROVE  /\ Holds(serial', P)
           /\ rx' = Tail(rx)
           /\ cache' = IF AdvancesState(serial, Frame) /\ CommandsDue(Noted)
                       THEN GetAll(Ready, Noted.canEnable)
                       ELSE AckedBy(Frame)
           /\ encoderReset' = ResetsAfter(Frame)
           /\ UNCHANGED <<loopDue, client, watchdog, hub, left>>
  <1> DEFINE t == HandlePayload(serial, Frame, Commands)
  <1>1. SerialInv(serial) /\ Frame \in FramesOf(RefsSoFar(serial))
    BY DEF IndInv, Frame
  <1>2. Commands \in Seq(PacketsOf(TransactionRefs))
    BY IndInvType, CommandPacketsType DEF Commands
  <1>3. SerialInv(t) /\ Holds(t, P)
    <2>1. SerialInv(t)
      BY <1>1, <1>2, HandlePayloadInv
    <2>2. CASE AdvancesState(serial, Frame)
      <3>1. t = CheckForStateAdvance(Noted, Commands)
        BY <2>2 DEF HandlePayload, Noted
      <3>2. SerialInv(Noted) /\ Holds(Noted, P)
        BY <1>1, NoteReplyInv, NoteFields DEF Noted, Holds
      <3> QED
        BY <1>2, <2>1, <2>2, <3>1, <3>2, CheckHolds
    <2>3. CASE ~AdvancesState(serial, Frame)
      <3>1. t = SynchronousAnswer(serial, Frame)
        BY <2>3 DEF HandlePayload
      <3> QED
        BY <1>1, <2>1, <3>1, SynchronousAnswerHolds
    <2> QED
      BY <2>2, <2>3
  <1>4. /\ serial' = IF remaining = 0 THEN Flush(t) ELSE t
        /\ cache' = IF AdvancesState(serial, Frame) /\ CommandsDue(Noted)
                    THEN GetAll(Ready, Noted.canEnable) ELSE AckedBy(Frame)
        /\ encoderReset' = ResetsAfter(Frame) /\ rx' = Tail(rx)
        /\ UNCHANGED <<loopDue, client, watchdog, hub, left>>
    BY DEF HandleNext, HandleFrame, Frame, Noted, Ready, Commands
  <1> HIDE DEF t
  <1>5. Holds(serial', P)
    BY <1>3, <1>4, FlushHolds
  <1> QED
    BY <1>4, <1>5

\* A transaction that begins.
LEMMA BeginHolds ==
    ASSUME IndInv, NEW s, SerialInv(s), s.pendingWrites = 0,
           BeginTransaction(s),
           NEW P, s.tx \in Seq(P), InitialPackets \in Seq(P)
    PROVE  Holds(serial', P)
  <1> DEFINE t == StartTransaction(s, watchdog)
             u == SendPackets(t, InitialPackets)
  <1>1. TypeOK
    BY IndInvType
  <1>2. SerialInv(t) /\ ~AllowSend(t)
    BY <1>1, StartTransactionInv DEF TypeOK
  <1>3. t.tx = s.tx /\ t.writeBuffer = << >>
    BY DEF SerialInv, Serials, StartTransaction
  <1>4. serial' = Flush(u)
    BY DEF BeginTransaction
  <1> HIDE DEF t
  <1>5. SerialInv(u)
    BY <1>1, <1>2, InitialPacketsType, SendPacketsInv
  <1>6. u.tx = t.tx /\ u.writeBuffer = t.writeBuffer \o InitialPackets
    BY <1>2, SendPacketsFields
  <1> HIDE DEF u
  <1>7. Holds(u, P)
    BY <1>3, <1>6 DEF Holds
  <1> QED
    BY <1>4, <1>5, <1>7, FlushHolds

\* The object when a transaction begins, whatever is still on its way.
LEMMA BeginsFrom ==
    ASSUME IndInv, OnUpdateSend \/ OnUpdateRecover
    PROVE  \E s : /\ SerialInv(s) /\ BeginTransaction(s)
                  /\ s.pendingWrites = 0 /\ s.tx = serial.tx
  <1>0. SerialInv(serial)
    BY DEF IndInv
  <1>1. CASE OnUpdateSend
    BY <1>0, <1>1 DEF OnUpdateSend, SerialInv
  <1>2. CASE OnUpdateRecover
    <2> DEFINE s == Recover(serial)
    <2>1. SerialInv(s) /\ s.pendingWrites = 0 /\ s.tx = serial.tx
      BY <1>0, RecoverInv, RecoverFields
    <2>2. BeginTransaction(s)
      BY <1>2 DEF OnUpdateRecover
    <2> HIDE DEF s
    <2> QED
      BY <2>1, <2>2
  <1> QED
    BY <1>1, <1>2

(***************************************************************************)
(* The packets that are built.                                             *)
(***************************************************************************)

LEMMA SendIfIn ==
    ASSUME NEW P, NEW condition, NEW packet, condition => packet \in P
    PROVE  SendIf(condition, packet) \in Seq(P)
  BY DEF SendIf

LEMMA InitialPacketsIn ==
    ASSUME NEW P,
           \A ref \in {"KEEP_ALIVE", "MODULE_STATUS", "BATTERY_VOLTAGE",
                       "BULK_INPUT"} : Request(ref, 0, 0) \in P,
           \A m \in Motors : DoReset(m) =>
               Request("MOTOR_RESET_ENCODER", m, client.resetTime[m]) \in P,
           \A v \in Servos :
               Request("SERVO_PULSE_WIDTH", v,
                       client.pulseWidth[v] % UInt16) \in P
    PROVE  InitialPackets \in Seq(P)
  <1>1. \A m : EncoderResetPacket(m) \in Seq(P)
    BY SendIfIn DEF EncoderResetPacket
  <1>2. \A v : ServoPulseWidthPacket(v) \in Seq(P)
    BY SendIfIn DEF ServoPulseWidthPacket
  <1>3. ForMotors(EncoderResetPacket) \in Seq(P)
    BY <1>1 DEF ForMotors
  <1>4. ForServos(ServoPulseWidthPacket) \in Seq(P)
    BY <1>2 DEF ForServos
  <1>5. /\ <<Request("KEEP_ALIVE", 0, 0), Request("MODULE_STATUS", 0, 0)>>
               \in Seq(P)
        /\ <<Request("BATTERY_VOLTAGE", 0, 0), Request("BULK_INPUT", 0, 0)>>
               \in Seq(P)
    OBVIOUS
  <1> QED
    BY <1>3, <1>4, <1>5 DEF InitialPackets

\* The packet of a setting whose Get returned a value.
Due(x, caches, canEnable) ==
    /\ MustSend(caches[x], Wanted(x, canEnable))
    /\ x[1] = "SERVO_CONFIGURATION" => Wanted(x, canEnable) % UInt16 > 1

LEMMA CommandPacketsIn ==
    ASSUME NEW caches, NEW canEnable, NEW P,
           \A m \in Motors :
               /\ Request("MOTOR_SET_CONSTANT_POWER", m, 0) \in P
               /\ Request("MOTOR_GET_CURRENT", m, 0) \in P,
           \A x \in Settings : Due(x, caches, canEnable) =>
               Request(x[1], x[2], Wanted(x, canEnable) % UInt16) \in P
    PROVE  CommandPackets(caches, canEnable) \in Seq(P)
  <1> DEFINE Power(m) == SendIf(m \in Motors,
                                Request("MOTOR_SET_CONSTANT_POWER", m, 0))
             Current(m) == SendIf(m \in Motors,
                                  Request("MOTOR_GET_CURRENT", m, 0))
             Setting(ref, ch) == SettingPacket(<<ref, ch>>, caches, canEnable)
  <1>1. \A m : Power(m) \in Seq(P) /\ Current(m) \in Seq(P)
    BY SendIfIn
  <1>2. \A ref, ch : Setting(ref, ch) \in Seq(P)
    BY SendIfIn DEF SettingPacket, Due
  <1> HIDE DEF Power, Current, Setting
  <1>3. ForMotors(Power) \in Seq(P) /\ ForMotors(Current) \in Seq(P)
    BY <1>1 DEF ForMotors
  <1>4. /\ ForMotors(LAMBDA m : Setting("MOTOR_SET_RUN_MODE", m)) \in Seq(P)
        /\ ForMotors(LAMBDA m : Setting("MOTOR_ENABLE", m)) \in Seq(P)
    BY <1>2 DEF ForMotors
  <1>5. /\ ForServos(LAMBDA v : Setting("SERVO_CONFIGURATION", v)) \in Seq(P)
        /\ ForServos(LAMBDA v : Setting("SERVO_ENABLE", v)) \in Seq(P)
    BY <1>2 DEF ForServos
  <1>6. ForMotors(Power) \o ForMotors(Current)
            \o ForMotors(LAMBDA m : Setting("MOTOR_SET_RUN_MODE", m))
            \o ForMotors(LAMBDA m : Setting("MOTOR_ENABLE", m))
            \o ForServos(LAMBDA v : Setting("SERVO_CONFIGURATION", v))
            \o ForServos(LAMBDA v : Setting("SERVO_ENABLE", v)) \in Seq(P)
    BY <1>3, <1>4, <1>5
  <1> QED
    BY <1>6 DEF CommandPackets, Power, Current, Setting

\* A setting is a cached command and its channel.
LEMMA SettingFields ==
    ASSUME NEW x \in Settings
    PROVE  x = <<x[1], x[2]>> /\ x[1] \in CachedRefs /\ x[2] \in 0 .. 5
  <1>1. x = <<x[1], x[2]>> /\ x[1] \in CachedRefs
        /\ x[2] \in Motors \cup Servos
    BY DEF Settings, MotorSettings, ServoSettings, CachedRefs
  <1>2. x[2] \in 0 .. 5
    BY <1>1, MotorsAssumption, ServosAssumption
  <1> QED
    BY <1>1, <1>2

\* No packet but those of the cached commands names a setting.
LEMMA NamesSetting ==
    ASSUME NEW ref, NEW ch, <<ref, ch>> \in Settings
    PROVE  ref \in CachedRefs
  BY DEF Settings, MotorSettings, ServoSettings, CachedRefs

(***************************************************************************)
(* An acknowledgement is of a value that was attempted.                    *)
(***************************************************************************)

\* The settings that were sent, or would have been but for their value.
Attempted(caches) == {x \in Settings : caches[x].attempted # {}}

\* Packets and frames that name no other settings than those of X.
PacketsFor(X) == {p \in PacketsOf(Refs) :
                      <<p.ref, p.ch>> \in Settings => <<p.ref, p.ch>> \in X}
FramesFor(X) == {f \in FramesOf(Refs) :
                     <<f.ref, f.ch>> \in Settings => <<f.ref, f.ch>> \in X}

AttemptInv == /\ Holds(serial, PacketsFor(Attempted(cache)))
              /\ rx \in Seq(FramesFor(Attempted(cache)))

\* A packet that is no cached command is in every PacketsFor.
LEMMA UncachedFor ==
    ASSUME NEW X, NEW ref \in Refs \ CachedRefs, NEW ch \in 0 .. 5,
           NEW val \in Nat
    PROVE  Request(ref, ch, val) \in PacketsFor(X)
  BY NamesSetting DEF PacketsFor, PacketsOf, Request

LEMMA InitialPacketsFor ==
    ASSUME TypeOK, NEW X
    PROVE  InitialPackets \in Seq(PacketsFor(X))
  <1>1. {"KEEP_ALIVE", "MODULE_STATUS", "BATTERY_VOLTAGE", "BULK_INPUT",
         "MOTOR_RESET_ENCODER", "SERVO_PULSE_WIDTH"} \subseteq Refs \ CachedRefs
    BY DEF Refs, TransactionRefs, OtherRefs, CachedRefs
  <1>2. \A m \in Motors : client.resetTime[m] \in Nat /\ m \in 0 .. 5
    BY MotorsAssumption DEF TypeOK, Clients
  <1>3. \A v \in Servos : client.pulseWidth[v] % UInt16 \in Nat /\ v \in 0 .. 5
    BY ServosAssumption, UInt16Type DEF TypeOK, Clients
  <1>4. 0 \in 0 .. 5 /\ 0 \in Nat
    OBVIOUS
  <1> QED
    BY <1>1, <1>2, <1>3, <1>4, UncachedFor, InitialPacketsIn

\* The requests of the synchronous steps name no setting.
LEMMA SynchronousFor ==
    ASSUME NEW X
    PROVE  \A ref \in SynchronousRefs : Request(ref, 0, 0) \in PacketsFor(X)
  <1>1. SynchronousRefs \subseteq Refs \ CachedRefs
    BY DEF Refs, SynchronousRefs, CachedRefs
  <1>2. 0 \in 0 .. 5 /\ 0 \in Nat
    OBVIOUS
  <1> QED
    BY <1>1, <1>2, UncachedFor

LEMMA CommandsFor ==
    ASSUME TypeOK, NEW caches, NEW canEnable
    PROVE  CommandPackets(caches, canEnable)
               \in Seq(PacketsFor(Attempted(GetAll(caches, canEnable))))
  <1> DEFINE X == Attempted(GetAll(caches, canEnable))
  <1>1. {"MOTOR_SET_CONSTANT_POWER", "MOTOR_GET_CURRENT"}
            \subseteq Refs \ CachedRefs
    BY DEF Refs, TransactionRefs, OtherRefs, CachedRefs
  <1>2. \A m \in Motors : m \in 0 .. 5 /\ 0 \in Nat
    BY MotorsAssumption
  <1>3. \A x \in Settings : Due(x, caches, canEnable) =>
            Request(x[1], x[2], Wanted(x, canEnable) % UInt16)
                \in PacketsFor(X)
    <2> TAKE x \in Settings
    <2> HAVE Due(x, caches, canEnable)
    <2>1. GetAll(caches, canEnable)[x].attempted = {Wanted(x, canEnable)}
      BY DEF GetAll, Get, Due
    <2>2. x \in X
      BY <2>1 DEF Attempted
    <2>3. /\ x = <<x[1], x[2]>> /\ x[1] \in CachedRefs
          /\ x[2] \in Motors \cup Servos
      BY DEF Settings, MotorSettings, ServoSettings, CachedRefs
    <2>4. Wanted(x, canEnable) % UInt16 \in Nat
      BY WantedType, UInt16Type
    <2>5. x[1] \in Refs /\ x[2] \in 0 .. 5
      BY <2>3, MotorsAssumption, ServosAssumption DEF Refs, TransactionRefs
    <2> HIDE DEF X
    <2> QED
      BY <2>2, <2>3, <2>4, <2>5 DEF PacketsFor, PacketsOf, Request
  <1> HIDE DEF X
  <1>4. \A m \in Motors :
            /\ Request("MOTOR_SET_CONSTANT_POWER", m, 0) \in PacketsFor(X)
            /\ Request("MOTOR_GET_CURRENT", m, 0) \in PacketsFor(X)
    BY <1>1, <1>2, UncachedFor
  <1>5. CommandPackets(caches, canEnable) \in Seq(PacketsFor(X))
    BY <1>3, <1>4, CommandPacketsIn
  <1> QED
    BY <1>5 DEF X

\* Nothing the daemon does to a cache forgets that there was an attempt.
LEMMA AttemptsKept ==
    ASSUME TypeOK, NEW f, NEW deviceReset, NEW canEnable
    PROVE  LET ready == ForgetIfReset(AckedBy(f), deviceReset)
           IN  /\ Attempted(cache) \subseteq Attempted(AckedBy(f))
               /\ Attempted(cache) \subseteq Attempted(GetAll(ready, canEnable))
  <1> DEFINE acked == AckedBy(f)
             ready == ForgetIfReset(acked, deviceReset)
             got == GetAll(ready, canEnable)
  <1>1. \A x \in Settings : acked[x].attempted = cache[x].attempted
                            /\ acked[x] \in Caches(Value)
    BY CacheTypes DEF AckedBy, Ack, TypeOK, Caches
  <1>2. \A x \in Settings : ready[x].attempted = acked[x].attempted
    <2> HIDE DEF acked
    <2> QED
      BY <1>1 DEF ForgetIfReset, ForceReset, Caches
  <1>3. \A x \in Settings :
            ready[x].attempted # {} => got[x].attempted # {}
    <2> HIDE DEF ready
    <2> QED
      BY DEF GetAll, Get
  <1> HIDE DEF acked, ready, got
  <1>4. /\ Attempted(cache) \subseteq Attempted(acked)
        /\ Attempted(cache) \subseteq Attempted(got)
    BY <1>1, <1>2, <1>3 DEF Attempted
  <1> QED
    BY <1>4 DEF acked, ready, got

\* More attempts allow more packets.
LEMMA ForMonotone ==
    ASSUME NEW X, NEW Y, X \subseteq Y
    PROVE  PacketsFor(X) \subseteq PacketsFor(Y)
           /\ FramesFor(X) \subseteq FramesFor(Y)
  BY DEF PacketsFor, FramesFor

LEMMA AttemptInit ==
    ASSUME Init
    PROVE  AttemptInv
  <1> DEFINE P == PacketsFor(Attempted(cache))
  <1>1. SerialInv(NewSerial)
    BY NewSerialInv
  <1>2. NewSerial.writeBuffer = << >> /\ NewSerial.tx = << >>
    BY DEF NewSerial
  <1>3. Holds(NewSerial, P)
    BY <1>2 DEF Holds
  <1>4. \A ref \in SynchronousRefs : Request(ref, 0, 0) \in P
    BY SynchronousFor
  <1> HIDE DEF P
  <1>5. Holds(RunSynchronousSteps(NewSerial), P)
    BY <1>1, <1>3, <1>4, RunSynchronousStepsHolds
  <1>6. rx \in Seq(FramesFor(Attempted(cache)))
    BY DEF Init
  <1> QED
    BY <1>5, <1>6 DEF AttemptInv, Init, P

\* Handling a frame.
LEMMA HandleAttempts ==
    ASSUME IndInv, AttemptInv, NEW remaining, HandleNext(remaining), rx # << >>
    PROVE  AttemptInv'
  <1> DEFINE sends == AdvancesState(serial, Frame) /\ CommandsDue(Noted)
             A == Attempted(cache)
             B == Attempted(cache')
             kept == IF sends THEN Attempted(GetAll(Ready, Noted.canEnable))
                              ELSE Attempted(AckedBy(Frame))
  <1>1. TypeOK
    BY IndInvType
  <1>2. A \subseteq kept
    BY <1>1, AttemptsKept DEF Ready
  <1>3. PacketsFor(A) \subseteq PacketsFor(kept)
        /\ FramesFor(A) \subseteq FramesFor(kept)
    <2> HIDE DEF A, kept
    <2> QED
      BY <1>2, ForMonotone
  <1>4. Holds(serial, PacketsFor(kept))
    BY <1>3, HoldsMonotone DEF AttemptInv
  <1>5. sends => Commands \in Seq(PacketsFor(kept))
    BY <1>1, CommandsFor DEF Commands
  <1>6. \A ref \in SynchronousRefs : Request(ref, 0, 0) \in PacketsFor(kept)
    BY SynchronousFor
  <1>7. /\ rx \in Seq(FramesFor(A))
        /\ Tail(rx) \in Seq(FramesFor(A))
    BY DEF AttemptInv
  <1>8. Tail(rx) \in Seq(FramesFor(kept))
    BY <1>3, <1>7, SeqMonotone
  <1> HIDE DEF kept
  <1>9. /\ Holds(serial', PacketsFor(kept)) /\ rx' = Tail(rx)
        /\ cache' = IF sends THEN GetAll(Ready, Noted.canEnable)
                             ELSE AckedBy(Frame)
    BY <1>4, <1>5, <1>6, HandleHolds
  <1>10. B = kept
    BY <1>9 DEF kept
  <1> QED
    BY <1>8, <1>9, <1>10 DEF AttemptInv

\* The hub answers what it was sent.
LEMMA HubAttempts ==
    ASSUME IndInv, AttemptInv, HubAndLink
    PROVE  AttemptInv'
  <1>1. CASE HubTakes /\ Delivered
    <2> DEFINE p == Head(serial.tx)
               P == PacketsFor(Attempted(cache))
               F == FramesFor(Attempted(cache))
               a == Answer("reply", p)
               child == [a EXCEPT !.val = 0]
    <2>1. /\ serial'.tx = Tail(serial.tx) /\ serial.tx # << >>
          /\ serial'.writeBuffer = serial.writeBuffer /\ cache' = cache
      BY <1>1, TakesFields DEF HubTakes
    <2>2. serial.tx \in Seq(P) /\ serial.writeBuffer \in Seq(P)
          /\ rx \in Seq(F)
      BY DEF AttemptInv, Holds
    <2>3. p \in P /\ Tail(serial.tx) \in Seq(P)
      BY <2>1, <2>2
    <2>4. p \in PacketsOf(Refs)
          /\ (<<p.ref, p.ch>> \in Settings
                 => <<p.ref, p.ch>> \in Attempted(cache))
      BY <2>3 DEF PacketsFor
    <2>5. \A kind \in {"reply", "nack", "corrupt"} : Answer(kind, p) \in F
      BY <2>4, AnswerType, AnswerFields DEF FramesFor
    <2>6. child \in F
      <3>1. a \in FramesOf(Refs) /\ a.ref = p.ref /\ a.ch = p.ch
        BY <2>4, AnswerType, AnswerFields
      <3> HIDE DEF a
      <3>2. child \in FramesOf(Refs) /\ child.ref = p.ref /\ child.ch = p.ch
        BY <3>1 DEF FramesOf
      <3> QED
        BY <2>4, <3>2 DEF FramesFor
    <2>7. rx' \in Seq(F)
      <3>1. ASSUME NEW f \in F, rx' = Append(rx, f)
            PROVE  rx' \in Seq(F)
        BY <2>2, <3>1
      <3>2. CASE rx' = rx \o <<child, a>>
        <4>1. a \in F
          BY <2>5
        <4> HIDE DEF a, child
        <4>2. <<child, a>> \in Seq(F)
          BY <2>6, <4>1
        <4> QED
          BY <2>2, <3>2, <4>2
      <3>3. CASE rx' = rx
        BY <2>2, <3>3
      <3> QED
        BY <1>1, <2>5, <3>1, <3>2, <3>3 DEF Delivered
    <2> QED
      BY <2>1, <2>2, <2>3, <2>7 DEF AttemptInv, Holds
  <1>2. CASE HubResets
    BY <1>2 DEF HubResets, AttemptInv
  <1> QED
    BY <1>1, <1>2, HubDelivers

LEMMA DaemonAttempts ==
    ASSUME IndInv, AttemptInv, Daemon
    PROVE  AttemptInv'
  <1> DEFINE X == Attempted(cache)
             P == PacketsFor(X)
  <1>0. SerialInv(serial) /\ TypeOK /\ Holds(serial, P)
    BY IndInvType DEF IndInv, AttemptInv
  <1>1. CASE OnUpdateSynchronous
    <2>1. /\ serial' = RunSynchronousSteps(serial) /\ rx' = rx
          /\ cache' = cache
      BY <1>1 DEF OnUpdateSynchronous
    <2>2. \A ref \in SynchronousRefs : Request(ref, 0, 0) \in P
      BY SynchronousFor
    <2> HIDE DEF P, X
    <2>3. Holds(serial', P)
      BY <1>0, <2>1, <2>2, RunSynchronousStepsHolds
    <2> QED
      BY <2>1, <2>3 DEF AttemptInv, P, X
  <1>2. CASE OnUpdateSend \/ OnUpdateRecover
    <2>1. PICK s : /\ SerialInv(s) /\ BeginTransaction(s)
                   /\ s.pendingWrites = 0 /\ s.tx = serial.tx
      BY <1>2, BeginsFrom
    <2>2. InitialPackets \in Seq(P)
      BY <1>0, InitialPacketsFor
    <2>3. s.tx \in Seq(P)
      BY <1>0, <2>1 DEF Holds
    <2>4. cache' = cache /\ rx' = rx
      BY <2>1 DEF BeginTransaction
    <2> HIDE DEF P, X
    <2>5. Holds(serial', P)
      BY <2>1, <2>2, <2>3, BeginHolds
    <2> QED
      BY <2>4, <2>5 DEF AttemptInv, P, X
  <1>3. CASE DoRead
    <2>1. PICK n \in 1 .. MaxRead : n <= Len(rx) /\ HandleNext(n - 1)
      BY <1>3 DEF DoRead
    <2>2. rx # << >>
      BY <2>1, BoundsAssumption DEF IndInv
    <2> QED
      BY <2>1, <2>2, HandleAttempts
  <1>4. CASE DoReadNext
    <2>1. rx # << >>
      BY <1>4 DEF DoReadNext, IndInv, RestOK
    <2> QED
      BY <1>4, <2>1, HandleAttempts DEF DoReadNext
  <1> QED
    BY <1>1, <1>2, <1>3, <1>4 DEF Daemon

\* What is buffered, on the wire or answered was attempted, whatever goes
\* wrong: no acknowledgement copies a lastAttemptedValue that was never
\* written (CachedCommand::Ack).
THEOREM AttemptedBeforeAck == Spec => []AttemptBeforeAck
  <1>1. Init => AttemptInv
    BY AttemptInit
  <1>2. IndInv /\ AttemptInv /\ [Next]_vars => AttemptInv'
    <2> SUFFICES ASSUME IndInv, AttemptInv, [Next]_vars
                 PROVE  AttemptInv'
      OBVIOUS
    <2>1. CASE Client \/ UNCHANGED vars
      <3>1. UNCHANGED <<serial, rx, cache>>
        BY <2>1 DEF Client, SetSetting, SetPulseWidth, RequestReset,
                    WatchdogChanges, ClientChanges, vars
      <3> QED
        BY <3>1 DEF AttemptInv
    <2>2. CASE SecondPasses
      <3> DEFINE t == [serial EXCEPT !.discoverDue = TRUE]
      <3>1. serial' = t /\ rx' = rx /\ cache' = cache
            /\ serial \in Serials
        BY <2>2 DEF SecondPasses, IndInv, SerialInv
      <3>2. t.tx = serial.tx /\ t.writeBuffer = serial.writeBuffer
        BY <3>1 DEF Serials
      <3> HIDE DEF t
      <3> QED
        BY <3>1, <3>2 DEF AttemptInv, Holds
    <2> QED
      BY <2>1, <2>2, DaemonAttempts, HubAttempts DEF Next
  <1>3. AttemptInv => AttemptBeforeAck
    <2> SUFFICES ASSUME AttemptInv, NEW x \in Settings
                 PROVE  (\/ \E i \in DOMAIN rx : <<rx[i].ref, rx[i].ch>> = x
                         \/ \E i \in DOMAIN serial.tx :
                                <<serial.tx[i].ref, serial.tx[i].ch>> = x
                         \/ \E i \in DOMAIN serial.writeBuffer :
                                <<serial.writeBuffer[i].ref,
                                  serial.writeBuffer[i].ch>> = x)
                        => cache[x].attempted # {}
      BY DEF AttemptBeforeAck
    <2> DEFINE P == PacketsFor(Attempted(cache))
               F == FramesFor(Attempted(cache))
    <2>1. /\ serial.tx \in Seq(P) /\ serial.writeBuffer \in Seq(P)
          /\ rx \in Seq(F)
      BY DEF AttemptInv, Holds
    <2>2. /\ \A p \in P : <<p.ref, p.ch>> = x => x \in Attempted(cache)
          /\ \A f \in F : <<f.ref, f.ch>> = x => x \in Attempted(cache)
      BY DEF PacketsFor, FramesFor
    <2> HIDE DEF P, F
    <2>3. /\ \A i \in DOMAIN serial.tx : serial.tx[i] \in P
          /\ \A i \in DOMAIN serial.writeBuffer : serial.writeBuffer[i] \in P
          /\ \A i \in DOMAIN rx : rx[i] \in F
      BY <2>1
    <2> QED
      BY <2>2, <2>3 DEF Attempted
  <1> QED
    BY <1>1, <1>2, <1>3, Inductive, PTL DEF Spec

(***************************************************************************)
(* A reset request is done when the hub has carried it out.                *)
(***************************************************************************)

\* Packets whose reset requests serve the latest request, and frames that
\* confirm a reset the hub has carried out for it.
ResetPackets(times) ==
    {p \in PacketsOf(Refs) : p.ref = "MOTOR_RESET_ENCODER" =>
                                 p.ch \in Motors /\ p.val = times[p.ch]}
ResetFrames(times, done) ==
    {f \in FramesOf(Refs) : IsReply(f, "MOTOR_RESET_ENCODER") =>
                                f.ch \in Motors /\ done[f.ch] = times[f.ch]}

ResetInv ==
    /\ EncoderResetConfirmed
    /\ Holds(serial, ResetPackets(encoderReset.lastResetTime))
    /\ rx \in Seq(ResetFrames(encoderReset.lastResetTime, hub.resetFor))

\* Other packets are in every ResetPackets.
LEMMA OtherReset ==
    ASSUME NEW times, NEW ref \in Refs \ {"MOTOR_RESET_ENCODER"},
           NEW ch \in 0 .. 5, NEW val \in Nat
    PROVE  Request(ref, ch, val) \in ResetPackets(times)
  BY DEF ResetPackets, PacketsOf, Request

LEMMA SynchronousReset ==
    ASSUME NEW times
    PROVE  \A ref \in SynchronousRefs :
               Request(ref, 0, 0) \in ResetPackets(times)
  <1>1. SynchronousRefs \subseteq Refs \ {"MOTOR_RESET_ENCODER"}
    BY DEF Refs, SynchronousRefs
  <1>2. 0 \in 0 .. 5 /\ 0 \in Nat
    OBVIOUS
  <1> QED
    BY <1>1, <1>2, OtherReset

LEMMA InitialReset ==
    ASSUME TypeOK
    PROVE  InitialPackets \in Seq(ResetPackets(client.resetTime))
  <1> DEFINE times == client.resetTime
  <1>1. /\ {"KEEP_ALIVE", "MODULE_STATUS", "BATTERY_VOLTAGE", "BULK_INPUT",
             "SERVO_PULSE_WIDTH"} \subseteq Refs \ {"MOTOR_RESET_ENCODER"}
        /\ "MOTOR_RESET_ENCODER" \in Refs
    BY DEF Refs, TransactionRefs, OtherRefs
  <1>2. \A m \in Motors : times[m] \in Nat /\ m \in 0 .. 5
    BY MotorsAssumption DEF TypeOK, Clients
  <1>3. \A v \in Servos : client.pulseWidth[v] % UInt16 \in Nat /\ v \in 0 .. 5
    BY ServosAssumption, UInt16Type DEF TypeOK, Clients
  <1>4. 0 \in 0 .. 5 /\ 0 \in Nat
    OBVIOUS
  <1> HIDE DEF times
  <1>5. \A m \in Motors :
            Request("MOTOR_RESET_ENCODER", m, times[m]) \in ResetPackets(times)
    BY <1>1, <1>2 DEF ResetPackets, PacketsOf, Request
  <1> DEFINE P == ResetPackets(times)
  <1>6. \A ref \in {"KEEP_ALIVE", "MODULE_STATUS", "BATTERY_VOLTAGE",
                     "BULK_INPUT"} : Request(ref, 0, 0) \in P
    BY <1>1, <1>4, OtherReset
  <1>7. \A v \in Servos :
            Request("SERVO_PULSE_WIDTH", v,
                    client.pulseWidth[v] % UInt16) \in P
    BY <1>1, <1>3, OtherReset
  <1> HIDE DEF P
  <1>8. InitialPackets \in Seq(P)
    BY <1>5, <1>6, <1>7, InitialPacketsIn DEF times, P
  <1> QED
    BY <1>8 DEF times, P

LEMMA CommandsReset ==
    ASSUME TypeOK, NEW caches, NEW canEnable, NEW times
    PROVE  CommandPackets(caches, canEnable) \in Seq(ResetPackets(times))
  <1>1. /\ {"MOTOR_SET_CONSTANT_POWER", "MOTOR_GET_CURRENT"}
                \subseteq Refs \ {"MOTOR_RESET_ENCODER"}
        /\ CachedRefs \subseteq Refs \ {"MOTOR_RESET_ENCODER"}
    BY DEF Refs, TransactionRefs, OtherRefs, CachedRefs
  <1>2. \A m \in Motors : m \in 0 .. 5 /\ 0 \in Nat
    BY MotorsAssumption
  <1>3. \A x \in Settings :
            x[1] \in CachedRefs /\ x[2] \in 0 .. 5
    BY SettingFields
  <1>4. \A x \in Settings : Wanted(x, canEnable) % UInt16 \in Nat
    BY WantedType, UInt16Type
  <1> QED
    BY <1>1, <1>2, <1>3, <1>4, OtherReset, CommandPacketsIn

\* What the hub does with the packet it takes.
LEMMA HubPerforms ==
    ASSUME HubAndLink
    PROVE  \/ /\ HubTakes /\ Delivered
              /\ hub' = hub \/ hub' = Perform(Head(serial.tx))
           \/ HubResets
  BY DEF HubAndLink, HubAnswers, LoseRequest, HubNacks, LoseAnswer,
         CorruptAnswer, ChildAnswersToo, Fault, Delivered

LEMMA ResetInit ==
    ASSUME Init
    PROVE  ResetInv
  <1> DEFINE P == ResetPackets(encoderReset.lastResetTime)
  <1>1. NewSerial.writeBuffer = << >> /\ NewSerial.tx = << >>
    BY DEF NewSerial
  <1>2. Holds(NewSerial, P)
    BY <1>1 DEF Holds
  <1>3. \A ref \in SynchronousRefs : Request(ref, 0, 0) \in P
    BY SynchronousReset
  <1> HIDE DEF P
  <1>4. Holds(RunSynchronousSteps(NewSerial), P)
    BY <1>2, <1>3, NewSerialInv, RunSynchronousStepsHolds
  <1>5. /\ hub.resetFor = [m \in Motors |-> 0]
        /\ encoderReset.lastResetTime = [m \in Motors |-> 0]
    <2>1. encoderReset.lastResetTime = [m \in Motors |-> 0]
      BY DEF Init, DeviceAdded
    <2>2. PoweredUp.resetFor = [m \in Motors |-> 0]
      BY DEF PoweredUp
    <2>3. hub.resetFor = PoweredUp.resetFor
      BY DEF Init, PoweredUp
    <2> QED
      BY <2>1, <2>2, <2>3
  <1>6. EncoderResetConfirmed
    BY <1>5 DEF EncoderResetConfirmed
  <1> QED
    BY <1>4, <1>6 DEF Init, ResetInv, P

LEMMA HandleResets ==
    ASSUME IndInv, ResetInv, NEW remaining, HandleNext(remaining), rx # << >>
    PROVE  ResetInv'
  <1> DEFINE times == encoderReset.lastResetTime
             P == ResetPackets(times)
             F == ResetFrames(times, hub.resetFor)
  <1>1. TypeOK
    BY IndInvType
  <1>2. Commands \in Seq(P)
    BY <1>1, CommandsReset DEF Commands
  <1>3. \A ref \in SynchronousRefs : Request(ref, 0, 0) \in P
    BY SynchronousReset
  <1>4. Holds(serial, P) /\ rx \in Seq(F) /\ EncoderResetConfirmed
    BY DEF ResetInv
  <1> HIDE DEF P
  <1>5. /\ Holds(serial', P) /\ rx' = Tail(rx)
        /\ encoderReset' = ResetsAfter(Frame) /\ hub' = hub
    BY <1>2, <1>3, <1>4, HandleHolds
  <1>6. Frame \in F /\ Tail(rx) \in Seq(F)
    BY <1>4 DEF Frame
  <1>7. /\ encoderReset'.lastResetTime = times
        /\ \A m \in Motors : encoderReset'.doReset[m] =
               (encoderReset.doReset[m]
                    /\ ~(IsReply(Frame, "MOTOR_RESET_ENCODER")
                            /\ Frame.ch = m))
    BY <1>1, <1>5 DEF ResetsAfter, TypeOK, EncoderResets
  <1>8. EncoderResetConfirmed'
    BY <1>4, <1>5, <1>6, <1>7 DEF EncoderResetConfirmed, ResetFrames
  <1> QED
    BY <1>5, <1>6, <1>7, <1>8 DEF ResetInv, P

LEMMA HubResetting ==
    ASSUME CountedOnly, IndInv, ResetInv, HubAndLink
    PROVE  ResetInv'
  <1> DEFINE times == encoderReset.lastResetTime
             P == ResetPackets(times)
             F == ResetFrames(times, hub.resetFor)
             G == ResetFrames(times, hub'.resetFor)
  <1>0. TypeOK /\ Holds(serial, P) /\ rx \in Seq(F) /\ EncoderResetConfirmed
    BY IndInvType DEF ResetInv
  <1>1. CASE /\ HubTakes /\ Delivered
             /\ hub' = hub \/ hub' = Perform(Head(serial.tx))
    <2> DEFINE p == Head(serial.tx)
               a == Answer("reply", p)
               child == [a EXCEPT !.val = 0]
    <2>1. /\ serial'.tx = Tail(serial.tx) /\ serial.tx # << >>
          /\ serial'.writeBuffer = serial.writeBuffer
          /\ encoderReset' = encoderReset
      BY <1>1, TakesFields DEF HubTakes
    <2>2. serial.tx \in Seq(P) /\ serial.writeBuffer \in Seq(P)
      BY <1>0 DEF Holds
    <2>3. p \in P /\ Tail(serial.tx) \in Seq(P)
      <3> HIDE DEF P
      <3> QED
        BY <2>1, <2>2, HeadTailProperties
    <2>4. p \in PacketsOf(Refs)
          /\ (p.ref = "MOTOR_RESET_ENCODER"
                 => p.ch \in Motors /\ p.val = times[p.ch])
      BY <2>3 DEF ResetPackets
    <2> HIDE DEF p
    <2>5. \A m \in Motors : hub.resetFor[m] = times[m]
              => hub'.resetFor[m] = times[m]
      BY <1>1, <2>4 DEF Perform, p
    <2>6. /\ hub' = Perform(p) /\ p.ref = "MOTOR_RESET_ENCODER"
              => hub'.resetFor[p.ch] = times[p.ch]
      BY <2>4 DEF Perform
    <2>7. F \subseteq G
      BY <2>5 DEF ResetFrames
    <2>8. \A kind \in {"reply", "nack", "corrupt"} :
              /\ Answer(kind, p) \in FramesOf(Refs)
              /\ Answer(kind, p).kind = kind /\ Answer(kind, p).ref = p.ref
              /\ Answer(kind, p).ch = p.ch
      BY <2>4, AnswerType, AnswerFields
    <2>9. \A kind \in {"reply", "nack", "corrupt"} :
              (kind = "reply" => hub' = Perform(p)) => Answer(kind, p) \in G
      BY <2>4, <2>6, <2>8 DEF ResetFrames, IsReply
    <2>10. p.ref = "DISCOVER" => a \in G /\ child \in G
      <3>1. a \in FramesOf(Refs) /\ a.ref = p.ref
        BY <2>8
      <3> HIDE DEF a
      <3>2. child \in FramesOf(Refs) /\ child.ref = p.ref
        BY <3>1 DEF FramesOf
      <3> QED
        BY <3>1, <3>2 DEF ResetFrames, IsReply
    <2>11. rx \in Seq(G)
      BY <1>0, <2>7, SeqMonotone
    <2> HIDE DEF G
    <2>12. rx' \in Seq(G)
      <3>1. ASSUME NEW f \in G, rx' = Append(rx, f)
            PROVE  rx' \in Seq(G)
        BY <2>11, <3>1
      <3>2. CASE /\ <<"child answers", p.ref>> \in Faults
                 /\ rx' = rx \o <<child, a>>
        <4>1. a \in G /\ child \in G
          BY <2>10, <3>2 DEF CountedOnly
        <4> HIDE DEF a, child
        <4>2. <<child, a>> \in Seq(G)
          BY <4>1
        <4>3. rx \o <<child, a>> \in Seq(G)
          BY <2>11, <4>2, ConcatProperties
        <4> QED
          BY <3>2, <4>3
      <3>3. CASE rx' = rx
        BY <2>11, <3>3
      <3>4. \/ rx' = rx
            \/ \E kind \in {"reply", "nack", "corrupt"} :
                  /\ rx' = Append(rx, Answer(kind, p))
                  /\ kind = "reply" => hub' = Perform(p)
            \/ <<"child answers", p.ref>> \in Faults
               /\ rx' = rx \o <<child, a>>
        BY <1>1 DEF Delivered, p
      <3> QED
        BY <2>9, <3>1, <3>2, <3>3, <3>4
    <2>13. EncoderResetConfirmed'
      BY <1>0, <2>1, <2>5 DEF EncoderResetConfirmed
    <2> QED
      BY <2>1, <2>2, <2>3, <2>12, <2>13 DEF ResetInv, Holds, G
  <1>2. CASE HubResets
    <2>1. /\ serial' = serial /\ rx' = rx /\ encoderReset' = encoderReset
          /\ hub'.resetFor = hub.resetFor
      BY <1>2 DEF HubResets, PoweredUp
    <2> QED
      BY <2>1 DEF ResetInv, EncoderResetConfirmed
  <1> QED
    BY <1>1, <1>2, HubPerforms

LEMMA DaemonResets ==
    ASSUME IndInv, FlowInv, ResetInv, Daemon
    PROVE  ResetInv'
  <1> DEFINE P == ResetPackets(encoderReset.lastResetTime)
             Q == ResetPackets(client.resetTime)
  <1>0. SerialInv(serial) /\ TypeOK /\ Holds(serial, P)
        /\ EncoderResetConfirmed
    BY IndInvType DEF IndInv, ResetInv
  <1>1. CASE OnUpdateSynchronous
    <2>1. /\ serial' = RunSynchronousSteps(serial) /\ rx' = rx
          /\ encoderReset' = encoderReset /\ hub' = hub
      BY <1>1 DEF OnUpdateSynchronous
    <2>2. \A ref \in SynchronousRefs : Request(ref, 0, 0) \in P
      BY SynchronousReset
    <2> HIDE DEF P
    <2>3. Holds(serial', P)
      BY <1>0, <2>1, <2>2, RunSynchronousStepsHolds
    <2> QED
      BY <2>1, <2>3 DEF ResetInv, EncoderResetConfirmed, P
  <1>2. CASE OnUpdateSend \/ OnUpdateRecover
    <2>1. PICK s : Begins(s)
      BY <1>2, TransactionBegins
    <2>2. InitialPackets \in Seq(Q)
      BY <1>0, InitialReset
    <2>3. s.tx \in Seq(Q) /\ SerialInv(s) /\ s.pendingWrites = 0
          /\ BeginTransaction(s)
      BY <2>1 DEF Begins
    <2>4. /\ hub' = hub /\ rx' = << >>
          /\ encoderReset'.lastResetTime = client.resetTime
          /\ encoderReset'.doReset = [m \in Motors |-> DoReset(m)]
      BY <2>1 DEF Begins, BeginTransaction
    <2> HIDE DEF Q
    <2>5. Holds(serial', Q)
      BY <2>2, <2>3, BeginHolds
    <2>6. EncoderResetConfirmed'
      BY <1>0, <2>4 DEF EncoderResetConfirmed, DoReset
    <2> QED
      BY <2>4, <2>5, <2>6 DEF ResetInv, Q
  <1>3. CASE DoRead
    <2>1. PICK n \in 1 .. MaxRead : n <= Len(rx) /\ HandleNext(n - 1)
      BY <1>3 DEF DoRead
    <2>2. rx # << >>
      BY <2>1, BoundsAssumption DEF IndInv
    <2> QED
      BY <2>1, <2>2, HandleResets
  <1>4. CASE DoReadNext
    <2>1. rx # << >>
      BY <1>4 DEF DoReadNext, IndInv, RestOK
    <2> QED
      BY <1>4, <2>1, HandleResets DEF DoReadNext
  <1> QED
    BY <1>1, <1>2, <1>3, <1>4 DEF Daemon

\* A reset request that is held for done was carried out by the hub after the
\* client published it (the doReset flag of ntStore), whatever is lost,
\* refused or corrupted and however often the hub restarts.
THEOREM ResetsConfirmed ==
    ASSUME CountedOnly, NeverStalls
    PROVE  Spec => []EncoderResetConfirmed
  <1>1. Init => ResetInv
    BY ResetInit
  <1>2. IndInv /\ FlowInv /\ ResetInv /\ [Next]_vars => ResetInv'
    <2> SUFFICES ASSUME IndInv, FlowInv, ResetInv, [Next]_vars
                 PROVE  ResetInv'
      OBVIOUS
    <2>1. CASE Client \/ UNCHANGED vars
      <3>1. UNCHANGED <<serial, rx, encoderReset, hub>>
        BY <2>1 DEF Client, SetSetting, SetPulseWidth, RequestReset,
                    WatchdogChanges, ClientChanges, vars
      <3> QED
        BY <3>1 DEF ResetInv, EncoderResetConfirmed
    <2>2. CASE SecondPasses
      <3> DEFINE t == [serial EXCEPT !.discoverDue = TRUE]
      <3>1. serial' = t /\ rx' = rx /\ encoderReset' = encoderReset
            /\ hub' = hub /\ serial \in Serials
        BY <2>2 DEF SecondPasses, IndInv, SerialInv
      <3>2. t.tx = serial.tx /\ t.writeBuffer = serial.writeBuffer
        BY <3>1 DEF Serials
      <3> HIDE DEF t
      <3> QED
        BY <3>1, <3>2 DEF ResetInv, Holds, EncoderResetConfirmed
    <2> QED
      BY <2>1, <2>2, DaemonResets, HubResetting DEF Next
  <1>3. ResetInv => EncoderResetConfirmed
    BY DEF ResetInv
  <1> QED
    BY <1>1, <1>2, <1>3, Inductive, FlowInductive, PTL DEF Spec

(***************************************************************************)
(* What is acknowledged is what the hub uses.                              *)
(***************************************************************************)

\* A value the hub still uses when it has restarted, if it ever does.
Kept(a) == MaxHubResets = 0 \/ a = 0

\* A packet with the payload v carries the attempted value.
AttemptIs(c, v) == \E a \in Nat : c.attempted = {a} /\ a % UInt16 = v

\* The hub uses the attempted value, v being its own.
AppliedTo(c, v) ==
    \E a \in Nat : c.attempted = {a} /\ (Kept(a) => v = a % UInt16)

\* Nothing is acknowledged but the value last attempted, which the hub uses.
Settled(c, v) == c.acked = {} \/ (c.acked = c.attempted /\ AppliedTo(c, v))

\* Packets that carry attempted values, and frames that confirm them.
Carrying(caches) ==
    {p \in PacketsOf(Refs) :
        <<p.ref, p.ch>> \in Settings
            => AttemptIs(caches[<<p.ref, p.ch>>], p.val)}
Confirming(caches, value) ==
    {f \in FramesOf(Refs) :
        f.kind = "reply" /\ <<f.ref, f.ch>> \in Settings
            => AppliedTo(caches[<<f.ref, f.ch>>], value[<<f.ref, f.ch>>])}

\* Packets and frames of no cached command.
UncachedPackets == PacketsOf(Refs \ CachedRefs)
UncachedFrames == FramesOf(Refs \ CachedRefs)

\* No cached command is on its way until a transaction sends its own.
QuietBefore ==
    serial.sendState = "WaitingForPackets" =>
        Holds(serial, UncachedPackets) /\ rx \in Seq(UncachedFrames)

AppliedInv ==
    /\ Holds(serial, Carrying(cache))
    /\ rx \in Seq(Confirming(cache, hub.value))
    /\ \A x \in Settings : Settled(cache[x], hub.value[x])
    /\ QuietBefore

LEMMA UncachedCarrying ==
    ASSUME NEW caches, NEW value
    PROVE  UncachedPackets \subseteq Carrying(caches)
           /\ UncachedFrames \subseteq Confirming(caches, value)
  BY NamesSetting
  DEF UncachedPackets, UncachedFrames, Carrying, Confirming, PacketsOf, FramesOf

LEMMA UncachedRequest ==
    ASSUME NEW ref \in Refs \ CachedRefs, NEW ch \in 0 .. 5, NEW val \in Nat
    PROVE  Request(ref, ch, val) \in UncachedPackets
  BY DEF UncachedPackets, PacketsOf, Request

LEMMA SynchronousUncached ==
    \A ref \in SynchronousRefs : Request(ref, 0, 0) \in UncachedPackets
  <1>1. SynchronousRefs \subseteq Refs \ CachedRefs
    BY DEF Refs, SynchronousRefs, CachedRefs
  <1>2. 0 \in 0 .. 5 /\ 0 \in Nat
    OBVIOUS
  <1> QED
    BY <1>1, <1>2, UncachedRequest

LEMMA InitialUncached ==
    ASSUME TypeOK
    PROVE  InitialPackets \in Seq(UncachedPackets)
  <1>1. {"KEEP_ALIVE", "MODULE_STATUS", "BATTERY_VOLTAGE", "BULK_INPUT",
         "MOTOR_RESET_ENCODER", "SERVO_PULSE_WIDTH"} \subseteq Refs \ CachedRefs
    BY DEF Refs, TransactionRefs, OtherRefs, CachedRefs
  <1>2. \A m \in Motors : client.resetTime[m] \in Nat /\ m \in 0 .. 5
    BY MotorsAssumption DEF TypeOK, Clients
  <1>3. \A v \in Servos : client.pulseWidth[v] % UInt16 \in Nat /\ v \in 0 .. 5
    BY ServosAssumption, UInt16Type DEF TypeOK, Clients
  <1>4. 0 \in 0 .. 5 /\ 0 \in Nat
    OBVIOUS
  <1> QED
    BY <1>1, <1>2, <1>3, <1>4, UncachedRequest, InitialPacketsIn

LEMMA CommandsCarry ==
    ASSUME TypeOK, NEW caches, NEW canEnable
    PROVE  CommandPackets(caches, canEnable)
               \in Seq(Carrying(GetAll(caches, canEnable)))
  <1> DEFINE P == Carrying(GetAll(caches, canEnable))
  <1>1. {"MOTOR_SET_CONSTANT_POWER", "MOTOR_GET_CURRENT"}
            \subseteq Refs \ CachedRefs
    BY DEF Refs, TransactionRefs, OtherRefs, CachedRefs
  <1>2. \A m \in Motors : m \in 0 .. 5 /\ 0 \in Nat
    BY MotorsAssumption
  <1>3. \A m \in Motors :
            /\ Request("MOTOR_SET_CONSTANT_POWER", m, 0) \in P
            /\ Request("MOTOR_GET_CURRENT", m, 0) \in P
    BY <1>1, <1>2, UncachedRequest, UncachedCarrying
  <1>4. \A x \in Settings : Due(x, caches, canEnable) =>
            Request(x[1], x[2], Wanted(x, canEnable) % UInt16) \in P
    <2> TAKE x \in Settings
    <2> HAVE Due(x, caches, canEnable)
    <2> DEFINE w == Wanted(x, canEnable)
               got == GetAll(caches, canEnable)
    <2>1. got[x].attempted = {w}
      BY DEF GetAll, Get, Due
    <2>2. x = <<x[1], x[2]>> /\ x[1] \in Refs /\ x[2] \in 0 .. 5
      BY SettingFields DEF Refs, TransactionRefs
    <2>3. w \in Nat /\ w % UInt16 \in Nat
      BY WantedType, UInt16Type
    <2> HIDE DEF w, got
    <2>4. AttemptIs(got[x], w % UInt16)
      BY <2>1, <2>3 DEF AttemptIs
    <2>5. Request(x[1], x[2], w % UInt16) \in Carrying(got)
      BY <2>2, <2>3, <2>4 DEF Carrying, PacketsOf, Request
    <2> QED
      BY <2>5 DEF w, got
  <1> HIDE DEF P
  <1>5. CommandPackets(caches, canEnable) \in Seq(P)
    BY <1>3, <1>4, CommandPacketsIn
  <1> QED
    BY <1>5 DEF P

\* The step that sends the commands ends the wait for the first answers, and
\* no other begins the wait for the last.
LEMMA HandleState ==
    ASSUME IndInv, NEW remaining, HandleNext(remaining), rx # << >>
    PROVE  IF AdvancesState(serial, Frame) /\ CommandsDue(Noted)
           THEN serial'.sendState # "WaitingForPackets"
           ELSE serial'.sendState \in {serial.sendState, "ReadyToSend"}
  <1> DEFINE t == HandlePayload(serial, Frame, Commands)
  <1>1. SerialInv(serial) /\ Frame \in FramesOf(RefsSoFar(serial))
    BY DEF IndInv, Frame
  <1>2. Commands \in Seq(PacketsOf(TransactionRefs))
    BY IndInvType, CommandPacketsType DEF Commands
  <1>3. SerialInv(t)
    BY <1>1, <1>2, HandlePayloadInv
  <1>4. IF AdvancesState(serial, Frame) /\ CommandsDue(Noted)
        THEN t.sendState # "WaitingForPackets"
        ELSE t.sendState \in {serial.sendState, "ReadyToSend"}
    <2>1. CASE AdvancesState(serial, Frame)
      <3> DEFINE n == Noted
                 a == Advanced(n, Commands)
                 u == Flush(SendPackets(CountDown(n), Commands))
      <3>1. t = IF TransactionDone(a)
                THEN [a EXCEPT !.sendState = "ReadyToSend"] ELSE a
        BY <2>1, CheckIs DEF HandlePayload, Noted
      <3>2. SerialInv(n) /\ n.sendState = serial.sendState
        BY <1>1, NoteReplyInv, NoteFields DEF Noted
      <3>3. a = IF CommandsDue(n)
                THEN [u EXCEPT !.sendState = "WaitingForFinish"]
                ELSE CountDown(n)
        BY DEF Advanced
      <3>4. SerialInv(CountDown(n)) /\ CountDown(n).sendState = n.sendState
        BY <3>2, CountDownHolds
      <3>5. CommandsDue(n) => SerialInv(u)
        <4> HAVE CommandsDue(n)
        <4>1. ~AllowSend(CountDown(n))
          BY <3>4 DEF CommandsDue, AllowSend
        <4> DEFINE c == CountDown(n)
        <4>2. SerialInv(c) /\ ~AllowSend(c)
          BY <3>4, <4>1
        <4> HIDE DEF c
        <4>3. SerialInv(SendPackets(c, Commands))
          BY <1>2, <4>2, SendPacketsInv
        <4>4. SerialInv(Flush(SendPackets(c, Commands)))
          BY <4>3, FlushInv
        <4> QED
          BY <4>4 DEF c
      <3> HIDE DEF u, n, t, a
      <3>6. /\ CommandsDue(n) => a.sendState = "WaitingForFinish"
                                 /\ a \in Serials
            /\ ~CommandsDue(n) => a.sendState = n.sendState /\ a \in Serials
        <4>1. CASE CommandsDue(n)
          <5>1. SerialInv(a)
            BY <3>3, <3>5, <4>1, SendStateInv DEF SendStates
          <5>2. a.sendState = "WaitingForFinish"
            BY <3>3, <3>5, <4>1, StateFields
          <5> QED
            BY <4>1, <5>1, <5>2 DEF SerialInv
        <4>2. CASE ~CommandsDue(n)
          BY <3>3, <3>4, <4>2 DEF SerialInv
        <4> QED
          BY <4>1, <4>2
      <3>7. TransactionDone(a) => t.sendState = "ReadyToSend"
        BY <3>1, <3>6 DEF Serials
      <3>8. ~TransactionDone(a) => t = a
        BY <3>1
      <3> QED
        BY <2>1, <3>2, <3>6, <3>7, <3>8 DEF n
    <2>2. CASE ~AdvancesState(serial, Frame)
      <3>1. t = SynchronousAnswer(serial, Frame)
        BY <2>2 DEF HandlePayload
      <3>2. serial \in Serials
        BY <1>1 DEF SerialInv
      <3>3. SynchronousAnswer(serial, Frame).sendState = serial.sendState
        BY <3>2 DEF SynchronousAnswer, RunSynchronousSteps, SendDirect, Serials
      <3> QED
        BY <2>2, <3>1, <3>3
    <2> QED
      BY <2>1, <2>2
  <1>5. serial' = IF remaining = 0 THEN Flush(t) ELSE t
    BY DEF HandleNext, HandleFrame, Frame, Noted, Ready, Commands
  <1> HIDE DEF t
  <1>6. serial'.sendState = t.sendState
    BY <1>3, <1>5, FlushFields
  <1> QED
    BY <1>4, <1>6

LEMMA AppliedInit ==
    ASSUME Init
    PROVE  AppliedInv
  <1> DEFINE P == Carrying(cache)
             t == RunSynchronousSteps(NewSerial)
  <1>1. NewSerial.writeBuffer = << >> /\ NewSerial.tx = << >>
    BY DEF NewSerial
  <1>2. Holds(NewSerial, P)
    BY <1>1 DEF Holds
  <1>3. \A ref \in SynchronousRefs : Request(ref, 0, 0) \in P
    BY SynchronousUncached, UncachedCarrying
  <1> HIDE DEF P
  <1>4. Holds(t, P)
    BY <1>2, <1>3, NewSerialInv, RunSynchronousStepsHolds
  <1>5. t.sendState = "ReadyToSend"
    BY DEF RunSynchronousSteps, SendDirect, NewSerial
  <1> HIDE DEF t
  <1>6. serial = t /\ rx = << >>
        /\ cache = [x \in Settings |-> ForceReset(NewCache)]
    BY DEF Init, DeviceAdded, t
  <1>7. \A x \in Settings : Settled(cache[x], hub.value[x])
    <2>1. ForceReset(NewCache).acked = {}
      BY DEF ForceReset, NewCache
    <2> QED
      BY <1>6, <2>1 DEF Settled
  <1> QED
    BY <1>4, <1>5, <1>6, <1>7 DEF AppliedInv, QuietBefore, P

\* What an acknowledgement leaves in the caches.
LEMMA AckedFields ==
    ASSUME TypeOK, NEW f, NEW x \in Settings
    PROVE  /\ AckedBy(f)[x].attempted = cache[x].attempted
           /\ AckedBy(f)[x].acked =
                  IF f.kind = "reply" /\ x = <<f.ref, f.ch>>
                  THEN cache[x].attempted ELSE cache[x].acked
           /\ AckedBy(f)[x] \in Caches(Value)
  BY CacheTypes DEF AckedBy, Ack, TypeOK, Caches

\* A confirming frame leaves the caches settled.
LEMMA AckedSettled ==
    ASSUME TypeOK, NEW f \in Confirming(cache, hub.value),
           NEW x \in Settings, Settled(cache[x], hub.value[x])
    PROVE  Settled(AckedBy(f)[x], hub.value[x])
  <1> DEFINE c == AckedBy(f)[x]
             v == hub.value[x]
  <1>1. /\ c.attempted = cache[x].attempted
        /\ c.acked = IF f.kind = "reply" /\ x = <<f.ref, f.ch>>
                     THEN cache[x].attempted ELSE cache[x].acked
    BY AckedFields
  <1>2. f.kind = "reply" /\ x = <<f.ref, f.ch>> => AppliedTo(cache[x], v)
    BY DEF Confirming
  <1> HIDE DEF c, v
  <1>3. AppliedTo(cache[x], v) => AppliedTo(c, v)
    BY <1>1 DEF AppliedTo
  <1>4. Settled(c, v)
    BY <1>1, <1>2, <1>3 DEF Settled, v
  <1> QED
    BY <1>4 DEF c, v

\* The caches when the commands are built.
LEMMA ReadySettled ==
    ASSUME TypeOK, NEW x \in Settings,
           Settled(AckedBy(Frame)[x], hub.value[x])
    PROVE  Settled(Ready[x], hub.value[x])
  <1> DEFINE c == AckedBy(Frame)[x]
             r == Ready[x]
  <1>1. c \in Caches(Value)
    BY AckedFields
  <1>2. r = ForceReset(c) \/ r = c
    BY DEF Ready, ForgetIfReset
  <1> HIDE DEF c, r
  <1>3. ForceReset(c).acked = {}
    BY <1>1 DEF ForceReset, Caches
  <1>4. Settled(r, hub.value[x])
    BY <1>2, <1>3 DEF Settled, c
  <1> QED
    BY <1>4 DEF r

\* Attempts decide what packets carry and frames confirm.
LEMMA SameAttempts ==
    ASSUME NEW c, NEW d, \A x \in Settings : c[x].attempted = d[x].attempted,
           NEW value
    PROVE  Carrying(c) = Carrying(d)
           /\ Confirming(c, value) = Confirming(d, value)
  <1>1. \A x \in Settings : \A v : AttemptIs(c[x], v) = AttemptIs(d[x], v)
    BY DEF AttemptIs
  <1>2. \A x \in Settings : \A v : AppliedTo(c[x], v) = AppliedTo(d[x], v)
    BY DEF AppliedTo
  <1> QED
    BY <1>1, <1>2 DEF Carrying, Confirming

LEMMA HandleApplied ==
    ASSUME IndInv, AppliedInv, NEW remaining, HandleNext(remaining), rx # << >>
    PROVE  AppliedInv'
  <1> DEFINE sends == AdvancesState(serial, Frame) /\ CommandsDue(Noted)
             got == GetAll(Ready, Noted.canEnable)
             acked == AckedBy(Frame)
             kept == IF sends THEN got ELSE acked
             P == Carrying(kept)
             F == Confirming(cache, hub.value)
             G == Confirming(kept, hub.value)
  <1>1. TypeOK /\ SerialInv(serial)
    BY IndInvType DEF IndInv
  <1>2. /\ Holds(serial, Carrying(cache)) /\ rx \in Seq(F)
        /\ \A x \in Settings : Settled(cache[x], hub.value[x])
        /\ QuietBefore
    BY DEF AppliedInv
  <1>3. Frame \in F /\ Tail(rx) \in Seq(F)
    <2> HIDE DEF F
    <2> QED
      BY <1>2, HeadTailProperties DEF Frame
  <1>4. sends => /\ serial.sendState = "WaitingForPackets"
                 /\ Holds(serial, UncachedPackets)
                 /\ rx \in Seq(UncachedFrames)
    BY <1>1, <1>2, NoteFields DEF QuietBefore, CommandsDue, Noted
  <1>5. ~sends => Carrying(kept) = Carrying(cache) /\ F = G
    <2>1. \A x \in Settings : acked[x].attempted = cache[x].attempted
      BY <1>1, AckedFields
    <2> HIDE DEF acked
    <2> QED
      BY <2>1, SameAttempts
  <1>6. Holds(serial, P)
    <2>1. CASE sends
      <3>1. UncachedPackets \subseteq P
        BY UncachedCarrying
      <3> HIDE DEF P, sends
      <3> QED
        BY <1>4, <2>1, <3>1, HoldsMonotone
    <2>2. CASE ~sends
      BY <1>2, <1>5, <2>2
    <2> QED
      BY <2>1, <2>2
  <1>7. Tail(rx) \in Seq(G)
    <2>1. CASE sends
      <3>1. UncachedFrames \subseteq G
        BY UncachedCarrying
      <3>2. Tail(rx) \in Seq(UncachedFrames)
        <4> HIDE DEF sends
        <4> QED
          BY <1>4, <2>1, HeadTailProperties
      <3> HIDE DEF G
      <3> QED
        BY <3>1, <3>2, SeqMonotone
    <2>2. CASE ~sends
      <3> HIDE DEF F, G, sends
      <3> QED
        BY <1>3, <1>5, <2>2
    <2> QED
      BY <2>1, <2>2
  <1>8. sends => Commands \in Seq(P)
    BY <1>1, CommandsCarry DEF Commands
  <1>9. \A ref \in SynchronousRefs : Request(ref, 0, 0) \in P
    BY SynchronousUncached, UncachedCarrying
  <1>10. \A x \in Settings : Settled(kept[x], hub.value[x])
    <2> TAKE x \in Settings
    <2>1. Settled(acked[x], hub.value[x])
      BY <1>1, <1>2, <1>3, AckedSettled
    <2>2. Settled(Ready[x], hub.value[x])
      BY <1>1, <2>1, ReadySettled
    <2>3. got[x] = Get(Ready[x], Wanted(x, Noted.canEnable))
      BY DEF GetAll
    <2>4. got[x] = Ready[x] \/ got[x].acked = {}
      BY <2>3 DEF Get
    <2> HIDE DEF got, acked
    <2>5. Settled(got[x], hub.value[x])
      BY <2>2, <2>4 DEF Settled
    <2> QED
      BY <2>1, <2>5
  <1> HIDE DEF P
  <1>11. /\ Holds(serial', P) /\ rx' = Tail(rx) /\ cache' = kept /\ hub' = hub
    BY <1>6, <1>8, <1>9, HandleHolds
  <1>12. QuietBefore'
    <2> SUFFICES ASSUME serial'.sendState = "WaitingForPackets"
                 PROVE  /\ Holds(serial', UncachedPackets)
                        /\ rx' \in Seq(UncachedFrames)
      BY DEF QuietBefore, Holds
    <2>1. serial.sendState = "WaitingForPackets" /\ ~sends
      BY HandleState
    <2>2. Holds(serial, UncachedPackets) /\ rx \in Seq(UncachedFrames)
      BY <1>2, <2>1 DEF QuietBefore
    <2>3. Holds(serial', UncachedPackets)
      BY <2>1, <2>2, SynchronousUncached, HandleHolds
    <2>4. Tail(rx) \in Seq(UncachedFrames)
      BY <2>2, HeadTailProperties
    <2> QED
      BY <1>11, <2>3, <2>4
  <1> HIDE DEF kept
  <1> QED
    BY <1>7, <1>10, <1>11, <1>12 DEF AppliedInv, P

LEMMA HubApplies ==
    ASSUME CountedOnly, IndInv, AppliedInv, HubAndLink
    PROVE  AppliedInv'
  <1> DEFINE P == Carrying(cache)
             F == Confirming(cache, hub.value)
             G == Confirming(cache, hub'.value)
  <1>0. /\ TypeOK /\ Holds(serial, P) /\ rx \in Seq(F) /\ QuietBefore
        /\ \A x \in Settings : Settled(cache[x], hub.value[x])
    BY IndInvType DEF AppliedInv
  <1>1. ASSUME \A x \in Settings : AppliedTo(cache[x], hub.value[x])
                                     => AppliedTo(cache[x], hub'.value[x])
        PROVE  /\ F \subseteq G /\ rx \in Seq(G)
               /\ \A x \in Settings : Settled(cache[x], hub'.value[x])
    <2>1. F \subseteq G
      BY <1>1 DEF Confirming
    <2>2. rx \in Seq(G)
      <3> HIDE DEF F, G
      <3> QED
        BY <1>0, <2>1, SeqMonotone
    <2> QED
      BY <1>0, <1>1, <2>1, <2>2 DEF Settled
  <1>2. CASE /\ HubTakes /\ Delivered
             /\ hub' = hub \/ hub' = Perform(Head(serial.tx))
    <2> DEFINE p == Head(serial.tx)
               a == Answer("reply", p)
               child == [a EXCEPT !.val = 0]
    <2>1. /\ serial'.tx = Tail(serial.tx) /\ serial.tx # << >>
          /\ serial'.writeBuffer = serial.writeBuffer
          /\ serial'.sendState = serial.sendState /\ cache' = cache
      BY <1>2, TakesFields DEF HubTakes
    <2>2. serial.tx \in Seq(P) /\ serial.writeBuffer \in Seq(P)
      BY <1>0 DEF Holds
    <2>3. p \in P /\ Tail(serial.tx) \in Seq(P)
      <3> HIDE DEF P
      <3> QED
        BY <2>1, <2>2, HeadTailProperties
    <2>4. /\ p \in PacketsOf(Refs)
          /\ <<p.ref, p.ch>> \in Settings
                => AttemptIs(cache[<<p.ref, p.ch>>], p.val)
      BY <2>3 DEF Carrying
    <2> HIDE DEF p
    <2>5. hub' = Perform(p) =>
              /\ \A x \in Settings : hub'.value[x] =
                     IF x = <<p.ref, p.ch>> THEN p.val ELSE hub.value[x]
              /\ \A x \in Settings :
                     x = <<p.ref, p.ch>> => AppliedTo(cache[x], hub'.value[x])
      <3> HAVE hub' = Perform(p)
      <3>1. \A x \in Settings : hub'.value[x] =
                IF x = <<p.ref, p.ch>> THEN p.val ELSE hub.value[x]
        BY DEF Perform
      <3> QED
        BY <2>4, <3>1 DEF AttemptIs, AppliedTo
    <2>6. \A x \in Settings : AppliedTo(cache[x], hub.value[x])
                                 => AppliedTo(cache[x], hub'.value[x])
      <3>1. CASE hub' = hub
        BY <3>1
      <3>2. CASE hub' = Perform(p)
        BY <2>5, <3>2
      <3> QED
        BY <1>2, <3>1, <3>2 DEF p
    <2>7. F \subseteq G /\ rx \in Seq(G)
          /\ \A x \in Settings : Settled(cache[x], hub'.value[x])
      BY <1>1, <2>6
    <2>8. \A kind \in {"reply", "nack", "corrupt"} :
              /\ Answer(kind, p) \in FramesOf(Refs)
              /\ Answer(kind, p).kind = kind /\ Answer(kind, p).ref = p.ref
              /\ Answer(kind, p).ch = p.ch
      BY <2>4, AnswerType, AnswerFields
    <2>9. \A kind \in {"reply", "nack", "corrupt"} :
              (kind = "reply" => hub' = Perform(p)) => Answer(kind, p) \in G
      BY <2>5, <2>8 DEF Confirming
    <2>10. p.ref = "DISCOVER" => a \in G /\ child \in G
      <3>1. a \in FramesOf(Refs) /\ a.ref = p.ref
        BY <2>8
      <3> HIDE DEF a
      <3>2. child \in FramesOf(Refs) /\ child.ref = p.ref
        BY <3>1 DEF FramesOf
      <3>3. "DISCOVER" \notin CachedRefs
        BY DEF CachedRefs
      <3> QED
        BY <3>1, <3>2, <3>3, NamesSetting DEF Confirming
    <2> HIDE DEF G
    <2>11. \/ rx' = rx
           \/ \E kind \in {"reply", "nack", "corrupt"} :
                 /\ rx' = Append(rx, Answer(kind, p))
                 /\ kind = "reply" => hub' = Perform(p)
           \/ <<"child answers", p.ref>> \in Faults /\ rx' = rx \o <<child, a>>
      BY <1>2 DEF Delivered, p
    <2>12. rx' \in Seq(G)
      <3>1. ASSUME NEW f \in G, rx' = Append(rx, f)
            PROVE  rx' \in Seq(G)
        BY <2>7, <3>1
      <3>2. CASE /\ <<"child answers", p.ref>> \in Faults
                 /\ rx' = rx \o <<child, a>>
        <4>1. a \in G /\ child \in G
          BY <2>10, <3>2 DEF CountedOnly
        <4> HIDE DEF a, child
        <4>2. <<child, a>> \in Seq(G)
          BY <4>1
        <4>3. rx \o <<child, a>> \in Seq(G)
          BY <2>7, <4>2, ConcatProperties
        <4> QED
          BY <3>2, <4>3
      <3>3. CASE rx' = rx
        BY <2>7, <3>3
      <3> QED
        BY <2>9, <2>11, <3>1, <3>2, <3>3
    <2>13. QuietBefore'
      <3> SUFFICES ASSUME serial'.sendState = "WaitingForPackets"
                   PROVE  /\ Holds(serial', UncachedPackets)
                          /\ rx' \in Seq(UncachedFrames)
        BY DEF QuietBefore, Holds
      <3>1. Holds(serial, UncachedPackets) /\ rx \in Seq(UncachedFrames)
        BY <1>0, <2>1 DEF QuietBefore
      <3>2. p \in UncachedPackets /\ Tail(serial.tx) \in Seq(UncachedPackets)
        BY <2>1, <3>1, HeadTailProperties DEF Holds, p
      <3>3. \A kind \in {"reply", "nack", "corrupt"} :
                Answer(kind, p) \in UncachedFrames
        BY <3>2, AnswerType DEF UncachedPackets, UncachedFrames
      <3>4. child \in UncachedFrames
        <4>1. a \in UncachedFrames
          BY <3>3
        <4> HIDE DEF a
        <4> QED
          BY <4>1 DEF UncachedFrames, FramesOf
      <3>5. CASE rx' = rx
        BY <2>1, <3>1, <3>2, <3>5 DEF Holds
      <3>6. CASE \E kind \in {"reply", "nack", "corrupt"} :
                     rx' = Append(rx, Answer(kind, p))
        BY <2>1, <3>1, <3>2, <3>3, <3>6, AppendProperties DEF Holds
      <3>7. CASE rx' = rx \o <<child, a>>
        <4>1. a \in UncachedFrames
          BY <3>3
        <4> HIDE DEF a, child
        <4>2. <<child, a>> \in Seq(UncachedFrames)
          BY <3>4, <4>1
        <4>3. rx \o <<child, a>> \in Seq(UncachedFrames)
          BY <3>1, <4>2, ConcatProperties
        <4> QED
          BY <2>1, <3>1, <3>2, <3>7, <4>3 DEF Holds
      <3> QED
        BY <2>11, <3>5, <3>6, <3>7
    <2> QED
      BY <2>1, <2>2, <2>3, <2>7, <2>12, <2>13 DEF AppliedInv, Holds, G
  <1>3. CASE HubResets
    <2>1. /\ serial' = serial /\ rx' = rx /\ cache' = cache
          /\ hub'.value = [x \in Settings |-> 0] /\ MaxHubResets # 0
      <3>1. left.hubResets \in 0 .. MaxHubResets /\ left.hubResets > 0
        BY <1>3 DEF HubResets, IndInv, RestOK, Bounds
      <3>2. MaxHubResets # 0
        BY <3>1
      <3>3. PoweredUp.value = [x \in Settings |-> 0]
        BY DEF PoweredUp
      <3>4. hub'.value = PoweredUp.value
        BY <1>3 DEF HubResets, PoweredUp
      <3> QED
        BY <1>3, <3>2, <3>3, <3>4 DEF HubResets
    <2>2. 0 % UInt16 = 0
      BY DEF UInt16
    <2>3. \A x \in Settings : AppliedTo(cache[x], hub.value[x])
                                 => AppliedTo(cache[x], hub'.value[x])
      BY <2>1, <2>2 DEF AppliedTo, Kept
    <2>4. rx \in Seq(G) /\ \A x \in Settings : Settled(cache[x], hub'.value[x])
      BY <1>1, <2>3
    <2> QED
      BY <1>0, <2>1, <2>4 DEF AppliedInv, QuietBefore
  <1> QED
    BY <1>2, <1>3, HubPerforms

LEMMA DaemonApplied ==
    ASSUME IndInv, FlowInv, AppliedInv, Daemon
    PROVE  AppliedInv'
  <1> DEFINE P == Carrying(cache)
  <1>0. /\ SerialInv(serial) /\ TypeOK /\ Holds(serial, P) /\ QuietBefore
        /\ rx \in Seq(Confirming(cache, hub.value))
        /\ \A x \in Settings : Settled(cache[x], hub.value[x])
    BY IndInvType DEF IndInv, AppliedInv
  <1>1. CASE OnUpdateSynchronous
    <2>1. /\ serial' = RunSynchronousSteps(serial) /\ rx' = rx
          /\ cache' = cache /\ hub' = hub
      BY <1>1 DEF OnUpdateSynchronous
    <2>2. \A ref \in SynchronousRefs : Request(ref, 0, 0) \in P
      BY SynchronousUncached, UncachedCarrying
    <2> HIDE DEF P
    <2>3. Holds(serial', P)
      BY <1>0, <2>1, <2>2, RunSynchronousStepsHolds
    <2>4. serial'.sendState = serial.sendState
      BY <1>0, <2>1 DEF RunSynchronousSteps, SendDirect, SerialInv, Serials
    <2>5. QuietBefore'
      <3>1. CASE serial.sendState = "WaitingForPackets"
        <4>1. Holds(serial, UncachedPackets) /\ rx \in Seq(UncachedFrames)
          BY <1>0, <3>1 DEF QuietBefore
        <4>2. Holds(serial', UncachedPackets)
          BY <1>0, <2>1, <4>1, SynchronousUncached, RunSynchronousStepsHolds
        <4> QED
          BY <2>1, <4>1, <4>2 DEF QuietBefore, Holds
      <3>2. CASE serial.sendState # "WaitingForPackets"
        BY <2>4, <3>2 DEF QuietBefore
      <3> QED
        BY <3>1, <3>2
    <2> QED
      BY <1>0, <2>1, <2>3, <2>5 DEF AppliedInv, P
  <1>2. CASE OnUpdateSend \/ OnUpdateRecover
    <2>1. PICK s : Begins(s)
      BY <1>2, TransactionBegins
    <2>2. InitialPackets \in Seq(UncachedPackets)
      BY <1>0, InitialUncached
    <2>3. s.tx \in Seq(UncachedPackets) /\ SerialInv(s) /\ s.pendingWrites = 0
          /\ BeginTransaction(s)
      BY <2>1 DEF Begins
    <2>4. hub' = hub /\ rx' = << >> /\ cache' = cache
      BY <2>1 DEF Begins, BeginTransaction
    <2>5. Holds(serial', UncachedPackets)
      BY <2>2, <2>3, BeginHolds
    <2>6. Holds(serial', P)
      <3>1. UncachedPackets \subseteq P
        BY UncachedCarrying
      <3> HIDE DEF P
      <3> QED
        BY <2>5, <3>1, HoldsMonotone
    <2>7. << >> \in Seq(UncachedFrames)
          /\ << >> \in Seq(Confirming(cache, hub.value))
      OBVIOUS
    <2> QED
      BY <1>0, <2>4, <2>5, <2>6, <2>7 DEF AppliedInv, QuietBefore, Holds
  <1>3. CASE DoRead
    <2>1. PICK n \in 1 .. MaxRead : n <= Len(rx) /\ HandleNext(n - 1)
      BY <1>3 DEF DoRead
    <2>2. rx # << >>
      BY <2>1, BoundsAssumption DEF IndInv
    <2> QED
      BY <2>1, <2>2, HandleApplied
  <1>4. CASE DoReadNext
    <2>1. rx # << >>
      BY <1>4 DEF DoReadNext, IndInv, RestOK
    <2> QED
      BY <1>4, <2>1, HandleApplied DEF DoReadNext
  <1> QED
    BY <1>1, <1>2, <1>3, <1>4 DEF Daemon

\* The steps that touch neither the packets nor the settings.
LEMMA ElsewhereUnchanged ==
    ASSUME IndInv, SecondPasses \/ Client \/ UNCHANGED vars
    PROVE  /\ serial'.tx = serial.tx
           /\ serial'.writeBuffer = serial.writeBuffer
           /\ serial'.currentCount = serial.currentCount
           /\ serial'.outstandingMessages = serial.outstandingMessages
           /\ serial'.sendState = serial.sendState
           /\ serial'.canEnable = serial.canEnable
           /\ serial'.configuredFtdiReset = serial.configuredFtdiReset
           /\ SameAnswers(serial, serial')
           /\ UNCHANGED <<cache, rx, hub>>
  <1>1. CASE SecondPasses
    <2> DEFINE t == [serial EXCEPT !.discoverDue = TRUE]
    <2>1. serial' = t /\ UNCHANGED <<cache, rx, hub>> /\ serial \in Serials
      BY <1>1 DEF SecondPasses, IndInv, SerialInv
    <2>2. /\ t.tx = serial.tx /\ t.writeBuffer = serial.writeBuffer
          /\ t.currentCount = serial.currentCount
          /\ t.outstandingMessages = serial.outstandingMessages
          /\ t.sendState = serial.sendState
          /\ t.canEnable = serial.canEnable
          /\ t.configuredFtdiReset = serial.configuredFtdiReset
          /\ SameAnswers(serial, t)
      BY <2>1 DEF Serials, SameAnswers
    <2> HIDE DEF t
    <2> QED
      BY <2>1, <2>2
  <1>2. CASE Client \/ UNCHANGED vars
    BY <1>2 DEF Client, SetSetting, SetPulseWidth, RequestReset,
                WatchdogChanges, ClientChanges, vars, SameAnswers
  <1> QED
    BY <1>1, <1>2

\* The invariant of the settings holds in every reachable state.
THEOREM AppliedInductive ==
    ASSUME CountedOnly, NeverStalls
    PROVE  Spec => []AppliedInv
  <1>1. Init => AppliedInv
    BY AppliedInit
  <1>2. IndInv /\ FlowInv /\ AppliedInv /\ [Next]_vars => AppliedInv'
    <2> SUFFICES ASSUME IndInv, FlowInv, AppliedInv, [Next]_vars
                 PROVE  AppliedInv'
      OBVIOUS
    <2>1. CASE SecondPasses \/ Client \/ UNCHANGED vars
      <3>1. /\ serial'.tx = serial.tx
            /\ serial'.writeBuffer = serial.writeBuffer
            /\ serial'.sendState = serial.sendState
            /\ UNCHANGED <<cache, rx, hub>>
        BY <2>1, ElsewhereUnchanged
      <3> QED
        BY <3>1 DEF AppliedInv, QuietBefore, Holds
    <2> QED
      BY <2>1, DaemonApplied, HubApplies DEF Next
  <1> QED
    BY <1>1, <1>2, Inductive, FlowInductive, PTL DEF Spec

\* As long as the hub does not restart, a value the daemon holds for
\* acknowledged (CachedCommand::lastAckedValue), and so will not send again,
\* is the one the hub uses, whatever is lost, refused or corrupted.
THEOREM AckedIsApplied ==
    ASSUME CountedOnly, NeverStalls, MaxHubResets = 0
    PROVE  Spec => []AckedMeansApplied
  <1>1. AppliedInv => AckedMeansApplied
    <2> SUFFICES ASSUME AppliedInv, NEW x \in Settings, cache[x].acked # {}
                 PROVE  cache[x].acked = {v \in cache[x].acked :
                                             v % UInt16 = hub.value[x]}
      BY DEF AckedMeansApplied
    <2>1. Settled(cache[x], hub.value[x])
      BY DEF AppliedInv
    <2>2. PICK a \in Nat : cache[x].acked = {a} /\ hub.value[x] = a % UInt16
      BY <2>1 DEF Settled, AppliedTo, Kept
    <2> QED
      BY <2>2
  <1> QED
    BY <1>1, AppliedInductive, PTL

(***************************************************************************)
(* A transaction that may not enable anything leaves everything disabled.  *)
(***************************************************************************)

\* A packet that names the setting x is in a sequence, is not written yet, or
\* is one or the other.
Contains(q, x) == \E i \in DOMAIN q : <<q[i].ref, q[i].ch>> = x
Unwritten(s, x) ==
    \E i \in s.currentCount + 1 .. Len(s.writeBuffer) :
        <<s.writeBuffer[i].ref, s.writeBuffer[i].ch>> = x
Underway(s, x) == Contains(s.tx, x) \/ Unwritten(s, x)

\* Some counted packet will not be answered: the transaction cannot end.
Lost(s, r) == Len(s.tx) + Len(r) < s.outstandingMessages

Answered(s) == s.haveBattery /\ s.haveBulk /\ s.haveModuleStatus

DisableInv ==
    /\ ~HasFinishedSynchronous(serial) => ~serial.haveBattery
    /\ serial.sendState = "WaitingForFinish" => Answered(serial)
    /\ /\ serial.sendState # "WaitingForPackets" /\ Answered(serial)
       /\ ~serial.canEnable
       => \A x \in Settings : x[1] \in Enables =>
              /\ cache[x].attempted = {0}
              /\ hub.value[x] = 0 \/ Lost(serial, rx) \/ Underway(serial, x)

LEMMA ContainsConcat ==
    ASSUME NEW S, NEW q \in Seq(S), NEW r \in Seq(S), NEW x,
           Contains(q, x) \/ Contains(r, x)
    PROVE  Contains(q \o r, x)
  <1>1. /\ q \o r \in Seq(S) /\ Len(q \o r) = Len(q) + Len(r)
        /\ Len(q) \in Nat /\ Len(r) \in Nat
        /\ \A i \in 1 .. Len(q) : (q \o r)[i] = q[i]
        /\ \A j \in 1 .. Len(r) : (q \o r)[Len(q) + j] = r[j]
    BY ConcatProperties
  <1>2. DOMAIN q = 1 .. Len(q) /\ DOMAIN r = 1 .. Len(r)
        /\ DOMAIN (q \o r) = 1 .. Len(q) + Len(r)
    BY <1>1
  <1>3. CASE Contains(q, x)
    <2>1. PICK i \in 1 .. Len(q) : <<q[i].ref, q[i].ch>> = x
      BY <1>2, <1>3 DEF Contains
    <2>2. i \in DOMAIN (q \o r) /\ (q \o r)[i] = q[i]
      BY <1>1, <1>2
    <2> QED
      BY <2>1, <2>2 DEF Contains
  <1>4. CASE Contains(r, x)
    <2>1. PICK j \in 1 .. Len(r) : <<r[j].ref, r[j].ch>> = x
      BY <1>2, <1>4 DEF Contains
    <2>2. Len(q) + j \in DOMAIN (q \o r) /\ (q \o r)[Len(q) + j] = r[j]
      BY <1>1, <1>2
    <2> QED
      BY <2>1, <2>2 DEF Contains
  <1> QED
    BY <1>3, <1>4

\* Of the packets that are left, the one that named x is left or was first.
LEMMA ContainsTail ==
    ASSUME NEW S, NEW q \in Seq(S), q # << >>, NEW x, Contains(q, x)
    PROVE  Contains(Tail(q), x) \/ <<Head(q).ref, Head(q).ch>> = x
  <1>1. PICK i \in 1 .. Len(q) : <<q[i].ref, q[i].ch>> = x
    BY DEF Contains
  <1>2. CASE i = 1
    BY <1>1, <1>2
  <1>3. CASE i # 1
    <2>1. /\ Tail(q) \in Seq(S) /\ Len(Tail(q)) = Len(q) - 1
          /\ i - 1 \in 1 .. Len(q) - 1 /\ Tail(q)[i - 1] = q[i]
      BY <1>3
    <2>2. i - 1 \in DOMAIN Tail(q)
      BY <2>1
    <2> QED
      BY <1>1, <2>1, <2>2 DEF Contains
  <1> QED
    BY <1>2, <1>3

\* What Flush takes from the buffer it writes.
LEMMA FlushUnderway ==
    ASSUME NEW s, SerialInv(s), NEW x, Underway(s, x)
    PROVE  Underway(Flush(s), x)
  <1> DEFINE n == ToWrite(s)
             c == s.currentCount
             w == s.writeBuffer
             f == Flushed(s)
             R == PacketsOf(Refs)
  <1>1. s \in Serials
    BY DEF SerialInv
  <1>2. n \in Nat /\ c \in Nat /\ Len(w) \in Nat /\ c + n <= Len(w)
        /\ w \in Seq(PacketsOf(TransactionRefs)) /\ s.tx \in Seq(R)
    BY <1>1, SerialFields, ToWriteBound DEF SerialInv
  <1>3. f \in Seq(PacketsOf(TransactionRefs)) /\ Len(f) = n
    BY <1>2, FlushedFrom
  <1>4. f \in Seq(R)
    <2>1. PacketsOf(TransactionRefs) \subseteq R
      BY DEF PacketsOf, Refs
    <2> HIDE DEF f, R
    <2> QED
      BY <1>3, <2>1, SeqMonotone
  <1>5. /\ Flush(s).tx = s.tx \o f /\ Flush(s).currentCount = c + n
        /\ Flush(s).writeBuffer = w
    BY FlushFields
  <1>6. \A i \in 1 .. n : f[i] = w[c + i]
    BY <1>2 DEF Flushed
  <1> HIDE DEF n, c, w, f, R
  <1>7. Contains(s.tx, x) \/ Contains(f, x) => Contains(Flush(s).tx, x)
    BY <1>2, <1>4, <1>5, ContainsConcat
  <1>8. CASE Unwritten(s, x)
    <2>1. PICK i \in c + 1 .. Len(w) : <<w[i].ref, w[i].ch>> = x
      BY <1>8 DEF Unwritten, c, w
    <2>2. CASE i > c + n
      <3>1. i \in c + n + 1 .. Len(w)
        BY <1>2, <2>1, <2>2
      <3> QED
        BY <1>5, <2>1, <3>1 DEF Underway, Unwritten
    <2>3. CASE ~(i > c + n)
      <3> DEFINE j == i - c
      <3>1. j \in 1 .. n /\ c + j = i
        BY <1>2, <2>1, <2>3
      <3>2. j \in DOMAIN f /\ f[j] = w[i]
        BY <1>3, <1>6, <3>1
      <3>3. Contains(f, x)
        BY <2>1, <3>2 DEF Contains
      <3> QED
        BY <1>7, <3>3 DEF Underway
    <2> QED
      BY <2>2, <2>3
  <1> QED
    BY <1>7, <1>8 DEF Underway

\* A setting whose Get returned a value is among the packets of SendCommands.
LEMMA CommandsContain ==
    ASSUME NEW caches, NEW canEnable,
           NEW x \in Settings, x[1] \in Enables, Due(x, caches, canEnable)
    PROVE  Contains(CommandPackets(caches, canEnable), x)
  <1> DEFINE Power(m) == SendIf(m \in Motors,
                                Request("MOTOR_SET_CONSTANT_POWER", m, 0))
             Current(m) == SendIf(m \in Motors,
                                  Request("MOTOR_GET_CURRENT", m, 0))
             Setting(ref, ch) == SettingPacket(<<ref, ch>>, caches, canEnable)
             Mode(m) == Setting("MOTOR_SET_RUN_MODE", m)
             Enable(m) == Setting("MOTOR_ENABLE", m)
             Period(v) == Setting("SERVO_CONFIGURATION", v)
             ServoEnable(v) == Setting("SERVO_ENABLE", v)
             Q == {Request("MOTOR_SET_CONSTANT_POWER", m, 0) : m \in Motors}
                   \cup {Request("MOTOR_GET_CURRENT", m, 0) : m \in Motors}
                   \cup {Request(y[1], y[2], Wanted(y, canEnable) % UInt16) :
                              y \in Settings}
  <1>1. \A m : Power(m) \in Seq(Q) /\ Current(m) \in Seq(Q)
    BY SendIfIn
  <1>2. \A ref, ch : Setting(ref, ch) \in Seq(Q)
    BY SendIfIn DEF SettingPacket
  <1>3. \A m : /\ Mode(m) \in Seq(Q) /\ Enable(m) \in Seq(Q)
               /\ Period(m) \in Seq(Q) /\ ServoEnable(m) \in Seq(Q)
    BY <1>2
  <1>4. x = <<x[1], x[2]>>
        /\ \/ x[1] = "MOTOR_ENABLE" /\ x[2] \in Motors
           \/ x[1] = "SERVO_ENABLE" /\ x[2] \in Servos
    BY DEF Settings, MotorSettings, ServoSettings, Enables
  <1>5. Setting(x[1], x[2]) =
            <<Request(x[1], x[2], Wanted(x, canEnable) % UInt16)>>
    BY <1>4 DEF SettingPacket, SendIf, Due
  <1>6. Contains(Setting(x[1], x[2]), x)
    <2> DEFINE q == Setting(x[1], x[2])
    <2>1. 1 \in DOMAIN q /\ q[1].ref = x[1] /\ q[1].ch = x[2]
      BY <1>5 DEF Request
    <2> HIDE DEF q
    <2>2. Contains(q, x)
      BY <1>4, <2>1 DEF Contains
    <2> QED
      BY <2>2 DEF q
  <1>7. /\ x[1] = "MOTOR_ENABLE" => Contains(Enable(x[2]), x)
        /\ x[1] = "SERVO_ENABLE" => Contains(ServoEnable(x[2]), x)
    BY <1>6
  <1>8. CommandPackets(caches, canEnable) =
            ForMotors(Power) \o ForMotors(Current) \o ForMotors(Mode)
                \o ForMotors(Enable) \o ForServos(Period)
                \o ForServos(ServoEnable)
    BY DEF CommandPackets
  <1> HIDE DEF Power, Current, Setting, Mode, Enable, Period, ServoEnable, Q
  <1>9. /\ ForMotors(Power) \in Seq(Q) /\ ForMotors(Current) \in Seq(Q)
        /\ ForMotors(Mode) \in Seq(Q) /\ ForMotors(Enable) \in Seq(Q)
        /\ ForServos(Period) \in Seq(Q) /\ ForServos(ServoEnable) \in Seq(Q)
    BY <1>1, <1>3 DEF ForMotors, ForServos
  <1>10. x[1] = "MOTOR_ENABLE" => Contains(ForMotors(Enable), x)
    <2> HAVE x[1] = "MOTOR_ENABLE"
    <2>1. x[2] \in {0, 1, 2, 3} /\ Contains(Enable(x[2]), x)
      BY <1>4, <1>7, MotorsAssumption
    <2>2. /\ Enable(0) \o Enable(1) \in Seq(Q)
          /\ Enable(0) \o Enable(1) \o Enable(2) \in Seq(Q)
      BY <1>3
    <2>3. Contains(Enable(0), x) \/ Contains(Enable(1), x)
              => Contains(Enable(0) \o Enable(1), x)
      BY <1>3, ContainsConcat
    <2>4. Contains(Enable(0) \o Enable(1), x) \/ Contains(Enable(2), x)
              => Contains(Enable(0) \o Enable(1) \o Enable(2), x)
      BY <1>3, <2>2, ContainsConcat
    <2>5. Contains(Enable(0) \o Enable(1) \o Enable(2), x)
              \/ Contains(Enable(3), x)
              => Contains(Enable(0) \o Enable(1) \o Enable(2) \o Enable(3), x)
      BY <1>3, <2>2, ContainsConcat, ZenonT(60)
    <2> QED
      BY <2>1, <2>3, <2>4, <2>5 DEF ForMotors
  <1>11. x[1] = "SERVO_ENABLE" => Contains(ForServos(ServoEnable), x)
    <2> HAVE x[1] = "SERVO_ENABLE"
    <2> DEFINE q0 == ServoEnable(0)
               q1 == q0 \o ServoEnable(1)
               q2 == q1 \o ServoEnable(2)
               q3 == q2 \o ServoEnable(3)
               q4 == q3 \o ServoEnable(4)
               q5 == q4 \o ServoEnable(5)
    <2>1. x[2] \in {0, 1, 2, 3, 4, 5} /\ Contains(ServoEnable(x[2]), x)
      BY <1>4, <1>7, ServosAssumption
    <2>2. /\ q0 \in Seq(Q) /\ q1 \in Seq(Q) /\ q2 \in Seq(Q) /\ q3 \in Seq(Q)
          /\ q4 \in Seq(Q)
      BY <1>3
    <2>3. Contains(q0, x) \/ Contains(ServoEnable(1), x) => Contains(q1, x)
      BY <1>3, <2>2, ContainsConcat
    <2>4. Contains(q1, x) \/ Contains(ServoEnable(2), x) => Contains(q2, x)
      <3> HIDE DEF q1
      <3> QED
        BY <1>3, <2>2, ContainsConcat
    <2>5. Contains(q2, x) \/ Contains(ServoEnable(3), x) => Contains(q3, x)
      <3> HIDE DEF q2
      <3> QED
        BY <1>3, <2>2, ContainsConcat
    <2>6. Contains(q3, x) \/ Contains(ServoEnable(4), x) => Contains(q4, x)
      <3> HIDE DEF q3
      <3> QED
        BY <1>3, <2>2, ContainsConcat
    <2>7. Contains(q4, x) \/ Contains(ServoEnable(5), x) => Contains(q5, x)
      <3> HIDE DEF q4
      <3> QED
        BY <1>3, <2>2, ContainsConcat
    <2>8. ForServos(ServoEnable) = q5
      BY DEF ForServos
    <2>9. q0 = ServoEnable(0)
      OBVIOUS
    <2> HIDE DEF q0, q1, q2, q3, q4, q5
    <2> QED
      BY <2>1, <2>3, <2>4, <2>5, <2>6, <2>7, <2>8, <2>9
  <1> DEFINE r1 == ForMotors(Power) \o ForMotors(Current) \o ForMotors(Mode)
             r2 == r1 \o ForMotors(Enable)
             r3 == r2 \o ForServos(Period)
             r4 == r3 \o ForServos(ServoEnable)
             em == ForMotors(Enable)
             sp == ForServos(Period)
             se == ForServos(ServoEnable)
  <1>12. /\ r1 \in Seq(Q) /\ em \in Seq(Q) /\ sp \in Seq(Q) /\ se \in Seq(Q)
         /\ r2 = r1 \o em /\ r3 = r2 \o sp /\ r4 = r3 \o se
         /\ CommandPackets(caches, canEnable) = r4
         /\ Contains(em, x) \/ Contains(se, x)
    BY <1>4, <1>8, <1>9, <1>10, <1>11
  <1> HIDE DEF r1, r2, r3, r4, em, sp, se
  <1>13. r2 \in Seq(Q) /\ r3 \in Seq(Q)
    BY <1>12
  <1>14. Contains(em, x) => Contains(r2, x)
    BY <1>12, ContainsConcat
  <1>15. Contains(r2, x) => Contains(r3, x)
    BY <1>12, <1>13, ContainsConcat, ZenonT(60)
  <1>16. Contains(r3, x) \/ Contains(se, x) => Contains(r4, x)
    BY <1>12, <1>13, ContainsConcat
  <1> QED
    BY <1>12, <1>14, <1>15, <1>16

\* What was underway stays so, and the commands are.
LEMMA HandleUnderway ==
    ASSUME IndInv, NEW remaining, HandleNext(remaining), rx # << >>,
           AdvancesState(serial, Frame), NEW x,
           IF CommandsDue(Noted) THEN Contains(Commands, x)
                                 ELSE Underway(serial, x)
    PROVE  Underway(serial', x)
  <1> DEFINE t == HandlePayload(serial, Frame, Commands)
             n == Noted
             c == CountDown(n)
             q == SendPackets(c, Commands)
             u == Flush(q)
             a == Advanced(n, Commands)
  <1>1. SerialInv(serial) /\ Frame \in FramesOf(RefsSoFar(serial))
    BY DEF IndInv, Frame
  <1>2. Commands \in Seq(PacketsOf(TransactionRefs))
    BY IndInvType, CommandPacketsType DEF Commands
  <1>3. SerialInv(t)
    BY <1>1, <1>2, HandlePayloadInv
  <1>4. /\ SerialInv(n) /\ n.tx = serial.tx
        /\ n.writeBuffer = serial.writeBuffer
        /\ n.currentCount = serial.currentCount
    BY <1>1, NoteReplyInv, NoteFields DEF Noted
  <1>5. t = IF TransactionDone(a) THEN [a EXCEPT !.sendState = "ReadyToSend"]
                                  ELSE a
    BY CheckIs DEF HandlePayload, Noted
  <1>6. serial' = IF remaining = 0 THEN Flush(t) ELSE t
    BY DEF HandleNext, HandleFrame, Frame, Noted, Ready, Commands
  <1>7. /\ SerialInv(c) /\ c.tx = n.tx /\ c.writeBuffer = n.writeBuffer
        /\ c.currentCount = n.currentCount /\ c.sendState = n.sendState
    BY <1>4, CountDownHolds
  <1>8. a = IF CommandsDue(n) THEN [u EXCEPT !.sendState = "WaitingForFinish"]
                              ELSE c
    BY DEF Advanced
  <1> HIDE DEF t, a, c
  <1>9. SerialInv(a) /\ Underway(a, x)
    <2>1. CASE CommandsDue(n)
      <3>1. ~AllowSend(c)
        BY <1>7, <2>1 DEF CommandsDue, AllowSend
      <3>2. SerialInv(q)
        BY <1>2, <1>7, <3>1, SendPacketsInv
      <3>3. /\ q.writeBuffer = c.writeBuffer \o Commands
            /\ q.currentCount = c.currentCount
        BY <1>7, SendPacketsFields
      <3>4. Unwritten(q, x)
        <4> DEFINE w == c.writeBuffer
                   k == c.currentCount
        <4>1. /\ w \in Seq(PacketsOf(TransactionRefs)) /\ k \in Nat
              /\ k <= Len(w) /\ Len(w) \in Nat
          BY <1>7, SerialFields DEF SerialInv
        <4>2. PICK j \in 1 .. Len(Commands) :
                  <<Commands[j].ref, Commands[j].ch>> = x
          BY <1>2, <2>1 DEF Contains
        <4>3. /\ Len(w \o Commands) = Len(w) + Len(Commands)
              /\ (w \o Commands)[Len(w) + j] = Commands[j]
              /\ Len(Commands) \in Nat
          BY <1>2, <4>1, ConcatProperties
        <4> DEFINE i == Len(w) + j
        <4> HIDE DEF w, k, q
        <4>4. i \in k + 1 .. Len(w \o Commands)
          BY <4>1, <4>2, <4>3
        <4> HIDE DEF i
        <4> QED
          BY <3>3, <4>2, <4>3, <4>4 DEF Unwritten, w, k, i
      <3> HIDE DEF q
      <3>5. SerialInv(u) /\ Underway(u, x)
        BY <3>2, <3>4, FlushInv, FlushUnderway DEF Underway
      <3> HIDE DEF u
      <3>6. SerialInv(a)
        BY <1>8, <2>1, <3>5, SendStateInv DEF SendStates
      <3>7. /\ a.tx = u.tx /\ a.writeBuffer = u.writeBuffer
            /\ a.currentCount = u.currentCount
        BY <1>8, <2>1, <3>5, StateFields
      <3> QED
        BY <3>5, <3>6, <3>7 DEF Underway, Unwritten
    <2>2. CASE ~CommandsDue(n)
      BY <1>4, <1>7, <1>8, <2>2 DEF Underway, Unwritten
    <2> QED
      BY <2>1, <2>2
  <1>10. /\ t.tx = a.tx /\ t.writeBuffer = a.writeBuffer
         /\ t.currentCount = a.currentCount
    <2>1. CASE TransactionDone(a)
      BY <1>5, <1>9, <2>1, StateFields
    <2>2. CASE ~TransactionDone(a)
      BY <1>5, <2>2
    <2> QED
      BY <2>1, <2>2
  <1>11. Underway(t, x)
    BY <1>9, <1>10 DEF Underway, Unwritten
  <1> QED
    BY <1>3, <1>6, <1>11, FlushUnderway

LEMMA DisableInit ==
    ASSUME Init
    PROVE  DisableInv
  <1> DEFINE t == RunSynchronousSteps(NewSerial)
  <1>1. t.sendState = "ReadyToSend" /\ t.haveBattery = FALSE
    BY DEF RunSynchronousSteps, SendDirect, NewSerial
  <1>2. serial = t
    BY DEF Init
  <1> HIDE DEF t
  <1> QED
    BY <1>1, <1>2 DEF DisableInv, Answered

\* A frame that ends the wait, or follows it, in a transaction.
LEMMA HandleDisables ==
    ASSUME IndInv, FlowInv, AppliedInv, DisableInv,
           HasFinishedSynchronous(serial), IndInv',
           NEW remaining, HandleNext(remaining), rx # << >>
    PROVE  DisableInv'
  <1> DEFINE TP == PacketsOf(TransactionRefs)
             got == GetAll(Ready, Noted.canEnable)
  <1>1. TypeOK /\ SerialInv(serial) /\ Counting(serial, rx, loopDue)
    BY IndInvType DEF IndInv, FlowInv
  <1>2. Commands \in Seq(TP)
    BY <1>1, CommandPacketsType DEF Commands
  <1>3. serial.writeBuffer \in Seq(TP) /\ serial.tx \in Seq(TP)
    BY <1>1, SerialFields DEF SerialInv, Counting
  <1>4. AdvancesState(serial, Frame)
    <2>1. Counting(serial, rx, FALSE)
      BY <1>1 DEF Counting
    <2> QED
      BY <1>1, <1>2, <1>3, <2>1, CountingAnswer DEF Frame
  <1>5. /\ ~AllowSend(serial)
        /\ Len(serial'.tx) + serial.outstandingMessages
               = Len(serial.tx) + serial'.outstandingMessages + 1
        /\ SameNotes(serial, serial') /\ SameAnswers(Noted, serial')
        /\ serial'.tx \in Seq(TP)
        /\ cache' = IF CommandsDue(Noted) THEN got ELSE AckedBy(Frame)
    <2> HIDE DEF TP
    <2> QED
      BY <1>2, <1>3, HandleCounting
  <1>6. rx' = Tail(rx) /\ hub' = hub
    BY DEF HandleNext
  <1>7. /\ Noted.sendState = serial.sendState
        /\ Noted.canEnable = serial.canEnable
        /\ Answered(serial) => Answered(Noted)
    <2>1. Noted.sendState = serial.sendState
          /\ Noted.canEnable = serial.canEnable
      BY <1>1, NoteFields DEF Noted, SameNotes
    <2>2. Answered(serial) => Answered(Noted)
      BY <1>1 DEF SerialInv, Serials, Noted, NoteReply, Answered
    <2> QED
      BY <2>1, <2>2
  <1>8. Answered(serial') = Answered(Noted)
    BY <1>5 DEF Answered, SameAnswers
  <1>9. CommandsDue(Noted)
            = (serial.sendState = "WaitingForPackets" /\ Answered(Noted))
    BY <1>7 DEF CommandsDue, Answered
  <1>10. IF CommandsDue(Noted)
         THEN serial'.sendState # "WaitingForPackets"
         ELSE serial'.sendState \in {serial.sendState, "ReadyToSend"}
    BY <1>4, HandleState
  <1>11. HasFinishedSynchronous(serial')
    BY <1>5 DEF SameNotes, HasFinishedSynchronous
  <1>12. serial'.sendState = "WaitingForFinish" => Answered(serial')
    BY <1>7, <1>8, <1>9, <1>10 DEF DisableInv
  <1>13. ASSUME serial'.sendState # "WaitingForPackets", Answered(serial'),
                ~serial'.canEnable,
                NEW x \in Settings, x[1] \in Enables
         PROVE  /\ cache'[x].attempted = {0}
                /\ hub'.value[x] = 0 \/ Lost(serial', rx')
                   \/ Underway(serial', x)
    <2>1. CASE CommandsDue(Noted)
      <3>1. Noted.canEnable = FALSE
        <4>1. serial.canEnable \in BOOLEAN /\ ~serial.canEnable
          BY <1>1, <1>5, <1>13 DEF SameNotes, SerialInv, Serials
        <4> QED
          BY <1>7, <4>1
      <3>2. Wanted(x, Noted.canEnable) = 0
        BY <1>13, <3>1 DEF Wanted, WithCanEnable
      <3>3. cache'[x] = Get(Ready[x], 0)
        BY <1>5, <2>1, <3>2 DEF GetAll
      <3>4. CASE MustSend(Ready[x], 0)
        <4>1. cache'[x].attempted = {0}
          BY <3>3, <3>4 DEF Get
        <4>2. Due(x, Ready, Noted.canEnable)
          BY <1>13, <3>2, <3>4 DEF Due, Enables
        <4>3. Contains(Commands, x)
          BY <1>13, <4>2, CommandsContain DEF Commands
        <4>4. Underway(serial', x)
          BY <1>4, <2>1, <4>3, HandleUnderway
        <4> QED
          BY <4>1, <4>4
      <3>5. CASE ~MustSend(Ready[x], 0)
        <4>1. cache'[x] = Ready[x] /\ Ready[x].acked = {0}
          BY <3>3, <3>5 DEF Get, MustSend
        <4>2. Settled(Ready[x], hub.value[x])
          <5> DEFINE F == Confirming(cache, hub.value)
          <5>1. rx \in Seq(F) /\ Settled(cache[x], hub.value[x])
            BY DEF AppliedInv
          <5>2. Frame \in F
            <6> HIDE DEF F
            <6> QED
              BY <5>1, HeadTailProperties DEF Frame
          <5>3. Settled(AckedBy(Frame)[x], hub.value[x])
            BY <1>1, <5>1, <5>2, AckedSettled
          <5> QED
            BY <1>1, <5>3, ReadySettled
        <4>3. PICK a \in Nat : /\ Ready[x].acked = Ready[x].attempted
                               /\ Ready[x].attempted = {a}
                               /\ Kept(a) => hub.value[x] = a % UInt16
          BY <4>1, <4>2 DEF Settled, AppliedTo
        <4>4. a = 0 /\ 0 % UInt16 = 0
          BY <4>1, <4>3 DEF UInt16
        <4>5. cache'[x].attempted = {0} /\ hub'.value[x] = 0
          BY <1>6, <4>1, <4>3, <4>4 DEF Kept
        <4> QED
          BY <4>5
      <3> QED
        BY <3>4, <3>5
    <2>2. CASE ~CommandsDue(Noted)
      <3>1. serial.sendState = "WaitingForFinish"
        <4>1. serial.sendState # "WaitingForPackets"
          BY <1>8, <1>9, <1>13, <2>2
        <4>2. serial.sendState \in SendStates
          BY <1>1 DEF SerialInv, Serials
        <4> QED
          BY <1>5, <4>1, <4>2 DEF AllowSend, SendStates
      <3>2. Answered(serial) /\ ~serial.canEnable
        BY <1>5, <1>13, <3>1 DEF DisableInv, SameNotes
      <3>3. /\ cache[x].attempted = {0}
            /\ hub.value[x] = 0 \/ Lost(serial, rx) \/ Underway(serial, x)
        BY <1>13, <3>1, <3>2 DEF DisableInv
      <3>4. cache'[x].attempted = {0}
        BY <1>1, <1>5, <2>2, <3>3, AckedFields
      <3>5. Lost(serial, rx) => Lost(serial', rx')
        <4> DEFINE a == Len(serial.tx)
                   b == Len(rx)
                   o == serial.outstandingMessages
                   c == Len(serial'.tx)
                   d == Len(rx')
                   e == serial'.outstandingMessages
        <4>1. rx \in Seq(FramesOf(TransactionRefs)) /\ serial.tx \in Seq(TP)
          BY <1>1 DEF Counting
        <4>2. a \in Nat /\ b \in Nat /\ c \in Nat /\ d = b - 1
          BY <1>5, <1>6, <4>1
        <4>3. o \in Nat /\ e \in Nat
          <5>1. serial \in Serials /\ serial' \in Serials
            BY DEF IndInv, SerialInv
          <5>2. o \in 0 .. 255 /\ e \in 0 .. 255
            BY <5>1, SerialFields
          <5> HIDE DEF o, e
          <5> QED
            BY <5>2
        <4>4. c + o = a + e + 1
          BY <1>5
        <4> HIDE DEF a, b, c, d, e, o
        <4>5. a + b < o => c + d < e
          BY <4>2, <4>3, <4>4
        <4> QED
          BY <4>5 DEF Lost, a, b, c, d, e, o
      <3>6. Underway(serial, x) => Underway(serial', x)
        BY <1>4, <2>2, HandleUnderway
      <3> QED
        BY <1>6, <3>3, <3>4, <3>5, <3>6
    <2> QED
      BY <2>1, <2>2
  <1> QED
    BY <1>11, <1>12, <1>13 DEF DisableInv

\* No answer of the synchronous steps is one of a transaction.
LEMMA HandshakeDisables ==
    ASSUME IndInv, FlowInv, DisableInv, ~HasFinishedSynchronous(serial),
           NEW remaining, HandleNext(remaining), rx # << >>
    PROVE  DisableInv'
  <1> DEFINE t == HandlePayload(serial, Frame, Commands)
  <1>1. SerialInv(serial) /\ Handshake(serial, rx) /\ ~serial.haveBattery
    BY DEF IndInv, FlowInv, DisableInv
  <1>2. Frame \in StepAnswers(serial)
    BY <1>1 DEF Handshake, OneStep, Frame
  <1>3. t = SynchronousAnswer(serial, Frame)
    BY <1>1, <1>2, HandshakeNotCounted DEF HandlePayload
  <1>4. SerialInv(t)
    <2>1. Frame \in FramesOf(RefsSoFar(serial))
      BY DEF IndInv, Frame
    <2>2. Commands \in Seq(PacketsOf(TransactionRefs))
      BY IndInvType, CommandPacketsType DEF Commands
    <2> QED
      BY <1>1, <2>1, <2>2, HandlePayloadInv
  <1>5. SynchronousAnswer(serial, Frame).sendState = serial.sendState
        /\ SynchronousAnswer(serial, Frame).haveBattery = serial.haveBattery
    BY <1>1 DEF SynchronousAnswer, RunSynchronousSteps, SendDirect, Serials,
                SerialInv
  <1>6. serial' = IF remaining = 0 THEN Flush(t) ELSE t
    BY DEF HandleNext, HandleFrame, Frame, Noted, Ready, Commands
  <1> HIDE DEF t
  <1>7. serial'.sendState = t.sendState /\ serial'.haveBattery = t.haveBattery
    BY <1>4, <1>6, FlushFields DEF SameAnswers
  <1>8. serial'.sendState = "ReadyToSend" /\ ~serial'.haveBattery
    BY <1>1, <1>3, <1>5, <1>7 DEF Handshake, AllowSend
  <1> QED
    BY <1>8 DEF DisableInv, Answered

LEMMA DaemonDisables ==
    ASSUME IndInv, IndInv', FlowInv, AppliedInv, DisableInv, Daemon
    PROVE  DisableInv'
  <1>1. CASE OnUpdateSynchronous
    <2>1. serial' = RunSynchronousSteps(serial) /\ serial \in Serials
          /\ ~HasFinishedSynchronous(serial)
      BY <1>1 DEF OnUpdateSynchronous, IndInv, SerialInv
    <2>2. serial'.sendState = serial.sendState
          /\ serial'.haveBattery = serial.haveBattery
      BY <2>1 DEF RunSynchronousSteps, SendDirect, Serials
    <2>3. serial.sendState = "ReadyToSend" /\ ~serial.haveBattery
      BY <2>1 DEF FlowInv, Handshake, AllowSend, DisableInv
    <2> QED
      BY <2>2, <2>3 DEF DisableInv, Answered
  <1>2. CASE OnUpdateSend \/ OnUpdateRecover
    <2>1. PICK s : Begins(s)
      BY <1>2, TransactionBegins
    <2>2. TypeOK
      BY IndInvType
    <2>3. /\ serial'.configuredFtdiReset = s.configuredFtdiReset
          /\ serial'.sendState = "WaitingForPackets"
      BY <2>1, <2>2, InitialPacketsType, BeginCounting DEF Begins
    <2> QED
      BY <2>1, <2>3 DEF DisableInv, HasFinishedSynchronous, Begins
  <1>3. CASE DoRead
    <2>1. PICK n \in 1 .. MaxRead : n <= Len(rx) /\ HandleNext(n - 1)
      BY <1>3 DEF DoRead
    <2>2. rx # << >>
      BY <2>1, BoundsAssumption DEF IndInv
    <2> QED
      BY <2>1, <2>2, HandleDisables, HandshakeDisables
  <1>4. CASE DoReadNext
    <2>1. rx # << >>
      BY <1>4 DEF DoReadNext, IndInv, RestOK
    <2> QED
      BY <1>4, <2>1, HandleDisables, HandshakeDisables DEF DoReadNext
  <1> QED
    BY <1>1, <1>2, <1>3, <1>4 DEF Daemon

\* The hub accepts what disables a motor or a servo.
EnablesAccepted == \A r \in Enables : <<"nack", r>> \notin Faults

LEMMA HubDisables ==
    ASSUME CountedOnly, EnablesAccepted, IndInv, FlowInv, AppliedInv,
           DisableInv, HubAndLink
    PROVE  DisableInv'
  <1>1. CASE /\ HubTakes /\ Delivered
             /\ hub' = hub \/ hub' = Perform(Head(serial.tx))
    <2> DEFINE p == Head(serial.tx)
    <2>1. /\ serial'.tx = Tail(serial.tx) /\ serial.tx # << >>
          /\ serial'.outstandingMessages = serial.outstandingMessages
          /\ serial'.writeBuffer = serial.writeBuffer
          /\ serial'.currentCount = serial.currentCount
          /\ serial'.sendState = serial.sendState
          /\ SameNotes(serial, serial') /\ SameAnswers(serial, serial')
          /\ cache' = cache
      BY <1>1, TakesFields DEF HubTakes
    <2>2. /\ HasFinishedSynchronous(serial') = HasFinishedSynchronous(serial)
          /\ Answered(serial') = Answered(serial)
          /\ serial'.haveBattery = serial.haveBattery
          /\ serial'.canEnable = serial.canEnable
      BY <2>1 DEF SameNotes, SameAnswers, Answered, HasFinishedSynchronous
    <2>3. ASSUME serial.sendState # "WaitingForPackets", Answered(serial),
                 ~serial.canEnable, NEW x \in Settings, x[1] \in Enables
          PROVE  /\ cache[x].attempted = {0}
                 /\ hub'.value[x] = 0 \/ Lost(serial', rx')
                    \/ Underway(serial', x)
      <3>1. /\ cache[x].attempted = {0}
            /\ hub.value[x] = 0 \/ Lost(serial, rx) \/ Underway(serial, x)
        BY <2>3 DEF DisableInv
      <3>2. HasFinishedSynchronous(serial)
        BY <2>3 DEF DisableInv, Answered
      <3>3. Counting(serial, rx, loopDue)
        BY <3>2 DEF FlowInv
      <3>4. \/ rx' = rx
            \/ \E kind \in {"reply", "nack", "corrupt"} :
                   /\ rx' = Append(rx, Answer(kind, p))
                   /\ kind # "nack" => hub' = Perform(p)
        BY <1>1, <3>3, TakesCounting
      <3>5. /\ serial.tx \in Seq(PacketsOf(TransactionRefs))
            /\ rx \in Seq(FramesOf(TransactionRefs))
            /\ Len(serial.tx) + Len(rx) <= serial.outstandingMessages
        BY <3>3 DEF Counting
      <3>6. Len(rx') = Len(rx) \/ Len(rx') = Len(rx) + 1
        BY <3>4, <3>5, AppendProperties
      <3> DEFINE a == Len(serial.tx)
                 b == Len(rx)
                 o == serial.outstandingMessages
                 c == Len(serial'.tx)
                 d == Len(rx')
      <3>7. /\ a \in Nat /\ b \in Nat /\ c = a - 1 /\ o \in 0 .. 255
            /\ d = b \/ d = b + 1
            /\ a + b <= o
        <4>1. o \in 0 .. 255
          BY SerialFields DEF IndInv, SerialInv
        <4>2. c = a - 1 /\ a \in Nat /\ b \in Nat
          BY <2>1, <3>5
        <4> QED
          BY <3>5, <3>6, <4>1, <4>2
      <3>8. /\ Lost(serial, rx) => Lost(serial', rx')
            /\ rx' = rx => Lost(serial', rx')
        <4>1. rx' = rx => d = b
          OBVIOUS
        <4> HIDE DEF a, b, c, d, o
        <4>2. (a + b < o => c + d < o) /\ (d = b => c + d < o)
          BY <3>7
        <4> QED
          BY <2>1, <4>1, <4>2 DEF Lost, a, b, c, d, o
      <3>9. /\ p \in PacketsOf(Refs)
            /\ <<p.ref, p.ch>> \in Settings
                  => AttemptIs(cache[<<p.ref, p.ch>>], p.val)
        <4> DEFINE P == Carrying(cache)
        <4>1. serial.tx \in Seq(P)
          BY DEF AppliedInv, Holds
        <4>2. p \in P
          <5> HIDE DEF P
          <5> QED
            BY <2>1, <4>1, HeadTailProperties
        <4> QED
          BY <4>2 DEF Carrying
      <3> HIDE DEF p
      <3>10. x = <<p.ref, p.ch>> => p.val = 0
        <4>1. 0 % UInt16 = 0
          BY DEF UInt16
        <4> QED
          BY <3>1, <3>9, <4>1 DEF AttemptIs
      <3>11. hub' = Perform(p) => hub'.value[x] =
                 IF x = <<p.ref, p.ch>> THEN p.val ELSE hub.value[x]
        BY DEF Perform
      <3>12. hub.value[x] = 0 => hub'.value[x] = 0
        BY <1>1, <3>10, <3>11 DEF p
      <3>13. x = <<p.ref, p.ch>> => hub'.value[x] = 0 \/ rx' = rx
        <4> SUFFICES ASSUME x = <<p.ref, p.ch>>, rx' # rx
                     PROVE  hub'.value[x] = 0
          OBVIOUS
        <4>1. p.ref \in Enables
          BY <2>3
        <4>2. p.ref # "DISCOVER" /\ <<"nack", p.ref>> \notin Faults
          BY <4>1 DEF Enables, EnablesAccepted
        <4>3. hub' = Perform(p)
          BY <1>1, <4>2 DEF Delivered, CountedOnly, p
        <4> QED
          BY <3>10, <3>11, <4>3
      <3>14. Underway(serial, x) =>
                 Underway(serial', x) \/ x = <<p.ref, p.ch>>
        BY <2>1, <3>5, ContainsTail DEF Underway, Unwritten, p
      <3> QED
        BY <3>1, <3>8, <3>12, <3>13, <3>14
    <2>4. DisableInv
      OBVIOUS
    <2> QED
      BY <2>1, <2>2, <2>3, <2>4 DEF DisableInv
  <1>2. CASE HubResets
    <2>1. /\ serial' = serial /\ rx' = rx /\ cache' = cache
          /\ hub'.value = [x \in Settings |-> 0]
      <3>1. PoweredUp.value = [x \in Settings |-> 0]
        BY DEF PoweredUp
      <3>2. hub'.value = PoweredUp.value
        BY <1>2 DEF HubResets, PoweredUp
      <3> QED
        BY <1>2, <3>1, <3>2 DEF HubResets
    <2> QED
      BY <2>1 DEF DisableInv, Answered, Lost, Underway, Unwritten, Contains
  <1> QED
    BY <1>1, <1>2, HubPerforms

\* Once a transaction that began with the watchdog off has sent its commands
\* and is over, nothing is enabled on the hub (GetWithCanEnable), however
\* many packets are lost or corrupted and however often the hub restarts, as
\* long as the hub does not refuse to be disabled.
THEOREM DisabledAfterwards ==
    ASSUME CountedOnly, NeverStalls, EnablesAccepted
    PROVE  Spec => []DisabledWhenDone
  <1>1. Init => DisableInv
    BY DisableInit
  <1>2. IndInv /\ IndInv' /\ FlowInv /\ AppliedInv /\ DisableInv
            /\ [Next]_vars => DisableInv'
    <2> SUFFICES ASSUME IndInv, IndInv', FlowInv, AppliedInv, DisableInv,
                        [Next]_vars
                 PROVE  DisableInv'
      OBVIOUS
    <2>1. CASE SecondPasses \/ Client \/ UNCHANGED vars
      <3>1. /\ serial'.tx = serial.tx
            /\ serial'.writeBuffer = serial.writeBuffer
            /\ serial'.currentCount = serial.currentCount
            /\ serial'.outstandingMessages = serial.outstandingMessages
            /\ serial'.sendState = serial.sendState
            /\ serial'.canEnable = serial.canEnable
            /\ serial'.configuredFtdiReset = serial.configuredFtdiReset
            /\ SameAnswers(serial, serial')
            /\ UNCHANGED <<cache, rx, hub>>
        BY <2>1, ElsewhereUnchanged
      <3> QED
        BY <3>1 DEF DisableInv, Answered, Lost, Underway, Unwritten,
                    HasFinishedSynchronous, SameAnswers
    <2> QED
      BY <2>1, DaemonDisables, HubDisables DEF Next
  <1>3. IndInv /\ FlowInv /\ DisableInv => DisabledWhenDone
    <2> SUFFICES ASSUME IndInv, FlowInv, DisableInv, AllowSend(serial),
                        ~serial.canEnable, Answered(serial),
                        NEW x \in Settings, x[1] \in Enables
                 PROVE  hub.value[x] = 0
      BY DEF DisabledWhenDone, Answered
    <2>1. HasFinishedSynchronous(serial)
      BY DEF DisableInv, Answered
    <2>2. Counting(serial, rx, loopDue) /\ SerialInv(serial)
          /\ serial.outstandingMessages = 0 /\ serial.pendingWrites = 0
      BY <2>1 DEF FlowInv, Counting, IndInv, SerialInv
    <2>3. serial.tx = << >> /\ rx = << >>
      BY <2>1, NothingOnItsWay
    <2>4. ~Lost(serial, rx)
      BY <2>2, <2>3 DEF Lost
    <2>5. ~Contains(serial.tx, x)
      BY <2>3 DEF Contains
    <2>6. ~Unwritten(serial, x)
      <3>1. Len(serial.writeBuffer) = serial.currentCount
            /\ serial.currentCount \in Nat
        BY <2>2, SerialFields DEF SerialInv
      <3> QED
        BY <3>1 DEF Unwritten
    <2> QED
      BY <2>4, <2>5, <2>6 DEF DisableInv, AllowSend, Underway
  <1> QED
    BY <1>1, <1>2, <1>3, Inductive, FlowInductive, AppliedInductive, PTL
    DEF Spec
=============================================================================
