-------------------------- MODULE PowerDistribution --------------------------
(***************************************************************************)
(* The power distribution service (powerdistribution/main.cpp): one CAN    *)
(* socket per bus with a filter in the kernel, whose frames are sorted     *)
(* into the four frame topics of the bus.                                  *)
(*                                                                         *)
(* The bus carries frames of any device.  CAN itself, the socket's queue   *)
(* and the poller are external: frames on a bound bus that pass the filter *)
(* are read one by one in their order.  Identifiers are numbers and are    *)
(* taken apart the way the code does it; what they mean (device type,      *)
(* manufacturer, API and device number of an FRC device) only appears in   *)
(* the properties.                                                         *)
(***************************************************************************)
EXTENDS Integers, Sequences

CONSTANTS
    Frames,            \* frames that appear on a bus
    MaxFrames,         \* bound: frames on the buses
    MaxStarts          \* bound: how often the service is started

\* NUM_CAN_BUSES.
CanBuses == 0 .. 1
Slots == 0 .. 3

\* The fields of a 29-bit identifier.
Ids == [type : 0 .. 31, manufacturer : 0 .. 255, api : 0 .. 1023,
        device : 0 .. 63]

\* fields: of the identifier; eff, rtr and err: CAN_EFF_FLAG, CAN_RTR_FLAG (a
\* remote frame) and CAN_ERR_FLAG; size: what read() returns.
AllFrames == [fields : Ids, eff : BOOLEAN, rtr : BOOLEAN, err : BOOLEAN,
              size : {"CAN_MTU", "CANFD_MTU", "other"}]

ASSUME FramesAssumption == Frames \subseteq AllFrames
ASSUME PdBounds == MaxFrames \in Nat /\ MaxStarts \in Nat \ {0}

VARIABLES
    phase,             \* of the service
    socket,            \* the socket of every bus
    wire,              \* frames on every bus since it was bound; history
    queue,             \* frames in the socket's queue
    frame,             \* the frame every topic holds, as a sequence of length 1
    deviceId,          \* the last value of the deviceid topic, {} before the first
    left               \* what is left of the bounds

vars == <<phase, socket, wire, queue, frame, deviceId, left>>

PdTypeOK ==
    /\ phase \in {"down", "starting", "running"}
    /\ socket \in [CanBuses -> {"none", "open", "polled"}]
    /\ wire \in [CanBuses -> Seq(AllFrames)]
    /\ queue \in [CanBuses -> Seq(AllFrames)]
    /\ frame \in [CanBuses -> [Slots -> Seq(AllFrames)]]
    /\ deviceId \in [CanBuses -> SUBSET Int]
    /\ left \in 0 .. MaxStarts

(***************************************************************************)
(* Identifiers.                                                            *)
(***************************************************************************)

\* The identifier as the number that can_id holds without its flags.
CanId(f) == f.fields.type * 16777216 + f.fields.manufacturer * 65536
                + f.fields.api * 64 + f.fields.device

\* Mutant: the filter looks at all bits of the manufacturer.
FilterOneManufacturer(f) == f.eff /\ CanId(f) \div 65536 = 2052

\* The filter 0x08040000 with the mask 0x1FFE0000, and CAN_EFF_FLAG.  Neither
\* it nor a mask below looks at bit 30, CAN_RTR_FLAG.
Filter(f) == f.eff /\ CanId(f) \div 131072 = 1026

\* can_id & 0x3F000000 = 0x08000000; bit 29 is CAN_ERR_FLAG.
IsPowerDistribution(f) == CanId(f) \div 16777216 = 8 /\ ~f.err

ApiId(f) == (CanId(f) \div 64) % 1024

\* can_id & 0x10000.
IsRev(f) == (CanId(f) \div 65536) % 2 = 1

\* Mutant: the range of CTRE frames goes up to the special case.
IsValidUpTo5D(f) ==
    IF IsRev(f) THEN ApiId(f) \in 96 .. 99
                ELSE ApiId(f) \in 80 .. 93

\* The frames for which handlePowerFrame does not return at once.
IsValid(f) ==
    IF IsRev(f) THEN ApiId(f) \in 96 .. 99
                ELSE ApiId(f) = 93 \/ ApiId(f) \in 80 .. 82

\* frameNum of a valid frame.
FrameNum(f) == IF IsRev(f) THEN ApiId(f) - 96
               ELSE IF ApiId(f) = 93 THEN 3 ELSE ApiId(f) - 80

\* Mutant: the manufacturer is cut off, too.
DeviceNumberOnly(f) == CanId(f) % 64

\* can_id & 0x1FFF003F.
DeviceId(f) == (CanId(f) \div 65536) * 65536 + (CanId(f) % 64)

(***************************************************************************)
(* Frames.                                                                 *)
(***************************************************************************)

\* A frame on a bus that the service is bound to.
Transmit(b, f) ==
    /\ socket[b] # "none"
    /\ Len(wire[0]) + Len(wire[1]) < MaxFrames
    /\ wire' = [wire EXCEPT ![b] = Append(@, f)]
    /\ queue' = [queue EXCEPT ![b] = IF Filter(f) THEN Append(@, f) ELSE @]
    /\ UNCHANGED <<phase, socket, frame, deviceId, left>>

\* What the callback of the poller passes to handleCanFrame, and that to
\* handlePowerFrame: neither error frames nor FD frames nor broken reads, but
\* remote frames like data frames.
Handled(f) == f.size = "CAN_MTU" /\ ~f.err /\ IsPowerDistribution(f)

\* The callback reads and handles one frame.
PollReadable(b) ==
    /\ phase = "running" /\ queue[b] # << >>
    /\ LET f == Head(queue[b])
       IN  IF Handled(f) /\ IsValid(f)
           THEN /\ deviceId' = [deviceId EXCEPT ![b] = {DeviceId(f)}]
                /\ frame' = IF FrameNum(f) \in Slots
                            THEN [frame EXCEPT ![b][FrameNum(f)] = <<f>>]
                            ELSE frame
           ELSE UNCHANGED <<frame, deviceId>>
    /\ queue' = [queue EXCEPT ![b] = Tail(@)]
    /\ UNCHANGED <<phase, socket, wire, left>>

(***************************************************************************)
(* Start and end of the service.                                           *)
(***************************************************************************)

NewTopics ==
    /\ wire' = [b \in CanBuses |-> << >>]
    /\ queue' = [b \in CanBuses |-> << >>]
    /\ frame' = [b \in CanBuses |-> [k \in Slots |-> << >>]]
    /\ deviceId' = [b \in CanBuses |-> {}]

ServiceStarts ==
    /\ phase = "down" /\ left > 0
    /\ phase' = "starting"
    /\ left' = left - 1
    /\ NewTopics
    /\ UNCHANGED socket

\* Mutant: the loop goes on when a bus fails.
AnyBus(b) == phase = "starting" /\ socket[b] = "none"

\* The loop of ExecSync: bus after bus.
NextBus(b) ==
    /\ phase = "starting" /\ socket[b] = "none"
    /\ \A c \in CanBuses : c < b => socket[c] = "polled"

\* startUvLoop up to bind(); frames arrive from there on.
BindSocket(b) ==
    /\ NextBus(b)
    /\ socket' = [socket EXCEPT ![b] = "open"]
    /\ UNCHANGED <<phase, wire, queue, frame, deviceId, left>>

\* Poll::Create and Start.
CreatePoll(b) ==
    /\ phase = "starting" /\ socket[b] = "open"
    /\ socket' = [socket EXCEPT ![b] = "polled"]
    /\ phase' = IF b = 1 THEN "running" ELSE phase
    /\ UNCHANGED <<wire, queue, frame, deviceId, left>>

\* A step of startUvLoop failed, so main() stops the loop and returns -1; or
\* it was told to end.  ~CanState closes every socket that was opened.
ServiceEnds ==
    /\ phase # "down"
    /\ phase' = "down"
    /\ socket' = [b \in CanBuses |-> "none"]
    /\ UNCHANGED <<wire, queue, frame, deviceId, left>>

Init ==
    /\ phase = "down"
    /\ socket = [b \in CanBuses |-> "none"]
    /\ wire = [b \in CanBuses |-> << >>]
    /\ queue = [b \in CanBuses |-> << >>]
    /\ frame = [b \in CanBuses |-> [k \in Slots |-> << >>]]
    /\ deviceId = [b \in CanBuses |-> {}]
    /\ left = MaxStarts

Next ==
    \/ ServiceStarts \/ ServiceEnds
    \/ \E b \in CanBuses :
           \/ BindSocket(b) \/ CreatePoll(b) \/ PollReadable(b)
           \/ \E f \in Frames : Transmit(b, f)

Spec == Init /\ [][Next]_vars

(***************************************************************************)
(* Properties.                                                             *)
(***************************************************************************)

\* The frames with a status identifier of a REV (5) or CTRE (4) power
\* distribution device (8), in terms of the fields of the identifier, and the
\* topic each belongs to.  They are status frames, or remote frames that ask
\* for one: the code does not tell these apart.
StatusSlot(f) ==
    LET api == f.fields.api
    IN  IF ~f.eff \/ f.err \/ f.size # "CAN_MTU" \/ f.fields.type # 8 THEN -1
        ELSE IF f.fields.manufacturer = 5 /\ api \in 96 .. 99 THEN api - 96
        ELSE IF f.fields.manufacturer = 4 /\ api \in 80 .. 82 THEN api - 80
        ELSE IF f.fields.manufacturer = 4 /\ api = 93 THEN 3
        ELSE -1

\* The last of the frames on a bus that belong to one of some topics.
LastOnWire(b, slots) ==
    LET I == {i \in DOMAIN wire[b] : StatusSlot(wire[b][i]) \in slots}
    IN  IF I = {} THEN << >>
        ELSE <<wire[b][CHOOSE i \in I : \A j \in I : j <= i]>>

CaughtUp(b) == phase = "running" /\ queue[b] = << >>

\* A topic holds frames with a status identifier of its own kind only, whatever
\* is on the bus: the kernel's filter, the masks and the ranges together tell
\* the classic frames with a status identifier of the two manufacturers, data
\* and remote frames alike, from everything else.
SlotsHoldTheirKind ==
    \A b \in CanBuses, k \in Slots :
        frame[b][k] # << >> => StatusSlot(frame[b][k][1]) = k

\* Once the frames in the queue are read, every topic holds the last frame with
\* a status identifier of its kind that was on its bus, be it a data frame or a
\* remote frame: none is missed, overtaken or put on the other bus.
SlotsCurrent ==
    \A b \in CanBuses, k \in Slots :
        CaughtUp(b) => frame[b][k] = LastOnWire(b, {k})

\* deviceid is the device in the identifier of the last frame with a status
\* identifier, also when two devices share a bus: type, manufacturer and device
\* number with an API of 0.
DeviceIdCurrent ==
    \A b \in CanBuses :
        LET last == LastOnWire(b, Slots)
        IN  CaughtUp(b) =>
                IF last = << >> THEN deviceId[b] = {}
                ELSE deviceId[b] = {CanId([last[1] EXCEPT !.fields.api = 0])}

\* The case that prints "BUGBUG logic error invalid frame number", after it has
\* published a device id without a frame, cannot happen.
NoLogicError ==
    \A b \in CanBuses, i \in 1 .. MaxFrames :
        i \in DOMAIN queue[b] /\ Handled(queue[b][i]) /\ IsValid(queue[b][i])
            => FrameNum(queue[b][i]) \in Slots

\* The service runs with all its buses or not at all.
ServesAllBuses ==
    phase = "running" => \A b \in CanBuses : socket[b] = "polled"
=============================================================================
