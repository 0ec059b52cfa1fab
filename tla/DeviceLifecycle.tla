--------------------------- MODULE DeviceLifecycle ---------------------------
(***************************************************************************)
(* How hubs come and go: SystemDUsbMonitor, OpenRhspSerialPort, the static *)
(* OnDeviceAdded and OnDeviceRemoved of expansionhub/main.cpp, and the     *)
(* Initialize and destructor of ExpansionHubSerial.                        *)
(*                                                                         *)
(* The monitor is started, then what is plugged in is enumerated, then     *)
(* events are handled one by one; all of it on the loop thread, while      *)
(* devices are plugged in and out.  The daemon may end at any moment and   *)
(* is started again (ExpansionHub.service).  udev, the kernel's serial     *)
(* ports and libuv are not in this repository: events come in the order    *)
(* they happen, a serial port keeps its name while it is open, an          *)
(* unplugged port hangs up, which makes libuv stop its poller, and libuv   *)
(* refuses a second poller for a descriptor that has one.                  *)
(***************************************************************************)
EXTENDS Naturals, Sequences

CONSTANTS
    Sockets,           \* USB positions: does the path start with "3-1.", and
                       \* its last digit
    Kinds,             \* kinds of devices that are plugged in
    Names,             \* names of serial ports (ttyUSB0, ...)
    Fds,               \* file descriptors
    MaxPlugs,          \* bound: how often a device is plugged in
    MaxFailures,       \* bound: how often open() or Poll::Create fails
    MaxRestarts        \* bound: how often the daemon ends

\* What the walk from the serial port to its USB device meets.
AllKinds == {"hub", "unknown model", "no model", "no ftdi", "no bridge"}

\* NUM_USB_BUSES.
Buses == 0 .. 3

\* The bus number is the last digit of the USB path, counted from '1'.
HasBus(s) == s.root /\ s.last \in 1 .. 4
BusNum(s) == s.last - 1

ASSUME SocketsAssumption ==
    /\ Sockets \subseteq [root : BOOLEAN, last : Nat]
    /\ \A s, t \in Sockets :
           HasBus(s) /\ HasBus(t) /\ BusNum(s) = BusNum(t) => s = t
ASSUME KindsAssumption == Kinds \subseteq AllKinds
ASSUME LifecycleBounds ==
    MaxPlugs \in Nat /\ MaxFailures \in Nat /\ MaxRestarts \in Nat

VARIABLES
    plugged,           \* the device in every socket
    plugs,             \* devices plugged in so far; each has a number of its own
    phase,             \* what the daemon is doing
    events,            \* events of the monitor that are not handled yet
    found,             \* enumerated devices that are not handled yet
    states,            \* currentHub of every bus
    connected,         \* last value of the connected topic, {} before the first
    fds,               \* open descriptors of serial ports
    poller,            \* the poller libuv holds for a descriptor
    refused,           \* devices whose port could not be opened
    left               \* what is left of the bounds

vars == <<plugged, plugs, phase, events, found, states, connected, fds, poller,
          refused, left>>

NoDevice == [id |-> 0, name |-> 0, kind |-> "none"]
Devices == [id : 1 .. MaxPlugs, name : Names, kind : Kinds]

\* path: serialPath, fd: serialFd, device: the device behind the descriptor.
NoHub == [path |-> 0, fd |-> 0, device |-> 0]
Hubs == [path : Names, fd : Fds, device : 1 .. MaxPlugs]

Actions == {"add", "bind", "unbind", "remove"}
Events == [action : Actions, socket : Sockets, name : Names]
Found == [socket : Sockets, name : Names]
Phases == {"down", "monitoring", "enumerating", "running"}

LifecycleTypeOK ==
    /\ plugged \in [Sockets -> Devices \cup {NoDevice}]
    /\ plugs \in 0 .. MaxPlugs
    /\ phase \in Phases
    /\ events \in Seq(Events)
    /\ found \subseteq Found
    /\ states \in [Buses -> Hubs \cup {NoHub}]
    /\ connected \in [Buses -> SUBSET BOOLEAN]
    /\ fds \subseteq Fds
    /\ poller \in [Fds -> {"none", "live", "dangling"}]
    /\ refused \subseteq 1 .. MaxPlugs
    /\ left \in [failures : 0 .. MaxFailures, restarts : 0 .. MaxRestarts]

(***************************************************************************)
(* Plugging in and out.                                                    *)
(***************************************************************************)

\* Mutant: the monitor starts after the enumeration.
MonitorsWhenRunning == phase = "running"

\* Events are recorded from sd_device_monitor_start on.
Monitors == phase # "down"

Notify(actions, s, name) ==
    events' = IF Monitors
              THEN events \o [i \in 1 .. 2 |->
                                [action |-> actions[i], socket |-> s,
                                 name |-> name]]
              ELSE events

HasHub(b) == states[b] # NoHub

\* A name is free when no device has it and no descriptor keeps it.
FreeName(n) ==
    /\ \A s \in Sockets : plugged[s] # NoDevice => plugged[s].name # n
    /\ \A b \in Buses : HasHub(b) => states[b].path # n

Plug(s) ==
    /\ plugged[s] = NoDevice
    /\ plugs < MaxPlugs
    /\ \E k \in Kinds, n \in Names :
           /\ FreeName(n)
           /\ plugged' = [plugged EXCEPT
                              ![s] = [id |-> plugs + 1, name |-> n,
                                      kind |-> k]]
           /\ Notify(<<"add", "bind">>, s, n)
    /\ plugs' = plugs + 1
    /\ UNCHANGED <<phase, found, states, connected, fds, poller, refused, left>>

\* The port hangs up: libuv stops the poller on it.
Unplug(s) ==
    /\ plugged[s] # NoDevice
    /\ plugged' = [plugged EXCEPT ![s] = NoDevice]
    /\ Notify(<<"unbind", "remove">>, s, plugged[s].name)
    /\ poller' = [f \in Fds |->
                     IF /\ poller[f] = "live"
                        /\ \E b \in Buses : /\ HasHub(b) /\ states[b].fd = f
                                            /\ states[b].device = plugged[s].id
                     THEN "none" ELSE poller[f]]
    /\ UNCHANGED <<plugs, phase, found, states, connected, fds, refused, left>>

(***************************************************************************)
(* A device is added.                                                      *)
(***************************************************************************)

\* Devices that SystemDUsbMonitor::OnDeviceAdded passes on: an unknown model
\* is only reported.
Serves(kind) == kind \in {"hub", "unknown model"}

\* The walk to the parents goes through what is plugged in now.
Accepted(s) ==
    plugged[s] # NoDevice /\ Serves(plugged[s].kind) /\ HasBus(s)

Spend(bound) == left[bound] > 0 /\ left' = [left EXCEPT ![bound] = @ - 1]

\* A device that is not passed on, or whose bus has a hub already.
AddIgnored(s) ==
    /\ Accepted(s) => HasHub(BusNum(s))
    /\ UNCHANGED <<states, connected, fds, poller, refused, left>>

\* OpenRhspSerialPort fails: there is no such port, or open() or tcsetattr()
\* gives an error.
OpenFails(s, n) ==
    /\ Accepted(s) /\ ~HasHub(BusNum(s))
    /\ \/ /\ \A t \in Sockets : plugged[t] # NoDevice => plugged[t].name # n
          /\ UNCHANGED <<refused, left>>
       \/ \E t \in Sockets :
              /\ plugged[t] # NoDevice /\ plugged[t].name = n
              /\ Spend("failures")
              /\ refused' = refused \cup {plugged[t].id}
    /\ UNCHANGED <<states, connected, fds, poller>>

\* Poll::Create in ExpansionHubSerial::Initialize.  The result of Initialize
\* is only reported.
PollCreate(f) ==
    \/ /\ poller[f] = "none"
       /\ poller' = [poller EXCEPT ![f] = "live"]
       /\ UNCHANGED left
    \/ poller[f] # "none" /\ UNCHANGED <<poller, left>>
    \/ poller[f] = "none" /\ Spend("failures") /\ UNCHANGED poller

\* Mutant: the hub does not remember its serialPath.
HubWithoutPath(n, f, d) == [path |-> 0, fd |-> f, device |-> d]

NewHub(n, f, d) == [path |-> n, fd |-> f, device |-> d]

\* The port opens: Initialize, then ExpansionHubState::OnDeviceAdded.
Opens(s, n) ==
    /\ Accepted(s) /\ ~HasHub(BusNum(s))
    /\ \E t \in Sockets, f \in Fds \ fds :
           /\ plugged[t] # NoDevice /\ plugged[t].name = n
           /\ fds' = fds \cup {f}
           /\ PollCreate(f)
           /\ states' = [states EXCEPT
                             ![BusNum(s)] = NewHub(n, f, plugged[t].id)]
    /\ connected' = [connected EXCEPT ![BusNum(s)] = {TRUE}]
    /\ UNCHANGED refused

OnDeviceAdded(s, n) == AddIgnored(s) \/ OpenFails(s, n) \/ Opens(s, n)

(***************************************************************************)
(* A device is removed.                                                    *)
(***************************************************************************)

\* Mutant: only the first bus is told.
UsersOnFirstBus(n) == {b \in 0 .. 0 : HasHub(b) /\ states[b].path = n}

\* The buses whose hub uses the port that was removed.
UsersOf(n) == {b \in Buses : HasHub(b) /\ states[b].path = n}

\* Mutant: the descriptor stays open.
KeepOpen(B) == fds

\* The descriptors that stay open when the hubs of some buses are destroyed.
CloseFds(B) == fds \ {states[b].fd : b \in B}

\* Mutant: the connected topic stays as it is.
StillConnected(B) == connected

Disconnect(B) == [b \in Buses |-> IF b \in B THEN {FALSE} ELSE connected[b]]

\* serialPoll is never assigned, so the destructor stops no poller.
OnDeviceRemoved(n) ==
    LET B == UsersOf(n)
        closed == {states[b].fd : b \in B}
    IN  /\ states' = [b \in Buses |-> IF b \in B THEN NoHub ELSE states[b]]
        /\ connected' = Disconnect(B)
        /\ fds' = CloseFds(B)
        /\ poller' = [f \in Fds |->
                         IF f \in closed /\ poller[f] = "live"
                         THEN "dangling" ELSE poller[f]]
        /\ UNCHANGED <<refused, left>>

(***************************************************************************)
(* The daemon's life.                                                      *)
(***************************************************************************)

\* SystemDUsbMonitor::Initialize succeeds in a daemon that was started.
StartMonitor ==
    /\ phase = "down"
    /\ phase' = "monitoring"
    /\ UNCHANGED <<plugged, plugs, events, found, states, connected, fds,
                   poller, refused, left>>

\* DoInitialCheck lists what is plugged in.
Enumerate ==
    /\ phase = "monitoring"
    /\ phase' = "enumerating"
    /\ found' = {[socket |-> s, name |-> plugged[s].name] :
                    s \in {t \in Sockets : plugged[t] # NoDevice}}
    /\ UNCHANGED <<plugged, plugs, events, states, connected, fds, poller,
                   refused, left>>

\* One iteration of DoInitialCheck.
EnumerateNext ==
    /\ phase = "enumerating"
    /\ \E d \in found : /\ found' = found \ {d}
                        /\ OnDeviceAdded(d.socket, d.name)
    /\ UNCHANGED <<plugged, plugs, phase, events>>

EnumerateDone ==
    /\ phase = "enumerating" /\ found = {}
    /\ phase' = "running"
    /\ UNCHANGED <<plugged, plugs, events, found, states, connected, fds,
                   poller, refused, left>>

\* HandleEvent runs DeviceHandler for the next event: of the four actions
\* only two are acted on.
HandleEvent ==
    /\ phase = "running" /\ events # << >>
    /\ LET e == Head(events)
       IN  \/ e.action = "bind" /\ OnDeviceAdded(e.socket, e.name)
           \/ e.action = "remove" /\ OnDeviceRemoved(e.name)
           \/ /\ e.action \in {"add", "unbind"}
              /\ UNCHANGED <<states, connected, fds, poller, refused, left>>
    /\ events' = Tail(events)
    /\ UNCHANGED <<plugged, plugs, phase, found>>

\* The daemon ends, by a failing start, a signal or a crash.  Its descriptors
\* are closed and its topics are no longer published.
DaemonEnds ==
    /\ phase # "down"
    /\ Spend("restarts")
    /\ phase' = "down"
    /\ events' = << >>
    /\ found' = {}
    /\ states' = [b \in Buses |-> NoHub]
    /\ connected' = [b \in Buses |-> {}]
    /\ fds' = {}
    /\ poller' = [f \in Fds |-> "none"]
    /\ UNCHANGED <<plugged, plugs, refused>>

Init ==
    /\ plugged = [s \in Sockets |-> NoDevice]
    /\ plugs = 0
    /\ phase = "down"
    /\ events = << >>
    /\ found = {}
    /\ states = [b \in Buses |-> NoHub]
    /\ connected = [b \in Buses |-> {}]
    /\ fds = {}
    /\ poller = [f \in Fds |-> "none"]
    /\ refused = {}
    /\ left = [failures |-> MaxFailures, restarts |-> MaxRestarts]

Daemon == StartMonitor \/ Enumerate \/ EnumerateNext \/ EnumerateDone
              \/ HandleEvent

Next == \/ Daemon \/ DaemonEnds
        \/ \E s \in Sockets : Plug(s) \/ Unplug(s)

Spec == Init /\ [][Next]_vars

\* The service is started again whenever it ends, and its loop runs.
FairSpec == Spec /\ WF_vars(Daemon)

(***************************************************************************)
(* Properties.                                                             *)
(***************************************************************************)

\* Every descriptor that OpenRhspSerialPort returned is owned by exactly one
\* hub or was closed: dropped duplicates, replaced hubs and removals leak
\* none, and close() never hits a descriptor of another hub.
DescriptorsOwned ==
    /\ fds = {states[b].fd : b \in {c \in Buses : HasHub(c)}}
    /\ \A b, c \in Buses :
           HasHub(b) /\ HasHub(c) /\ states[b].fd = states[c].fd => b = c

\* The connected topic that isHubConnected() reads tells whether the bus has
\* a hub, through every order of duplicates and removals.
ConnectedTruth == \A b \in Buses : connected[b] = {TRUE} <=> HasHub(b)


\* The device each bus talks to, 0 for none.
Served == [b \in Buses |-> states[b].device]

Presence == INSTANCE HubPresence WITH
    Bus <- Buses, Socket <- Sockets, Kind <- {"hub", "unknown model"},
    BusOf <- [s \in {t \in Sockets : HasBus(t)} |-> BusNum(s)],
    present <- plugged, served <- Served, refused <- refused

\* Whenever the daemon has handled all its events, every bus serves the
\* device in its socket and nothing else.  On the way there a late event may
\* make a bus open the port of another socket's device, or two buses open the
\* same one: the events still to come undo it.
CaughtUp == phase = "running" /\ events = << >> => Presence!Settled

\* The daemon keeps the promise of HubPresence: once nothing is plugged in or
\* out any more, every bus serves the hub in its socket, although the
\* enumeration races the monitor and events are handled late.
ServesWhatIsPlugged == Presence!Spec
=============================================================================
