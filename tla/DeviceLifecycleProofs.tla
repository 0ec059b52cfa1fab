------------------------ MODULE DeviceLifecycleProofs ------------------------
(***************************************************************************)
(* Proofs about DeviceLifecycle, for every set of sockets, names and       *)
(* descriptors and all bounds: descriptors are owned, the connected topic  *)
(* is right, the daemon implements the safety part of HubPresence, and it  *)
(* serves what is plugged in whenever it has handled its events.           *)
(***************************************************************************)
EXTENDS DeviceLifecycle, SequenceTheorems, TLAPS

(***************************************************************************)
(* The inductive invariant.                                                *)
(***************************************************************************)

\* Hubs, descriptors and the connected topic change together.
OwnedInv == DescriptorsOwned /\ ConnectedTruth

LifecycleInv == LifecycleTypeOK /\ OwnedInv

\* The variables that only the daemon's handlers change.
handled == <<states, connected, fds, poller, refused, left>>

\* The part of the type invariant about them.
HandledTypeOK ==
    /\ states \in [Buses -> Hubs \cup {NoHub}]
    /\ connected \in [Buses -> SUBSET BOOLEAN]
    /\ fds \subseteq Fds
    /\ poller \in [Fds -> {"none", "live", "dangling"}]
    /\ refused \subseteq 1 .. MaxPlugs
    /\ left \in [failures : 0 .. MaxFailures, restarts : 0 .. MaxRestarts]

\* The number of a socket that has a bus is one of the buses.
LEMMA BusNumIsBus == ASSUME NEW s \in Sockets, HasBus(s) PROVE BusNum(s) \in Buses
  BY SocketsAssumption DEF HasBus, BusNum, Buses

\* Spending a bound keeps the type of what is left.
LEMMA SpendTyped ==
    ASSUME left \in [failures : 0 .. MaxFailures, restarts : 0 .. MaxRestarts],
           NEW k \in {"failures", "restarts"}, Spend(k)
    PROVE  left' \in [failures : 0 .. MaxFailures, restarts : 0 .. MaxRestarts]
  BY LifecycleBounds DEF Spend

\* A device that is plugged in has a number and a name.
LEMMA DeviceTyped ==
    ASSUME LifecycleTypeOK, NEW s \in Sockets, plugged[s] # NoDevice
    PROVE  plugged[s].id \in 1 .. MaxPlugs /\ plugged[s].name \in Names
  BY DEF LifecycleTypeOK, Devices

\* A hub has a descriptor and a device; without one the device is 0.
LEMMA HubTyped ==
    ASSUME HandledTypeOK, NEW b \in Buses
    PROVE  /\ HasHub(b) => states[b].fd \in Fds /\ states[b].device \in 1 .. MaxPlugs
           /\ ~HasHub(b) => states[b].device = 0
  BY DEF HandledTypeOK, HasHub, Hubs, NoHub

(***************************************************************************)
(* A device is added.                                                      *)
(***************************************************************************)

\* Opens in terms of the variables: a free descriptor becomes the hub's.
LEMMA OpensHub ==
    ASSUME LifecycleTypeOK, NEW s \in Sockets, NEW n \in Names, Opens(s, n)
    PROVE  \E b \in Buses, f \in Fds \ fds, t \in Sockets :
               /\ ~HasHub(b)
               /\ plugged[t] # NoDevice
               /\ fds' = fds \cup {f}
               /\ states' = [states EXCEPT
                                 ![b] = [path |-> n, fd |-> f,
                                         device |-> plugged[t].id]]
               /\ connected' = [connected EXCEPT ![b] = {TRUE}]
               /\ PollCreate(f)
               /\ UNCHANGED refused
  BY BusNumIsBus DEF Opens, Accepted, NewHub

\* OnDeviceAdded keeps the types.
LEMMA AddedTyped ==
    ASSUME LifecycleTypeOK, NEW s \in Sockets, NEW n \in Names,
           OnDeviceAdded(s, n)
    PROVE  HandledTypeOK'
<1>0. \A t \in Sockets : plugged[t] # NoDevice => plugged[t].id \in 1 .. MaxPlugs
  BY DeviceTyped
<1> USE DEF LifecycleTypeOK
<1>1. CASE AddIgnored(s)
  BY <1>1 DEF AddIgnored, HandledTypeOK
<1>2. CASE OpenFails(s, n)
  <2>0. refused' = refused \/ \E t \in Sockets : /\ plugged[t] # NoDevice
                                               /\ refused' = refused \cup {plugged[t].id}
    BY <1>2 DEF OpenFails
  <2>1. refused' \subseteq 1 .. MaxPlugs
    <3>1. CASE refused' = refused
      BY <3>1
    <3>2. CASE \E t \in Sockets : /\ plugged[t] # NoDevice
                                  /\ refused' = refused \cup {plugged[t].id}
      BY <1>0, <3>2
    <3> QED BY <2>0, <3>1, <3>2
  <2>2. left' \in [failures : 0 .. MaxFailures, restarts : 0 .. MaxRestarts]
    BY <1>2, SpendTyped DEF OpenFails
  <2> QED BY <1>2, <2>1, <2>2 DEF OpenFails, HandledTypeOK
<1>3. CASE Opens(s, n)
  <2>1. PICK b \in Buses, f \in Fds \ fds, t \in Sockets :
               /\ ~HasHub(b)
               /\ plugged[t] # NoDevice
               /\ fds' = fds \cup {f}
               /\ states' = [states EXCEPT
                                 ![b] = [path |-> n, fd |-> f,
                                         device |-> plugged[t].id]]
               /\ connected' = [connected EXCEPT ![b] = {TRUE}]
               /\ PollCreate(f)
               /\ UNCHANGED refused
    BY <1>3, OpensHub
  <2>2. [path |-> n, fd |-> f, device |-> plugged[t].id] \in Hubs
    BY <1>0, <2>1 DEF Hubs
  <2>3. poller' \in [Fds -> {"none", "live", "dangling"}]
    BY <2>1 DEF PollCreate
  <2>4. left' \in [failures : 0 .. MaxFailures, restarts : 0 .. MaxRestarts]
    BY <2>1, SpendTyped DEF PollCreate
  <2> QED BY <2>1, <2>2, <2>3, <2>4 DEF HandledTypeOK
<1> QED BY <1>1, <1>2, <1>3 DEF OnDeviceAdded

\* OnDeviceAdded gives a new hub a descriptor of its own and reports it.
LEMMA AddedOwned ==
    ASSUME LifecycleInv, NEW s \in Sockets, NEW n \in Names,
           OnDeviceAdded(s, n)
    PROVE  OwnedInv'
<1> USE DEF LifecycleInv, OwnedInv
<1>1. CASE AddIgnored(s)
  BY <1>1 DEF AddIgnored, DescriptorsOwned, ConnectedTruth, HasHub
<1>2. CASE OpenFails(s, n)
  BY <1>2 DEF OpenFails, DescriptorsOwned, ConnectedTruth, HasHub
<1>3. CASE Opens(s, n)
  <2>1. PICK b \in Buses, f \in Fds \ fds, t \in Sockets :
               /\ ~HasHub(b)
               /\ plugged[t] # NoDevice
               /\ fds' = fds \cup {f}
               /\ states' = [states EXCEPT
                                 ![b] = [path |-> n, fd |-> f,
                                         device |-> plugged[t].id]]
               /\ connected' = [connected EXCEPT ![b] = {TRUE}]
    BY <1>3, OpensHub
  <2>2. states \in [Buses -> Hubs \cup {NoHub}]
        /\ connected \in [Buses -> SUBSET BOOLEAN]
    BY DEF LifecycleTypeOK
  <2>3. /\ states'[b].fd = f
        /\ states'[b].device = plugged[t].id
        /\ \A c \in Buses \ {b} : states'[c] = states[c]
        /\ connected'[b] = {TRUE}
        /\ \A c \in Buses \ {b} : connected'[c] = connected[c]
    BY <2>1, <2>2
  <2>4. states'[b] # NoHub
    <3>1. plugged[t].id # 0 /\ NoHub.device = 0
      BY <2>1, DeviceTyped, LifecycleBounds DEF NoHub
    <3> QED BY <2>3, <3>1
  <2>5. \A c \in Buses : HasHub(c) => states[c].fd \in fds
    BY DEF DescriptorsOwned
  <2>6. DescriptorsOwned'
    BY <2>1, <2>3, <2>4, <2>5 DEF DescriptorsOwned, HasHub
  <2>7. ConnectedTruth'
    BY <2>3, <2>4 DEF ConnectedTruth, HasHub
  <2> QED BY <2>6, <2>7
<1> QED BY <1>1, <1>2, <1>3 DEF OnDeviceAdded

(***************************************************************************)
(* A device is removed.                                                    *)
(***************************************************************************)

\* OnDeviceRemoved keeps the types.
LEMMA RemovedTyped ==
    ASSUME LifecycleTypeOK, NEW n \in Names, OnDeviceRemoved(n)
    PROVE  HandledTypeOK'
  BY DEF LifecycleTypeOK, HandledTypeOK, OnDeviceRemoved, Disconnect, CloseFds

\* OnDeviceRemoved closes the descriptors of the hubs it destroys and no other.
LEMMA RemovedOwned ==
    ASSUME LifecycleInv, NEW n \in Names, OnDeviceRemoved(n)
    PROVE  OwnedInv'
<1> DEFINE B == UsersOf(n)
<1>1. B \subseteq Buses /\ \A b \in B : HasHub(b)
  BY DEF UsersOf
<1>2. /\ \A b \in B : states'[b] = NoHub
      /\ \A b \in Buses \ B : states'[b] = states[b]
      /\ \A b \in B : connected'[b] = {FALSE}
      /\ \A b \in Buses \ B : connected'[b] = connected[b]
      /\ fds' = fds \ {states[b].fd : b \in B}
  BY <1>1 DEF OnDeviceRemoved, Disconnect, CloseFds
<1> HIDE DEF B
<1>3. DescriptorsOwned /\ ConnectedTruth
  BY DEF LifecycleInv, OwnedInv
<1>4. DescriptorsOwned'
  BY <1>1, <1>2, <1>3 DEF DescriptorsOwned, HasHub
<1>5. {FALSE} # {TRUE}
  OBVIOUS
<1>6. ConnectedTruth'
  BY <1>1, <1>2, <1>3, <1>5 DEF ConnectedTruth, HasHub
<1> QED BY <1>4, <1>6 DEF OwnedInv

(***************************************************************************)
(* Every step.                                                             *)
(***************************************************************************)

\* Steps that leave hubs, descriptors and topics alone.
LEMMA HandledUnchanged ==
    ASSUME LifecycleInv, UNCHANGED handled
    PROVE  HandledTypeOK' /\ OwnedInv'
<1>1. HandledTypeOK'
  BY DEF LifecycleInv, LifecycleTypeOK, HandledTypeOK, handled
<1>2. DescriptorsOwned'
  BY DEF LifecycleInv, OwnedInv, DescriptorsOwned, HasHub, handled
<1>3. ConnectedTruth'
  BY DEF LifecycleInv, OwnedInv, ConnectedTruth, HasHub, handled
<1> QED BY <1>1, <1>2, <1>3 DEF OwnedInv

\* Events keep their type when two are added.
LEMMA NotifyTyped ==
    ASSUME events \in Seq(Events), NEW s \in Sockets, NEW n \in Names,
           NEW acts, acts[1] \in Actions, acts[2] \in Actions,
           Notify(acts, s, n)
    PROVE  events' \in Seq(Events)
<1> DEFINE two == [i \in 1 .. 2 |-> [action |-> acts[i], socket |-> s, name |-> n]]
<1>1. \A i \in 1 .. 2 : acts[i] \in Actions
  OBVIOUS
<1>2. \A i \in 1 .. 2 : two[i] \in Events
  BY <1>1 DEF Events
<1>3. two \in Seq(Events)
  <2>1. two \in [1 .. 2 -> Events]
    BY <1>2
  <2> HIDE DEF two
  <2> QED BY <2>1, SeqDef
<1> HIDE DEF two
<1>4. events' = events \o two \/ events' = events
  BY DEF Notify, two
<1>5. events \o two \in Seq(Events)
  BY <1>3, ConcatProperties
<1> QED BY <1>4, <1>5

\* A device is plugged in.
LEMMA PlugStep ==
    ASSUME LifecycleInv, NEW s \in Sockets, Plug(s) PROVE LifecycleInv'
<1>1. HandledTypeOK' /\ OwnedInv'
  BY HandledUnchanged DEF Plug, handled
<1>2. PICK k \in Kinds, n \in Names :
          /\ plugged' = [plugged EXCEPT ![s] = [id |-> plugs + 1, name |-> n, kind |-> k]]
          /\ Notify(<<"add", "bind">>, s, n)
  BY DEF Plug
<1>3. plugs + 1 \in 1 .. MaxPlugs
  BY LifecycleBounds DEF Plug, LifecycleInv, LifecycleTypeOK
<1>4. plugged' \in [Sockets -> Devices \cup {NoDevice}]
  <2>1. [id |-> plugs + 1, name |-> n, kind |-> k] \in Devices
    BY <1>3 DEF Devices
  <2> QED BY <1>2, <2>1 DEF LifecycleInv, LifecycleTypeOK
<1>5. events' \in Seq(Events)
  BY <1>2, NotifyTyped DEF LifecycleInv, LifecycleTypeOK, Actions
<1>6. plugs' \in 0 .. MaxPlugs /\ phase' = phase /\ found' = found
  BY <1>3 DEF Plug
<1> QED BY <1>1, <1>4, <1>5, <1>6 DEF LifecycleInv, LifecycleTypeOK, HandledTypeOK

\* A device is unplugged: of what the daemon has only the pollers change.
LEMMA UnplugStep ==
    ASSUME LifecycleInv, NEW s \in Sockets, Unplug(s) PROVE LifecycleInv'
<1>1. plugged[s].name \in Names
  BY DeviceTyped DEF LifecycleInv, Unplug
<1>2. events' \in Seq(Events)
  BY <1>1, NotifyTyped DEF LifecycleInv, LifecycleTypeOK, Actions, Unplug
<1>3. plugged' \in [Sockets -> Devices \cup {NoDevice}]
  BY DEF Unplug, LifecycleInv, LifecycleTypeOK
<1>4. poller' \in [Fds -> {"none", "live", "dangling"}]
  BY DEF Unplug, LifecycleInv, LifecycleTypeOK
<1>5. OwnedInv'
  BY DEF Unplug, LifecycleInv, OwnedInv, DescriptorsOwned, ConnectedTruth, HasHub
<1> QED BY <1>2, <1>3, <1>4, <1>5 DEF LifecycleInv, LifecycleTypeOK, Unplug

\* The daemon starts, or is done with the enumeration.
LEMMA PhaseStep ==
    ASSUME LifecycleInv, StartMonitor \/ Enumerate \/ EnumerateDone
    PROVE  LifecycleInv'
<1>1. HandledTypeOK' /\ OwnedInv'
  BY HandledUnchanged DEF StartMonitor, Enumerate, EnumerateDone, handled
<1>2. phase' \in Phases
  BY DEF StartMonitor, Enumerate, EnumerateDone, Phases
<1>3. found' \subseteq Found
  <2>1. CASE Enumerate
    <3>1. \A t \in Sockets : plugged[t] # NoDevice => plugged[t].name \in Names
      BY DeviceTyped DEF LifecycleInv
    <3> QED BY <2>1, <3>1 DEF Enumerate, Found
  <2>2. CASE StartMonitor \/ EnumerateDone
    BY <2>2 DEF StartMonitor, EnumerateDone, LifecycleInv, LifecycleTypeOK
  <2> QED BY <2>1, <2>2
<1>4. UNCHANGED <<plugged, plugs, events>>
  BY DEF StartMonitor, Enumerate, EnumerateDone
<1> QED BY <1>1, <1>2, <1>3, <1>4 DEF LifecycleInv, LifecycleTypeOK, HandledTypeOK

\* One enumerated device is handled.
LEMMA EnumerateStep ==
    ASSUME LifecycleInv, EnumerateNext PROVE LifecycleInv'
<1>1. PICK d \in found : found' = found \ {d} /\ OnDeviceAdded(d.socket, d.name)
  BY DEF EnumerateNext
<1>2. d.socket \in Sockets /\ d.name \in Names
  BY DEF LifecycleInv, LifecycleTypeOK, Found
<1>3. HandledTypeOK' /\ OwnedInv'
  BY <1>1, <1>2, AddedTyped, AddedOwned DEF LifecycleInv
<1>4. found' \subseteq Found /\ UNCHANGED <<plugged, plugs, phase, events>>
  BY <1>1 DEF EnumerateNext, LifecycleInv, LifecycleTypeOK
<1> QED BY <1>3, <1>4 DEF LifecycleInv, LifecycleTypeOK, HandledTypeOK

\* The next event is an event.
LEMMA HeadTyped ==
    ASSUME LifecycleTypeOK, events # << >>
    PROVE  /\ Head(events) \in Events
           /\ Head(events).socket \in Sockets
           /\ Head(events).name \in Names
           /\ Tail(events) \in Seq(Events)
<1>1. Head(events) \in Events /\ Tail(events) \in Seq(Events)
  BY DEF LifecycleTypeOK
<1> QED BY <1>1 DEF Events

\* One event is handled.
LEMMA HandleEventStep ==
    ASSUME LifecycleInv, HandleEvent PROVE LifecycleInv'
<1> DEFINE e == Head(events)
<1>1. e.socket \in Sockets /\ e.name \in Names /\ Tail(events) \in Seq(Events)
  BY HeadTyped DEF LifecycleInv, HandleEvent
<1>2. \/ OnDeviceAdded(e.socket, e.name) \/ OnDeviceRemoved(e.name)
      \/ UNCHANGED handled
  BY DEF HandleEvent, handled
<1> HIDE DEF e
<1>3. HandledTypeOK' /\ OwnedInv'
  BY <1>1, <1>2, AddedTyped, AddedOwned, RemovedTyped, RemovedOwned,
     HandledUnchanged DEF LifecycleInv
<1>4. events' \in Seq(Events) /\ UNCHANGED <<plugged, plugs, phase, found>>
  BY <1>1 DEF HandleEvent
<1> QED BY <1>3, <1>4 DEF LifecycleInv, LifecycleTypeOK, HandledTypeOK

\* The end of the daemon takes all of its hubs and descriptors along.
LEMMA DaemonEndsStep ==
    ASSUME LifecycleInv, DaemonEnds PROVE LifecycleInv'
<1>1. left' \in [failures : 0 .. MaxFailures, restarts : 0 .. MaxRestarts]
  BY SpendTyped DEF DaemonEnds, LifecycleInv, LifecycleTypeOK
<1>2. events' \in Seq(Events)
  BY DEF DaemonEnds
<1>3. LifecycleTypeOK'
  BY <1>1, <1>2 DEF DaemonEnds, LifecycleInv, LifecycleTypeOK, Phases
<1>4. DescriptorsOwned'
  BY DEF DaemonEnds, DescriptorsOwned, HasHub
<1>5. ConnectedTruth'
  BY DEF DaemonEnds, ConnectedTruth, HasHub
<1> QED BY <1>3, <1>4, <1>5 DEF LifecycleInv, OwnedInv

\* Nothing is open and nothing is connected before the daemon starts.
LEMMA LifecycleInit == Init => LifecycleInv
<1> SUFFICES ASSUME Init PROVE LifecycleInv
  OBVIOUS
<1>1. events \in Seq(Events)
  BY DEF Init
<1>2. LifecycleTypeOK
  BY <1>1, LifecycleBounds DEF Init, LifecycleTypeOK, Phases
<1>3. DescriptorsOwned
  BY DEF Init, DescriptorsOwned, HasHub
<1>4. ConnectedTruth
  BY DEF Init, ConnectedTruth, HasHub
<1> QED BY <1>2, <1>3, <1>4 DEF LifecycleInv, OwnedInv

\* Every step keeps the invariant.
LEMMA LifecycleNext == LifecycleInv /\ [Next]_vars => LifecycleInv'
<1> SUFFICES ASSUME LifecycleInv, [Next]_vars PROVE LifecycleInv'
  OBVIOUS
<1>1. CASE UNCHANGED vars
  <2>1. HandledTypeOK' /\ OwnedInv'
    BY <1>1, HandledUnchanged DEF vars, handled
  <2> QED BY <1>1, <2>1 DEF vars, LifecycleInv, LifecycleTypeOK, HandledTypeOK
<1>2. CASE Daemon
  BY <1>2, PhaseStep, EnumerateStep, HandleEventStep DEF Daemon
<1>3. CASE DaemonEnds
  BY <1>3, DaemonEndsStep
<1>4. CASE \E s \in Sockets : Plug(s) \/ Unplug(s)
  BY <1>4, PlugStep, UnplugStep
<1> QED BY <1>1, <1>2, <1>3, <1>4 DEF Next

\* Every variable keeps its type.
THEOREM LifecycleTypeCorrect == Spec => []LifecycleTypeOK
<1>1. LifecycleInv => LifecycleTypeOK
  BY DEF LifecycleInv
<1> QED BY LifecycleInit, LifecycleNext, <1>1, PTL DEF Spec

\* No descriptor leaks and none is closed under another hub, for any number
\* of sockets, devices, restarts and failures.
THEOREM NoDescriptorLeaks == Spec => []DescriptorsOwned
<1>1. LifecycleInv => DescriptorsOwned
  BY DEF LifecycleInv, OwnedInv
<1> QED BY LifecycleInit, LifecycleNext, <1>1, PTL DEF Spec

\* isHubConnected() is true exactly for the buses that have a hub.
THEOREM ConnectedIsTrue == Spec => []ConnectedTruth
<1>1. LifecycleInv => ConnectedTruth
  BY DEF LifecycleInv, OwnedInv
<1> QED BY LifecycleInit, LifecycleNext, <1>1, PTL DEF Spec

(***************************************************************************)
(* The daemon implements HubPresence.                                      *)
(***************************************************************************)

\* The abstract variables do not change.
PresenceStutters == UNCHANGED <<plugged, Served, refused>>

\* Handlers that change no hub are stutters.
LEMMA ServedUnchanged == ASSUME UNCHANGED states PROVE Served' = Served
  BY DEF Served

\* A device in a socket is one of the abstract devices.
LEMMA DeviceIsAbstract ==
    ASSUME LifecycleTypeOK, NEW t \in Sockets, plugged[t] # NoDevice
    PROVE  plugged[t].id \in Presence!Devices
  BY DeviceTyped DEF Presence!Devices

\* OnDeviceAdded attaches a device to a free bus, is refused its port, or does
\* nothing.
LEMMA AddedImplements ==
    ASSUME LifecycleTypeOK, UNCHANGED plugged, NEW s \in Sockets, NEW n \in Names,
           OnDeviceAdded(s, n)
    PROVE  Presence!Next \/ PresenceStutters
<1>1. CASE AddIgnored(s)
  BY <1>1, ServedUnchanged DEF AddIgnored, PresenceStutters
<1>2. CASE OpenFails(s, n)
  <2>1. Served' = Served
    BY <1>2, ServedUnchanged DEF OpenFails
  <2>2. CASE UNCHANGED refused
    BY <2>1, <2>2 DEF PresenceStutters
  <2>3. CASE \E t \in Sockets : /\ plugged[t] # NoDevice
                                /\ refused' = refused \cup {plugged[t].id}
    <3>1. PICK t \in Sockets : /\ plugged[t] # NoDevice
                               /\ refused' = refused \cup {plugged[t].id}
      BY <2>3
    <3>2. plugged[t].id \in Presence!Devices
      BY <3>1, DeviceIsAbstract
    <3>3. Presence!Refuse
      BY <2>1, <3>1, <3>2 DEF Presence!Refuse
    <3> QED BY <3>3 DEF Presence!Next
  <2> QED BY <1>2, <2>2, <2>3 DEF OpenFails
<1>3. CASE Opens(s, n)
  <2>1. PICK b \in Buses, f \in Fds \ fds, t \in Sockets :
               /\ ~HasHub(b)
               /\ plugged[t] # NoDevice
               /\ states' = [states EXCEPT
                                 ![b] = [path |-> n, fd |-> f,
                                         device |-> plugged[t].id]]
               /\ UNCHANGED refused
    BY <1>3, OpensHub
  <2>2. states \in [Buses -> Hubs \cup {NoHub}]
    BY DEF LifecycleTypeOK
  <2>3. Served[b] = 0
    BY <2>1 DEF Served, HasHub, NoHub
  <2>4. Served' = [Served EXCEPT ![b] = plugged[t].id]
    BY <2>1, <2>2 DEF Served
  <2>5. plugged[t].id \in Presence!Devices
    BY <2>1, DeviceIsAbstract
  <2>6. Presence!Attach(b)
    BY <2>1, <2>3, <2>4, <2>5 DEF Presence!Attach
  <2> QED BY <2>6 DEF Presence!Next
<1> QED BY <1>1, <1>2, <1>3 DEF OnDeviceAdded

\* Hubs that go are devices that are released, and nothing else changes.
LEMMA ReleaseImplements ==
    ASSUME UNCHANGED <<plugged, refused>>, NEW B \in SUBSET Buses,
           states' = [b \in Buses |-> IF b \in B THEN NoHub ELSE states[b]]
    PROVE  Presence!Next
<1>1. \A b \in Buses : Served'[b] \in {0, Served[b]}
  BY DEF Served, NoHub
<1>2. Served' \in [Buses -> {0} \cup {Served[b] : b \in Buses}]
  BY <1>1 DEF Served
<1>3. Presence!Release
  BY <1>1, <1>2 DEF Presence!Release
<1> QED BY <1>3 DEF Presence!Next

\* Every step of the daemon and of the world around it is a step of
\* HubPresence or changes nothing that HubPresence sees.
LEMMA StepImplements ==
    ASSUME LifecycleTypeOK, [Next]_vars
    PROVE  Presence!Next \/ PresenceStutters
<1>1. CASE UNCHANGED <<plugged, states, refused>>
  BY <1>1, ServedUnchanged DEF PresenceStutters
<1>2. CASE EnumerateNext
  <2>1. PICK d \in found : OnDeviceAdded(d.socket, d.name)
    BY <1>2 DEF EnumerateNext
  <2>2. d.socket \in Sockets /\ d.name \in Names
    BY DEF LifecycleTypeOK, Found
  <2> QED BY <1>2, <2>1, <2>2, AddedImplements DEF EnumerateNext
<1>3. CASE HandleEvent
  <2> DEFINE e == Head(events)
  <2>1. e.socket \in Sockets /\ e.name \in Names
    BY <1>3, HeadTyped DEF HandleEvent
  <2>2. \/ OnDeviceAdded(e.socket, e.name) \/ OnDeviceRemoved(e.name)
        \/ UNCHANGED <<states, refused>>
    BY <1>3 DEF HandleEvent
  <2>3. UNCHANGED plugged
    BY <1>3 DEF HandleEvent
  <2> HIDE DEF e
  <2>4. CASE OnDeviceAdded(e.socket, e.name)
    BY <2>1, <2>3, <2>4, AddedImplements
  <2>5. CASE OnDeviceRemoved(e.name)
    <3>1. UsersOf(e.name) \in SUBSET Buses
      BY DEF UsersOf
    <3> QED BY <2>3, <2>5, <3>1, ReleaseImplements DEF OnDeviceRemoved
  <2>6. CASE UNCHANGED <<states, refused>>
    BY <1>1, <2>3, <2>6
  <2> QED BY <2>2, <2>4, <2>5, <2>6
<1>4. CASE DaemonEnds
  <2>1. states' = [b \in Buses |-> IF b \in Buses THEN NoHub ELSE states[b]]
    BY <1>4 DEF DaemonEnds
  <2> QED BY <1>4, <2>1, ReleaseImplements DEF DaemonEnds
<1>5. CASE \E s \in Sockets : Plug(s) \/ Unplug(s)
  <2>1. PICK s \in Sockets : Plug(s) \/ Unplug(s)
    BY <1>5
  <2>2. \A t \in Sockets \ {s} : plugged'[t] = plugged[t]
    BY <2>1 DEF Plug, Unplug, LifecycleTypeOK
  <2>3. Served' = Served /\ UNCHANGED refused
    BY <2>1, ServedUnchanged DEF Plug, Unplug
  <2>4. Presence!PlugOrUnplug(s)
    BY <2>2, <2>3 DEF Presence!PlugOrUnplug
  <2> QED BY <2>4 DEF Presence!Next
<1>6. CASE StartMonitor \/ Enumerate \/ EnumerateDone \/ UNCHANGED vars
  BY <1>1, <1>6 DEF StartMonitor, Enumerate, EnumerateDone, vars
<1> QED BY <1>2, <1>3, <1>4, <1>5, <1>6 DEF Next, Daemon

\* The daemon implements the safety part of HubPresence, for every set of
\* sockets and names: a bus never changes over from one device to another
\* without letting go of the first, and only serves devices that are there
\* when it opens them.
THEOREM ImplementsPresence == Spec => Presence!Safety
<1>1. Init => Presence!Init
  BY DEF Init, Presence!Init, Served, NoHub
<1>2. LifecycleInv /\ [Next]_vars => [Presence!Next]_(Presence!vars)
  BY StepImplements DEF LifecycleInv, PresenceStutters, Presence!vars
<1> QED BY LifecycleInit, LifecycleNext, <1>1, <1>2, PTL DEF Spec, Presence!Safety

(***************************************************************************)
(* Why the daemon catches up: what is still wrong about a hub, or still    *)
(* missing, has an event of its own in the queue, and these events come in *)
(* an order that puts it right.                                            *)
(***************************************************************************)

\* The two events that are acted on, at a place in the queue.
BindAt(q, i, s, n) ==
    /\ i \in 1 .. Len(q)
    /\ q[i].action = "bind" /\ q[i].socket = s /\ q[i].name = n
RemoveAt(q, i, n) ==
    i \in 1 .. Len(q) /\ q[i].action = "remove" /\ q[i].name = n

\* The event of the device that is in the socket now: nothing takes it back.
LiveAt(q, k, s, n) ==
    /\ BindAt(q, k, s, n)
    /\ \A j \in 1 .. Len(q) : RemoveAt(q, j, n) => j < k

\* A device with some name is in a socket; a hub of a socket's bus uses a name.
Holds(s, n) == plugged[s] # NoDevice /\ plugged[s].name = n
Uses(s, n) == HasBus(s) /\ HasHub(BusNum(s)) /\ states[BusNum(s)].path = n

\* Two devices have two names.
NamesDiffer ==
    \A s, t \in Sockets, n \in Names : Holds(s, n) /\ Holds(t, n) => s = t

\* A removal that is late, of an earlier device with the name, comes before
\* the device that has the name now.
LateRemoval ==
    \A s \in Sockets, n \in Names, j \in 1 .. Len(events) :
        Holds(s, n) /\ RemoveAt(events, j, n) =>
            \E i \in 1 .. Len(events) : j < i /\ BindAt(events, i, s, n)

\* A hub whose removal is not in the queue is that of the device in the socket.
HubsRight ==
    \A b \in Buses :
        HasHub(b) =>
            \/ \E j \in 1 .. Len(events) : RemoveAt(events, j, states[b].path)
            \/ \E s \in Sockets :
                   /\ HasBus(s) /\ BusNum(s) = b /\ Accepted(s)
                   /\ Holds(s, states[b].path)
                   /\ states[b].device = plugged[s].id

\* A device that ought to be served is, or will be looked at.
WillServe ==
    \A s \in Sockets, n \in Names :
        Accepted(s) /\ Holds(s, n) =>
            \/ phase \in {"down", "monitoring"}
            \/ [socket |-> s, name |-> n] \in found
            \/ \E i \in 1 .. Len(events) : BindAt(events, i, s, n)
            \/ plugged[s].id \in refused
            \/ Uses(s, n) /\ states[BusNum(s)].device = plugged[s].id

\* The hub in its way is removed before.
WayIsClear ==
    \A s \in Sockets, n, m \in Names, k, j \in 1 .. Len(events) :
        /\ Holds(s, n) /\ LiveAt(events, k, s, n)
        /\ Uses(s, m) /\ RemoveAt(events, j, m)
        => \E i \in 1 .. Len(events) : i < k /\ RemoveAt(events, i, m)

\* What is after the place i about an earlier device m of the socket s.
TakenBack(s, m, i) ==
    /\ \E j \in 1 .. Len(events) : i < j /\ RemoveAt(events, j, m)
    /\ \A n \in Names, k \in 1 .. Len(events) :
           Holds(s, n) /\ LiveAt(events, k, s, n) /\ i < k =>
               \E j \in 1 .. Len(events) : i < j /\ j < k /\ RemoveAt(events, j, m)

\* An event or an enumerated device that is out of date is taken back.
StaleBinds ==
    \A s \in Sockets, m \in Names, i \in 1 .. Len(events) :
        BindAt(events, i, s, m) => Holds(s, m) \/ TakenBack(s, m, i)
StaleFound ==
    \A d \in found : Holds(d.socket, d.name) \/ TakenBack(d.socket, d.name, 0)

\* The enumeration meets every socket once, and no hub before it.
FoundOnce ==
    /\ \A d, e \in found : d.socket = e.socket => d = e
    /\ \A d \in found : HasBus(d.socket) => ~HasHub(BusNum(d.socket))

\* What there is in each phase.
PhaseInv ==
    /\ phase = "down" => events = << >>
    /\ phase \in {"down", "monitoring"} => \A b \in Buses : ~HasHub(b)
    /\ phase # "enumerating" => found = {}

QueueInv ==
    /\ NamesDiffer /\ LateRemoval /\ HubsRight /\ WillServe /\ WayIsClear
    /\ StaleBinds /\ StaleFound /\ FoundOnce /\ PhaseInv

(***************************************************************************)
(* Queues: places, taking the first event off and adding two.              *)
(***************************************************************************)

LEMMA Places ==
    ASSUME NEW q, Len(q) \in Nat
    PROVE  /\ \A i, s, n : BindAt(q, i, s, n) => i \in 1 .. Len(q) /\ i \in Nat
           /\ \A i, n : RemoveAt(q, i, n) => i \in 1 .. Len(q) /\ i \in Nat
           /\ \A i, j, s, n, m : BindAt(q, i, s, n) /\ RemoveAt(q, j, m) => i # j
<1>1. \A i \in 1 .. Len(q) : i \in Nat
  OBVIOUS
<1> QED BY <1>1 DEF BindAt, RemoveAt

LEMMA EmptyQueue ==
    /\ \A i, s, n : ~BindAt(<< >>, i, s, n)
    /\ \A i, n : ~RemoveAt(<< >>, i, n)
  BY DEF BindAt, RemoveAt

LEMMA ShiftedPlaces ==
    ASSUME NEW q \in Seq(Events), q # << >>
    PROVE  /\ \A i \in Nat : \A s, n :
                  BindAt(Tail(q), i, s, n) <=> i # 0 /\ BindAt(q, i + 1, s, n)
           /\ \A i \in Nat : \A n :
                  RemoveAt(Tail(q), i, n) <=> i # 0 /\ RemoveAt(q, i + 1, n)
           /\ Len(q) \in Nat /\ Len(Tail(q)) \in Nat
<1> DEFINE r == Tail(q)
           L == Len(r)
<1>1. L \in Nat /\ Len(q) = L + 1 /\ \A i \in 1 .. L : r[i] = q[i + 1]
  OBVIOUS
<1>2. L = Len(r)
  OBVIOUS
<1> HIDE DEF r, L
<1>3. \A i \in Nat : i \in 1 .. L <=> i # 0 /\ i + 1 \in 1 .. L + 1
  BY <1>1
<1>4. \A i \in Nat : \A s, n :
          BindAt(r, i, s, n) <=> i # 0 /\ BindAt(q, i + 1, s, n)
  BY <1>1, <1>2, <1>3 DEF BindAt
<1>5. \A i \in Nat : \A n : RemoveAt(r, i, n) <=> i # 0 /\ RemoveAt(q, i + 1, n)
  BY <1>1, <1>2, <1>3 DEF RemoveAt
<1> QED BY <1>1, <1>2, <1>4, <1>5 DEF r

LEMMA AddedPlaces ==
    ASSUME events \in Seq(Events), NEW s, NEW n, NEW acts,
           Monitors, Notify(acts, s, n)
    PROVE  /\ acts[1] = "add" /\ acts[2] = "bind" =>
                  /\ \A i, t, m : BindAt(events', i, t, m) <=>
                         \/ BindAt(events, i, t, m)
                         \/ i = Len(events) + 2 /\ t = s /\ m = n
                  /\ \A i, m : RemoveAt(events', i, m) <=> RemoveAt(events, i, m)
           /\ acts[1] = "unbind" /\ acts[2] = "remove" =>
                  /\ \A i, t, m : BindAt(events', i, t, m)
                                      <=> BindAt(events, i, t, m)
                  /\ \A i, m : RemoveAt(events', i, m) <=>
                         \/ RemoveAt(events, i, m)
                         \/ i = Len(events) + 2 /\ m = n
           /\ Len(events) \in Nat /\ Len(events') = Len(events) + 2
<1> DEFINE E(i) == [action |-> acts[i], socket |-> s, name |-> n]
           two == [i \in 1 .. 2 |-> E(i)]
           r == events \o two
           L == Len(events)
<1>1. events' = r
  BY DEF Notify
<1>2. Len(two) = 2 /\ two[1] = E(1) /\ two[2] = E(2)
  OBVIOUS
<1>3. L \in Nat /\ Len(r) = L + 2 /\ r[L + 1] = E(1) /\ r[L + 2] = E(2)
      /\ \A i \in 1 .. L : r[i] = events[i]
  <2>1. two \in Seq({E(1), E(2)})
    OBVIOUS
  <2> QED BY <1>2, <2>1
<1>4. /\ E(1).action = acts[1] /\ E(2).action = acts[2]
      /\ E(2).socket = s /\ E(2).name = n
  OBVIOUS
<1>5. Len(events) = L
  OBVIOUS
<1> HIDE DEF r, L, E, two
<1>6. \A i : i \in 1 .. L + 2 <=> i \in 1 .. L \/ i = L + 1 \/ i = L + 2
  BY <1>3
<1>7. L + 1 \notin 1 .. L /\ L + 2 \notin 1 .. L /\ L + 1 # L + 2
  BY <1>3
<1>8. ASSUME acts[1] = "add", acts[2] = "bind"
      PROVE  /\ \A i, t, m : BindAt(events', i, t, m) <=>
                    \/ BindAt(events, i, t, m)
                    \/ i = L + 2 /\ t = s /\ m = n
             /\ \A i, m : RemoveAt(events', i, m) <=> RemoveAt(events, i, m)
  BY <1>1, <1>3, <1>4, <1>5, <1>6, <1>7, <1>8 DEF BindAt, RemoveAt
<1>9. ASSUME acts[1] = "unbind", acts[2] = "remove"
      PROVE  /\ \A i, t, m : BindAt(events', i, t, m) <=> BindAt(events, i, t, m)
             /\ \A i, m : RemoveAt(events', i, m) <=>
                    \/ RemoveAt(events, i, m)
                    \/ i = L + 2 /\ m = n
  BY <1>1, <1>3, <1>4, <1>5, <1>6, <1>7, <1>9 DEF BindAt, RemoveAt
<1> QED BY <1>1, <1>3, <1>5, <1>8, <1>9

\* A queue whose first event is handled, whatever it is: the others keep
\* their order.
LEMMA ShiftedOrder ==
    ASSUME LifecycleTypeOK, LateRemoval, StaleBinds, events # << >>,
           events' = Tail(events), UNCHANGED plugged
    PROVE  /\ LateRemoval' /\ StaleBinds'
           /\ \A s \in Sockets, n \in Names : Holds(s, n)' <=> Holds(s, n)
           /\ \A k \in Nat : \A s, n :
                  LiveAt(events', k, s, n) => LiveAt(events, k + 1, s, n)
<1>1. /\ \A i \in Nat : \A s, n :
             BindAt(events', i, s, n) <=> i # 0 /\ BindAt(events, i + 1, s, n)
      /\ \A i \in Nat : \A n :
             RemoveAt(events', i, n) <=> i # 0 /\ RemoveAt(events, i + 1, n)
      /\ Len(events) \in Nat /\ Len(events') \in Nat
  BY ShiftedPlaces DEF LifecycleTypeOK
<1>2. /\ \A i, s, n : BindAt(events, i, s, n) =>
             i \in 1 .. Len(events) /\ i \in Nat
      /\ \A i, n : RemoveAt(events, i, n) =>
             i \in 1 .. Len(events) /\ i \in Nat
  BY <1>1, Places
<1>3. /\ \A i, s, n : BindAt(events', i, s, n) =>
             i \in 1 .. Len(events') /\ i \in Nat
      /\ \A i, n : RemoveAt(events', i, n) =>
             i \in 1 .. Len(events') /\ i \in Nat
  BY <1>1, Places
<1>4. \A s \in Sockets, n \in Names : Holds(s, n)' <=> Holds(s, n)
  BY DEF Holds
<1>5. ASSUME NEW k \in Nat, NEW s, NEW n, LiveAt(events', k, s, n)
      PROVE  LiveAt(events, k + 1, s, n)
  <2>1. BindAt(events, k + 1, s, n) /\ k # 0
    BY <1>1, <1>5 DEF LiveAt
  <2>2. ASSUME NEW j \in 1 .. Len(events), RemoveAt(events, j, n)
        PROVE  j < k + 1
    <3>1. CASE j = 1
      BY <2>1, <3>1
    <3>2. CASE j # 1
      <4>1. j - 1 \in Nat /\ j - 1 # 0 /\ (j - 1) + 1 = j
        BY <1>1, <3>2
      <4>2. RemoveAt(events', j - 1, n)
        BY <1>1, <2>2, <4>1
      <4>3. j - 1 < k
        BY <1>3, <1>5, <4>2 DEF LiveAt
      <4> QED BY <4>1, <4>3
    <3> QED BY <3>1, <3>2
  <2> QED BY <2>1, <2>2 DEF LiveAt
<1>6. ASSUME NEW i \in Nat, NEW j \in Nat, i + 1 < j
      PROVE  j - 1 \in Nat /\ j - 1 # 0 /\ (j - 1) + 1 = j /\ i < j - 1
  BY <1>6
<1>7. LateRemoval'
  <2> SUFFICES ASSUME NEW s \in Sockets, NEW n \in Names,
                      NEW j \in 1 .. Len(events'), Holds(s, n)',
                      RemoveAt(events', j, n)
               PROVE  \E i \in 1 .. Len(events') : j < i /\ BindAt(events', i, s, n)
    BY DEF LateRemoval
  <2>1. j \in Nat /\ RemoveAt(events, j + 1, n) /\ Holds(s, n)
    BY <1>1, <1>3, <1>4
  <2>2. PICK i \in 1 .. Len(events) : j + 1 < i /\ BindAt(events, i, s, n)
    BY <1>2, <2>1 DEF LateRemoval
  <2>3. i - 1 \in Nat /\ i - 1 # 0 /\ (i - 1) + 1 = i /\ j < i - 1
    BY <1>2, <1>6, <2>1, <2>2
  <2>4. BindAt(events', i - 1, s, n)
    BY <1>1, <2>2, <2>3
  <2> QED BY <1>3, <2>3, <2>4
<1>8. ASSUME NEW s \in Sockets, NEW m \in Names, NEW i \in Nat,
             TakenBack(s, m, i + 1)
      PROVE  TakenBack(s, m, i)'
  <2>1. \E j \in 1 .. Len(events') : i < j /\ RemoveAt(events', j, m)
    <3>1. PICK j \in 1 .. Len(events) : i + 1 < j /\ RemoveAt(events, j, m)
      BY <1>8 DEF TakenBack
    <3>2. j - 1 \in Nat /\ j - 1 # 0 /\ (j - 1) + 1 = j /\ i < j - 1
      BY <1>2, <1>6, <3>1
    <3>3. RemoveAt(events', j - 1, m)
      BY <1>1, <3>1, <3>2
    <3> QED BY <1>3, <3>2, <3>3
  <2>2. ASSUME NEW n \in Names, NEW k \in 1 .. Len(events'),
               Holds(s, n)', LiveAt(events', k, s, n), i < k
        PROVE  \E j \in 1 .. Len(events') :
                   i < j /\ j < k /\ RemoveAt(events', j, m)
    <3>1. k \in Nat /\ LiveAt(events, k + 1, s, n) /\ i + 1 < k + 1
      BY <1>1, <1>5, <2>2
    <3>2. k + 1 \in 1 .. Len(events)
      BY <1>2, <3>1 DEF LiveAt
    <3>3. PICK j \in 1 .. Len(events) :
              i + 1 < j /\ j < k + 1 /\ RemoveAt(events, j, m)
      BY <1>4, <1>8, <2>2, <3>1, <3>2 DEF TakenBack
    <3>4. j - 1 \in Nat /\ j - 1 # 0 /\ (j - 1) + 1 = j /\ i < j - 1
      BY <1>2, <1>6, <3>3
    <3>5. j - 1 < k
      BY <3>1, <3>3, <3>4
    <3>6. RemoveAt(events', j - 1, m)
      BY <1>1, <3>3, <3>4
    <3> QED BY <1>3, <3>4, <3>5, <3>6
  <2> QED BY <2>1, <2>2 DEF TakenBack
<1>9. StaleBinds'
  <2> SUFFICES ASSUME NEW s \in Sockets, NEW m \in Names,
                      NEW i \in 1 .. Len(events'), BindAt(events', i, s, m),
                      ~Holds(s, m)'
               PROVE  TakenBack(s, m, i)'
    BY DEF StaleBinds
  <2>1. i \in Nat /\ BindAt(events, i + 1, s, m) /\ ~Holds(s, m)
    BY <1>1, <1>3, <1>4
  <2>2. TakenBack(s, m, i + 1)
    BY <1>2, <2>1 DEF StaleBinds
  <2> QED BY <1>8, <2>1, <2>2
<1> QED BY <1>4, <1>5, <1>7, <1>9

(***************************************************************************)
(* What OnDeviceAdded and OnDeviceRemoved do to the hubs.                  *)
(***************************************************************************)

\* A bus has one socket at most.
LEMMA OneSocket ==
    ASSUME NEW s \in Sockets, NEW t \in Sockets, HasBus(s), HasBus(t),
           BusNum(s) = BusNum(t)
    PROVE  s = t
  BY SocketsAssumption

LEMMA NamesTyped ==
    ASSUME LifecycleTypeOK
    PROVE  /\ \A s \in Sockets : \A n : Holds(s, n) => n \in Names
           /\ \A b \in Buses : HasHub(b) => states[b].path \in Names
           /\ \A s \in Sockets : \A n : Uses(s, n) => n \in Names
<1>1. \A s \in Sockets : \A n : Holds(s, n) => n \in Names
  BY DeviceTyped DEF Holds
<1>2. \A b \in Buses : HasHub(b) => states[b].path \in Names
  BY DEF LifecycleTypeOK, HasHub, Hubs
<1> QED BY <1>1, <1>2, BusNumIsBus DEF Uses

LEMMA AddedHubs ==
    ASSUME LifecycleTypeOK, NamesDiffer, NEW s \in Sockets, NEW n \in Names,
           OnDeviceAdded(s, n)
    PROVE  \/ /\ UNCHANGED <<states, refused>>
              /\ Accepted(s) => HasHub(BusNum(s))
           \/ /\ UNCHANGED states /\ refused \subseteq refused'
              /\ Holds(s, n) => plugged[s].id \in refused'
           \/ \E t \in Sockets :
                  /\ Accepted(s) /\ BusNum(s) \in Buses /\ ~HasHub(BusNum(s))
                  /\ Holds(t, n)
                  /\ \A b \in Buses \ {BusNum(s)} : states'[b] = states[b]
                  /\ states'[BusNum(s)] # NoHub
                  /\ states'[BusNum(s)].path = n
                  /\ states'[BusNum(s)].device = plugged[t].id
                  /\ UNCHANGED refused
<1>1. CASE AddIgnored(s)
  BY <1>1 DEF AddIgnored
<1>2. CASE OpenFails(s, n)
  <2>1. UNCHANGED states
    BY <1>2 DEF OpenFails
  <2>2. CASE /\ \A t \in Sockets : plugged[t] # NoDevice => plugged[t].name # n
             /\ UNCHANGED refused
    BY <2>1, <2>2 DEF Holds
  <2>3. ASSUME NEW t \in Sockets, plugged[t] # NoDevice, plugged[t].name = n,
               refused' = refused \cup {plugged[t].id}
        PROVE  refused \subseteq refused'
               /\ (Holds(s, n) => plugged[s].id \in refused')
    <3>1. Holds(s, n) => s = t
      BY <2>3 DEF NamesDiffer, Holds
    <3> QED BY <2>3, <3>1
  <2> QED BY <1>2, <2>1, <2>2, <2>3 DEF OpenFails
<1>3. CASE Opens(s, n)
  <2> DEFINE b == BusNum(s)
  <2>1. b \in Buses /\ Accepted(s) /\ ~HasHub(b)
    BY <1>3, BusNumIsBus DEF Opens, Accepted
  <2>2. PICK t \in Sockets, f \in Fds \ fds :
            /\ plugged[t] # NoDevice /\ plugged[t].name = n
            /\ states' = [states EXCEPT ![b] = NewHub(n, f, plugged[t].id)]
    BY <1>3 DEF Opens
  <2>3. UNCHANGED refused
    BY <1>3 DEF Opens
  <2> HIDE DEF b
  <2>4. /\ states'[b] = NewHub(n, f, plugged[t].id)
        /\ \A c \in Buses \ {b} : states'[c] = states[c]
    BY <2>1, <2>2 DEF LifecycleTypeOK
  <2>5. states'[b].path = n /\ states'[b].device = plugged[t].id
    BY <2>4 DEF NewHub
  <2>6. states'[b] # NoHub
    <3>1. plugged[t].id # 0 /\ NoHub.device = 0
      BY <2>2, DeviceTyped, LifecycleBounds DEF NoHub
    <3> QED BY <2>5, <3>1
  <2>7. Holds(t, n)
    BY <2>2 DEF Holds
  <2> QED BY <2>1, <2>3, <2>4, <2>5, <2>6, <2>7 DEF b
<1> QED BY <1>1, <1>2, <1>3 DEF OnDeviceAdded

(***************************************************************************)
(* The events, one by one.                                                 *)
(***************************************************************************)

\* The places of the events that are left.
LEMMA TailPlaces ==
    ASSUME LifecycleTypeOK, events # << >>, events' = Tail(events)
    PROVE  /\ \A s, n, i : BindAt(events', i, s, n) =>
                  /\ i \in 1 .. Len(events') /\ i \in Nat
                  /\ BindAt(events, i + 1, s, n) /\ i + 1 \in 1 .. Len(events)
           /\ \A n, i : RemoveAt(events', i, n) =>
                  /\ i \in 1 .. Len(events') /\ i \in Nat
                  /\ RemoveAt(events, i + 1, n) /\ i + 1 \in 1 .. Len(events)
           /\ \A s, n, i : BindAt(events, i, s, n) =>
                  /\ i \in 1 .. Len(events) /\ i \in Nat
                  /\ \/ i = 1 /\ Head(events).action = "bind"
                        /\ Head(events).socket = s /\ Head(events).name = n
                     \/ BindAt(events', i - 1, s, n) /\ i - 1 \in 1 .. Len(events')
           /\ \A n, i : RemoveAt(events, i, n) =>
                  /\ i \in 1 .. Len(events) /\ i \in Nat
                  /\ \/ /\ i = 1 /\ Head(events).action = "remove"
                        /\ Head(events).name = n
                     \/ RemoveAt(events', i - 1, n) /\ i - 1 \in 1 .. Len(events')
<1>1. /\ \A i \in Nat : \A s, n :
             BindAt(events', i, s, n) <=> i # 0 /\ BindAt(events, i + 1, s, n)
      /\ \A i \in Nat : \A n :
             RemoveAt(events', i, n) <=> i # 0 /\ RemoveAt(events, i + 1, n)
      /\ Len(events) \in Nat /\ Len(events') \in Nat
  BY ShiftedPlaces DEF LifecycleTypeOK
<1>2. /\ \A i, s, n : BindAt(events, i, s, n) =>
             i \in 1 .. Len(events) /\ i \in Nat
      /\ \A i, n : RemoveAt(events, i, n) =>
             i \in 1 .. Len(events) /\ i \in Nat
  BY <1>1, Places
<1>3. /\ \A i, s, n : BindAt(events', i, s, n) =>
             i \in 1 .. Len(events') /\ i \in Nat
      /\ \A i, n : RemoveAt(events', i, n) =>
             i \in 1 .. Len(events') /\ i \in Nat
  BY <1>1, Places
<1>4. Head(events) = events[1]
  BY DEF LifecycleTypeOK
<1>5. ASSUME NEW s, NEW n, NEW i, BindAt(events, i, s, n)
      PROVE  \/ i = 1 /\ Head(events).action = "bind"
                /\ Head(events).socket = s /\ Head(events).name = n
             \/ BindAt(events', i - 1, s, n)
  <2>1. CASE i = 1
    BY <1>4, <1>5, <2>1 DEF BindAt
  <2>2. CASE i # 1
    <3>1. i - 1 \in Nat /\ i - 1 # 0 /\ (i - 1) + 1 = i
      BY <1>1, <1>2, <1>5, <2>2
    <3> QED BY <1>1, <1>5, <3>1
  <2> QED BY <2>1, <2>2
<1>6. ASSUME NEW n, NEW i, RemoveAt(events, i, n)
      PROVE  \/ /\ i = 1 /\ Head(events).action = "remove"
                /\ Head(events).name = n
             \/ RemoveAt(events', i - 1, n)
  <2>1. CASE i = 1
    BY <1>4, <1>6, <2>1 DEF RemoveAt
  <2>2. CASE i # 1
    <3>1. i - 1 \in Nat /\ i - 1 # 0 /\ (i - 1) + 1 = i
      BY <1>1, <1>2, <1>6, <2>2
    <3> QED BY <1>1, <1>6, <3>1
  <2> QED BY <2>1, <2>2
<1> QED BY <1>1, <1>2, <1>3, <1>5, <1>6

\* The way stays clear when another event than the removal is handled.
LEMMA WayShifted ==
    ASSUME LifecycleTypeOK, QueueInv, events # << >>, events' = Tail(events),
           UNCHANGED plugged, NEW s \in Sockets, NEW n \in Names, NEW m \in Names,
           ~(Head(events).action = "remove" /\ Head(events).name = m),
           NEW k \in 1 .. Len(events'), NEW j \in 1 .. Len(events'),
           Holds(s, n)', LiveAt(events', k, s, n), Uses(s, m),
           RemoveAt(events', j, m)
    PROVE  \E i \in 1 .. Len(events') : i < k /\ RemoveAt(events', i, m)
<1>1. Holds(s, n) /\ k \in Nat /\ LiveAt(events, k + 1, s, n)
  <2>1. k \in Nat
    BY TailPlaces DEF LiveAt
  <2> QED BY <2>1, ShiftedOrder DEF QueueInv
<1>2. RemoveAt(events, j + 1, m) /\ j + 1 \in 1 .. Len(events)
      /\ k + 1 \in 1 .. Len(events)
  BY <1>1, TailPlaces DEF LiveAt
<1>3. PICK i \in 1 .. Len(events) : i < k + 1 /\ RemoveAt(events, i, m)
  BY <1>1, <1>2 DEF QueueInv, WayIsClear
<1>4. RemoveAt(events', i - 1, m) /\ i - 1 \in 1 .. Len(events') /\ i \in Nat
  BY <1>3, TailPlaces
<1>5. i - 1 < k
  BY <1>1, <1>3, <1>4
<1> QED BY <1>4, <1>5

\* "add" and "unbind" change nothing.
LEMMA QuietEvent ==
    ASSUME LifecycleTypeOK, QueueInv, events # << >>, events' = Tail(events),
           Head(events).action \in {"add", "unbind"},
           UNCHANGED <<plugged, phase, found, states, refused>>
    PROVE  HubsRight' /\ WillServe' /\ WayIsClear'
<1> USE DEF QueueInv
<1>1. /\ \A s \in Sockets : \A n : Holds(s, n)' <=> Holds(s, n)
      /\ \A s \in Sockets : \A n : Uses(s, n)' <=> Uses(s, n)
      /\ \A s \in Sockets : Accepted(s)' <=> Accepted(s)
      /\ \A b \in Buses : HasHub(b)' <=> HasHub(b)
  BY DEF Holds, Uses, Accepted, HasHub
<1>2. HubsRight'
  <2> SUFFICES ASSUME NEW b \in Buses, HasHub(b)
               PROVE  \/ \E j \in 1 .. Len(events') :
                             RemoveAt(events', j, states[b].path)
                      \/ \E s \in Sockets :
                             /\ HasBus(s) /\ BusNum(s) = b /\ Accepted(s)
                             /\ Holds(s, states[b].path)
                             /\ states[b].device = plugged[s].id
    BY <1>1 DEF HubsRight
  <2> QED BY TailPlaces DEF HubsRight
<1>3. WillServe'
  <2> SUFFICES ASSUME NEW s \in Sockets, NEW n \in Names, Accepted(s),
                      Holds(s, n)
               PROVE  \/ phase \in {"down", "monitoring"}
                      \/ [socket |-> s, name |-> n] \in found
                      \/ \E i \in 1 .. Len(events') : BindAt(events', i, s, n)
                      \/ plugged[s].id \in refused
                      \/ Uses(s, n) /\ states[BusNum(s)].device = plugged[s].id
    BY <1>1 DEF WillServe
  <2> QED BY TailPlaces DEF WillServe
<1>4. WayIsClear'
  <2> SUFFICES ASSUME NEW s \in Sockets, NEW n \in Names, NEW m \in Names,
                      NEW k \in 1 .. Len(events'), NEW j \in 1 .. Len(events'),
                      Holds(s, n)', LiveAt(events', k, s, n), Uses(s, m)',
                      RemoveAt(events', j, m)
               PROVE  \E i \in 1 .. Len(events') : i < k /\ RemoveAt(events', i, m)
    BY DEF WayIsClear
  <2> QED BY <1>1, WayShifted
<1> QED BY <1>2, <1>3, <1>4

\* A removal: the hubs that go are the ones with the name.
LEMMA RemoveEvent ==
    ASSUME LifecycleTypeOK, QueueInv, events # << >>, events' = Tail(events),
           Head(events).action = "remove", OnDeviceRemoved(Head(events).name),
           UNCHANGED <<plugged, phase, found>>
    PROVE  HubsRight' /\ WillServe' /\ WayIsClear'
<1> USE DEF QueueInv
<1> DEFINE x == Head(events).name
<1>1. /\ \A b \in Buses : HasHub(b)' <=> HasHub(b) /\ states[b].path # x
      /\ \A b \in Buses : HasHub(b)' => states'[b] = states[b]
      /\ UNCHANGED refused
  BY DEF OnDeviceRemoved, UsersOf, HasHub
<1>2. /\ \A s \in Sockets : \A n : Holds(s, n)' <=> Holds(s, n)
      /\ \A s \in Sockets : Accepted(s)' <=> Accepted(s)
  BY DEF Holds, Accepted
<1>3. \A s \in Sockets : \A n : Uses(s, n)' <=> Uses(s, n) /\ n # x
  BY <1>1, BusNumIsBus DEF Uses
<1>4. RemoveAt(events, 1, x) /\ 1 \in 1 .. Len(events)
  <2>1. Head(events) = events[1] /\ 1 \in 1 .. Len(events)
    BY DEF LifecycleTypeOK
  <2> QED BY <2>1 DEF RemoveAt
<1> HIDE DEF x
<1>5. HubsRight'
  <2> SUFFICES ASSUME NEW b \in Buses, HasHub(b), states[b].path # x,
                      states'[b] = states[b]
               PROVE  \/ \E j \in 1 .. Len(events') :
                             RemoveAt(events', j, states[b].path)
                      \/ \E s \in Sockets :
                             /\ HasBus(s) /\ BusNum(s) = b /\ Accepted(s)
                             /\ Holds(s, states[b].path)
                             /\ states[b].device = plugged[s].id
    BY <1>1, <1>2 DEF HubsRight
  <2>1. CASE \E j \in 1 .. Len(events) : RemoveAt(events, j, states[b].path)
    BY <2>1, TailPlaces DEF x
  <2> QED BY <2>1 DEF HubsRight
<1>6. WillServe'
  <2> SUFFICES ASSUME NEW s \in Sockets, NEW n \in Names, Accepted(s),
                      Holds(s, n)
               PROVE  \/ phase \in {"down", "monitoring"}
                      \/ [socket |-> s, name |-> n] \in found
                      \/ \E i \in 1 .. Len(events') : BindAt(events', i, s, n)
                      \/ plugged[s].id \in refused
                      \/ Uses(s, n)' /\ states'[BusNum(s)].device = plugged[s].id
    BY <1>1, <1>2 DEF WillServe
  <2>1. CASE \E i \in 1 .. Len(events) : BindAt(events, i, s, n)
    BY <2>1, TailPlaces
  <2>2. CASE Uses(s, n) /\ states[BusNum(s)].device = plugged[s].id
    <3>1. CASE n = x
      <4>1. \E i \in 1 .. Len(events) : BindAt(events, i, s, n)
        BY <1>4, <3>1 DEF LateRemoval
      <4> QED BY <2>1, <4>1
    <3>2. CASE n # x
      <4>1. Uses(s, n)' /\ BusNum(s) \in Buses
        BY <1>3, <2>2, <3>2, BusNumIsBus DEF Uses
      <4>2. states'[BusNum(s)] = states[BusNum(s)]
        BY <1>1, <4>1 DEF Uses
      <4> QED BY <2>2, <4>1, <4>2
    <3> QED BY <3>1, <3>2
  <2> QED BY <2>1, <2>2 DEF WillServe
<1>7. WayIsClear'
  <2> SUFFICES ASSUME NEW s \in Sockets, NEW n \in Names, NEW m \in Names,
                      NEW k \in 1 .. Len(events'), NEW j \in 1 .. Len(events'),
                      Holds(s, n)', LiveAt(events', k, s, n), Uses(s, m)',
                      RemoveAt(events', j, m)
               PROVE  \E i \in 1 .. Len(events') : i < k /\ RemoveAt(events', i, m)
    BY DEF WayIsClear
  <2>1. Uses(s, m) /\ m # x
    BY <1>3
  <2> QED BY <2>1, WayShifted DEF x
<1> QED BY <1>5, <1>6, <1>7

\* The hub that is in the way of the event of a socket's own device is the hub
\* of that device.
LEMMA HubInTheWay ==
    ASSUME LifecycleTypeOK, QueueInv, NEW s \in Sockets, NEW n \in Names,
           LiveAt(events, 1, s, n), Holds(s, n), HasBus(s), HasHub(BusNum(s))
    PROVE  Uses(s, n) /\ states[BusNum(s)].device = plugged[s].id
<1> USE DEF QueueInv
<1> DEFINE b == BusNum(s)
           m == states[b].path
<1>1. b \in Buses /\ m \in Names /\ Uses(s, m)
  BY BusNumIsBus, NamesTyped DEF Uses
<1>2. 1 \in 1 .. Len(events) /\ Len(events) \in Nat
  BY DEF LiveAt, BindAt, LifecycleTypeOK
<1>3. ~\E j \in 1 .. Len(events) : RemoveAt(events, j, m)
  <2> SUFFICES ASSUME NEW j \in 1 .. Len(events), RemoveAt(events, j, m)
               PROVE  FALSE
    OBVIOUS
  <2> HIDE DEF m
  <2>1. PICK i \in 1 .. Len(events) : i < 1
    BY <1>1, <1>2 DEF WayIsClear
  <2> QED BY <1>2, <2>1
<1>4. PICK t \in Sockets : /\ HasBus(t) /\ BusNum(t) = b /\ Holds(t, m)
                           /\ states[b].device = plugged[t].id
  BY <1>1, <1>3 DEF HubsRight
<1>5. t = s
  BY <1>4, OneSocket
<1>6. m = n
  BY <1>4, <1>5 DEF Holds
<1> QED BY <1>1, <1>4, <1>5, <1>6

\* A device: it is ignored, or its port cannot be opened, or it gets a hub.
LEMMA BindEvent ==
    ASSUME LifecycleTypeOK, QueueInv, events # << >>, events' = Tail(events),
           NEW s \in Sockets, NEW x \in Names, Head(events).action = "bind",
           Head(events).socket = s, Head(events).name = x, OnDeviceAdded(s, x),
           UNCHANGED <<plugged, phase, found>>
    PROVE  HubsRight' /\ WillServe' /\ WayIsClear'
<1> USE DEF QueueInv
<1>1. s \in Sockets /\ x \in Names /\ OnDeviceAdded(s, x)
  OBVIOUS
<1>2. BindAt(events, 1, s, x) /\ 1 \in 1 .. Len(events) /\ Len(events) \in Nat
  <2>1. Head(events) = events[1] /\ 1 \in 1 .. Len(events) /\ Len(events) \in Nat
    BY DEF LifecycleTypeOK
  <2> QED BY <2>1 DEF BindAt
<1>3. \A n, i : RemoveAt(events, i, n) => /\ RemoveAt(events', i - 1, n)
                                          /\ i - 1 \in 1 .. Len(events')
                                          /\ i \in Nat
  BY TailPlaces
<1>4. \A t, n, i : BindAt(events, i, t, n) =>
          \/ i = 1 /\ t = s /\ n = x
          \/ BindAt(events', i - 1, t, n) /\ i - 1 \in 1 .. Len(events')
  BY TailPlaces
<1>5. \A n : ~(Head(events).action = "remove" /\ Head(events).name = n)
  OBVIOUS
<1>6. /\ \A t \in Sockets : \A n : Holds(t, n)' <=> Holds(t, n)
      /\ \A t \in Sockets : Accepted(t)' <=> Accepted(t)
  BY DEF Holds, Accepted
<1>7. ASSUME UNCHANGED states, refused \subseteq refused',
             Accepted(s) /\ Holds(s, x) => \/ HasHub(BusNum(s))
                                           \/ plugged[s].id \in refused'
      PROVE  HubsRight' /\ WillServe' /\ WayIsClear'
  <2>1. /\ \A t \in Sockets : \A n : Uses(t, n)' <=> Uses(t, n)
        /\ \A b \in Buses : HasHub(b)' <=> HasHub(b)
    BY <1>7 DEF Uses, HasHub
  <2>2. HubsRight'
    <3> SUFFICES ASSUME NEW b \in Buses, HasHub(b)
                 PROVE  \/ \E j \in 1 .. Len(events') :
                               RemoveAt(events', j, states[b].path)
                        \/ \E t \in Sockets :
                               /\ HasBus(t) /\ BusNum(t) = b /\ Accepted(t)
                               /\ Holds(t, states[b].path)
                               /\ states[b].device = plugged[t].id
      BY <1>6, <1>7, <2>1 DEF HubsRight
    <3> QED BY <1>3 DEF HubsRight
  <2>3. WillServe'
    <3> SUFFICES ASSUME NEW t \in Sockets, NEW n \in Names, Accepted(t),
                        Holds(t, n)
                 PROVE  \/ phase \in {"down", "monitoring"}
                        \/ [socket |-> t, name |-> n] \in found
                        \/ \E i \in 1 .. Len(events') : BindAt(events', i, t, n)
                        \/ plugged[t].id \in refused'
                        \/ /\ Uses(t, n)
                           /\ states[BusNum(t)].device = plugged[t].id
      BY <1>6, <1>7, <2>1 DEF WillServe
    <3>1. CASE t = s /\ n = x /\ HasHub(BusNum(s))
      <4>1. CASE \E j \in 1 .. Len(events) : RemoveAt(events, j, x)
        <5>1. PICK j \in 1 .. Len(events) : RemoveAt(events, j, x)
          BY <4>1
        <5>2. PICK i \in 1 .. Len(events) : j < i /\ BindAt(events, i, s, x)
          BY <1>1, <3>1, <5>1 DEF LateRemoval
        <5>3. i # 1
          BY <1>2, <5>2
        <5> QED BY <1>4, <3>1, <5>2, <5>3
      <4>2. CASE ~\E j \in 1 .. Len(events) : RemoveAt(events, j, x)
        <5>1. LiveAt(events, 1, s, x)
          BY <1>2, <4>2 DEF LiveAt
        <5> QED BY <1>1, <3>1, <5>1, HubInTheWay DEF Accepted
      <4> QED BY <4>1, <4>2
    <3>2. CASE ~(t = s /\ n = x)
      BY <1>4, <1>7, <3>2 DEF WillServe
    <3> QED BY <1>7, <3>1, <3>2
  <2>4. WayIsClear'
    <3> SUFFICES ASSUME NEW t \in Sockets, NEW n \in Names, NEW m \in Names,
                        NEW k \in 1 .. Len(events'), NEW j \in 1 .. Len(events'),
                        Holds(t, n)', LiveAt(events', k, t, n), Uses(t, m)',
                        RemoveAt(events', j, m)
                 PROVE  \E i \in 1 .. Len(events') :
                            i < k /\ RemoveAt(events', i, m)
      BY DEF WayIsClear
    <3> QED BY <1>5, <2>1, WayShifted
  <2> QED BY <2>2, <2>3, <2>4
<1>8. ASSUME NEW u \in Sockets,
             Accepted(s), BusNum(s) \in Buses, ~HasHub(BusNum(s)), Holds(u, x),
             \A b \in Buses \ {BusNum(s)} : states'[b] = states[b],
             states'[BusNum(s)] # NoHub, states'[BusNum(s)].path = x,
             states'[BusNum(s)].device = plugged[u].id, UNCHANGED refused
      PROVE  HubsRight' /\ WillServe' /\ WayIsClear'
  <2>1. HasBus(s)
    BY <1>8 DEF Accepted
  <2>2. /\ \A b \in Buses \ {BusNum(s)} : HasHub(b)' <=> HasHub(b)
        /\ Uses(s, x)' /\ \A m : Uses(s, m)' => m = x
    BY <1>1, <1>8, <2>1 DEF HasHub, Uses
  <2>3. \A t \in Sockets : \A n : t # s =>
            /\ Uses(t, n)' <=> Uses(t, n)
            /\ HasBus(t) => states'[BusNum(t)] = states[BusNum(t)]
    <3> SUFFICES ASSUME NEW t \in Sockets, NEW n, t # s, HasBus(t)
                 PROVE  /\ Uses(t, n)' <=> Uses(t, n)
                        /\ states'[BusNum(t)] = states[BusNum(t)]
      BY DEF Uses
    <3>1. BusNum(t) \in Buses \ {BusNum(s)}
      BY <1>1, <2>1, OneSocket, BusNumIsBus
    <3> QED BY <1>8, <3>1 DEF Uses, HasHub
  <2>4. Holds(s, x) => u = s
    BY <1>1, <1>8 DEF NamesDiffer
  <2>5. ~Holds(s, x) => TakenBack(s, x, 1)
    BY <1>1, <1>2 DEF StaleBinds
  <2>6. HubsRight'
    <3> SUFFICES ASSUME NEW b \in Buses, HasHub(b)'
                 PROVE  \/ \E j \in 1 .. Len(events') :
                               RemoveAt(events', j, states'[b].path)
                        \/ \E t \in Sockets :
                               /\ HasBus(t) /\ BusNum(t) = b /\ Accepted(t)
                               /\ Holds(t, states'[b].path)
                               /\ states'[b].device = plugged[t].id
      BY <1>6 DEF HubsRight
    <3>1. CASE b = BusNum(s)
      <4>1. CASE Holds(s, x)
        BY <1>1, <1>8, <2>1, <2>4, <3>1, <4>1
      <4>2. CASE ~Holds(s, x)
        <5>1. PICK j \in 1 .. Len(events) : RemoveAt(events, j, x)
          BY <2>5, <4>2 DEF TakenBack
        <5> QED BY <1>3, <1>8, <3>1, <5>1
      <4> QED BY <4>1, <4>2
    <3>2. CASE b # BusNum(s)
      <4>1. HasHub(b) /\ states'[b] = states[b]
        BY <1>8, <2>2, <3>2
      <4> QED BY <1>3, <4>1 DEF HubsRight
    <3> QED BY <3>1, <3>2
  <2>7. WillServe'
    <3> SUFFICES ASSUME NEW t \in Sockets, NEW n \in Names, Accepted(t),
                        Holds(t, n)
                 PROVE  \/ phase \in {"down", "monitoring"}
                        \/ [socket |-> t, name |-> n] \in found
                        \/ \E i \in 1 .. Len(events') : BindAt(events', i, t, n)
                        \/ plugged[t].id \in refused
                        \/ /\ Uses(t, n)'
                           /\ states'[BusNum(t)].device = plugged[t].id
      BY <1>6, <1>8 DEF WillServe
    <3>1. CASE t = s /\ n = x
      BY <1>8, <2>2, <2>4, <3>1
    <3>2. CASE ~(t = s /\ n = x)
      <4>1. CASE \E i \in 1 .. Len(events) : BindAt(events, i, t, n)
        BY <1>4, <3>2, <4>1
      <4>2. CASE Uses(t, n) /\ states[BusNum(t)].device = plugged[t].id
        <5>1. t # s
          BY <1>8, <4>2 DEF Uses
        <5> QED BY <2>3, <4>2, <5>1 DEF Uses
      <4> QED BY <4>1, <4>2 DEF WillServe
    <3> QED BY <3>1, <3>2
  <2>8. WayIsClear'
    <3> SUFFICES ASSUME NEW t \in Sockets, NEW n \in Names, NEW m \in Names,
                        NEW k \in 1 .. Len(events'), NEW j \in 1 .. Len(events'),
                        Holds(t, n)', LiveAt(events', k, t, n), Uses(t, m)',
                        RemoveAt(events', j, m)
                 PROVE  \E i \in 1 .. Len(events') :
                            i < k /\ RemoveAt(events', i, m)
      BY DEF WayIsClear
    <3>1. CASE t # s
      BY <1>5, <2>3, <3>1, WayShifted
    <3>2. CASE t = s
      <4>1. m = x
        BY <2>2, <3>2
      <4>2. CASE n = x
        BY <4>1, <4>2 DEF LiveAt
      <4>3. CASE n # x
        <5>1. Holds(s, n) /\ ~Holds(s, x)
          BY <1>6, <3>2, <4>3 DEF Holds
        <5>2. k \in Nat /\ k + 1 \in 1 .. Len(events) /\ 1 < k + 1
          BY TailPlaces DEF LiveAt
        <5>3. LiveAt(events, k + 1, s, n)
          BY <3>2, <5>2, ShiftedOrder
        <5>4. PICK i \in 1 .. Len(events) :
                  1 < i /\ i < k + 1 /\ RemoveAt(events, i, x)
          BY <2>5, <5>1, <5>2, <5>3 DEF TakenBack
        <5>5. RemoveAt(events', i - 1, x) /\ i - 1 \in 1 .. Len(events')
              /\ i \in Nat
          BY <1>3, <5>4
        <5>6. i - 1 < k
          BY <5>2, <5>4, <5>5
        <5> QED BY <4>1, <5>5, <5>6
      <4> QED BY <4>2, <4>3
    <3> QED BY <3>1, <3>2
  <2> QED BY <2>6, <2>7, <2>8
<1> QED BY <1>1, <1>7, <1>8, AddedHubs

\* Every event keeps the invariant.
LEMMA HandleEventQueue ==
    ASSUME LifecycleTypeOK, QueueInv, HandleEvent PROVE QueueInv'
<1>1. /\ phase = "running" /\ events # << >> /\ events' = Tail(events)
      /\ UNCHANGED <<plugged, phase, found>>
  BY DEF HandleEvent
<1>2. HubsRight' /\ WillServe' /\ WayIsClear'
  <2>1. Head(events).socket \in Sockets /\ Head(events).name \in Names
    BY <1>1, HeadTyped
  <2>2. CASE /\ Head(events).action = "bind"
             /\ OnDeviceAdded(Head(events).socket, Head(events).name)
    BY <1>1, <2>1, <2>2, BindEvent
  <2>3. CASE /\ Head(events).action = "remove"
             /\ OnDeviceRemoved(Head(events).name)
    BY <1>1, <2>3, RemoveEvent
  <2>4. CASE /\ Head(events).action \in {"add", "unbind"}
             /\ UNCHANGED <<states, refused>>
    BY <1>1, <2>4, QuietEvent
  <2> QED BY <2>2, <2>3, <2>4 DEF HandleEvent
<1>3. LateRemoval' /\ StaleBinds'
  BY <1>1, ShiftedOrder DEF QueueInv
<1>4. found' = {} /\ phase' = "running"
  BY <1>1 DEF QueueInv, PhaseInv
<1>5. NamesDiffer'
  BY <1>1 DEF QueueInv, NamesDiffer, Holds
<1>6. StaleFound' /\ FoundOnce' /\ PhaseInv'
  BY <1>4 DEF StaleFound, FoundOnce, PhaseInv
<1> QED BY <1>2, <1>3, <1>5, <1>6 DEF QueueInv

(***************************************************************************)
(* The enumeration.                                                        *)
(***************************************************************************)

LEMMA EnumerateQueue ==
    ASSUME LifecycleTypeOK, QueueInv, EnumerateNext PROVE QueueInv'
<1> USE DEF QueueInv
<1>1. PICK d \in found : found' = found \ {d} /\ OnDeviceAdded(d.socket, d.name)
  BY DEF EnumerateNext
<1>2. PICK s \in Sockets, x \in Names : s = d.socket /\ x = d.name
                                        /\ d = [socket |-> s, name |-> x]
  BY DEF LifecycleTypeOK, Found
<1>3. /\ phase = "enumerating" /\ UNCHANGED <<plugged, phase, events>>
      /\ OnDeviceAdded(s, x)
  BY <1>1, <1>2 DEF EnumerateNext
<1>4. /\ \A t \in Sockets : \A n : Holds(t, n)' <=> Holds(t, n)
      /\ \A t \in Sockets : Accepted(t)' <=> Accepted(t)
  BY <1>3 DEF Holds, Accepted
<1>5. NamesDiffer' /\ LateRemoval'
  BY <1>3, <1>4 DEF NamesDiffer, LateRemoval
<1>6. \A t \in Sockets, m \in Names : \A i : TakenBack(t, m, i)' <=> TakenBack(t, m, i)
  BY <1>3, <1>4 DEF TakenBack
<1>7. StaleBinds'
  BY <1>3, <1>4, <1>6 DEF StaleBinds
<1>8. StaleFound'
  <2>1. \A e \in found : e.socket \in Sockets /\ e.name \in Names
    BY DEF LifecycleTypeOK, Found
  <2> QED BY <1>1, <1>4, <1>6, <2>1 DEF StaleFound
<1>9. PhaseInv'
  BY <1>3 DEF PhaseInv
<1>10. \A t \in Sockets, n \in Names : [socket |-> t, name |-> n] \in found =>
           \/ t = s /\ n = x
           \/ [socket |-> t, name |-> n] \in found'
  BY <1>1, <1>2
<1>11. \A e \in found' : e \in found /\ e.socket \in Sockets /\ e.socket # s
  <2>1. \A e \in found : e.socket \in Sockets /\ (e.socket = d.socket => e = d)
    BY DEF LifecycleTypeOK, Found, FoundOnce
  <2> QED BY <1>1, <1>2, <2>1
<1>12. HasBus(s) => ~HasHub(BusNum(s))
  BY <1>2 DEF FoundOnce
<1>13. ASSUME UNCHANGED states, refused \subseteq refused',
              Accepted(s) /\ Holds(s, x) => plugged[s].id \in refused'
       PROVE  HubsRight' /\ WillServe' /\ WayIsClear' /\ FoundOnce'
  <2>1. /\ \A t \in Sockets : \A n : Uses(t, n)' <=> Uses(t, n)
        /\ \A b \in Buses : HasHub(b)' <=> HasHub(b)
    BY <1>13 DEF Uses, HasHub
  <2>2. HubsRight'
    BY <1>3, <1>4, <1>13, <2>1 DEF HubsRight
  <2>3. WillServe'
    <3> SUFFICES ASSUME NEW t \in Sockets, NEW n \in Names, Accepted(t),
                        Holds(t, n)
                 PROVE  \/ phase \in {"down", "monitoring"}
                        \/ [socket |-> t, name |-> n] \in found'
                        \/ \E i \in 1 .. Len(events) : BindAt(events, i, t, n)
                        \/ plugged[t].id \in refused'
                        \/ /\ Uses(t, n)
                           /\ states[BusNum(t)].device = plugged[t].id
      BY <1>3, <1>4, <1>13, <2>1 DEF WillServe
    <3> QED BY <1>10, <1>13 DEF WillServe
  <2>4. WayIsClear'
    BY <1>3, <1>4, <2>1 DEF WayIsClear
  <2>5. FoundOnce'
    BY <1>11, <2>1, BusNumIsBus DEF FoundOnce
  <2> QED BY <2>2, <2>3, <2>4, <2>5
<1>14. ASSUME NEW u \in Sockets,
              Accepted(s), BusNum(s) \in Buses, ~HasHub(BusNum(s)), Holds(u, x),
              \A b \in Buses \ {BusNum(s)} : states'[b] = states[b],
              states'[BusNum(s)] # NoHub, states'[BusNum(s)].path = x,
              states'[BusNum(s)].device = plugged[u].id, UNCHANGED refused
       PROVE  HubsRight' /\ WillServe' /\ WayIsClear' /\ FoundOnce'
  <2>1. HasBus(s)
    BY <1>14 DEF Accepted
  <2>2. /\ \A b \in Buses \ {BusNum(s)} : HasHub(b)' <=> HasHub(b)
        /\ Uses(s, x)' /\ \A m : Uses(s, m)' => m = x
    BY <1>14, <2>1 DEF HasHub, Uses
  <2>3. \A t \in Sockets : \A n : t # s =>
            /\ Uses(t, n)' <=> Uses(t, n)
            /\ HasBus(t) => /\ states'[BusNum(t)] = states[BusNum(t)]
                            /\ HasHub(BusNum(t))' <=> HasHub(BusNum(t))
    <3> SUFFICES ASSUME NEW t \in Sockets, NEW n, t # s, HasBus(t)
                 PROVE  /\ Uses(t, n)' <=> Uses(t, n)
                        /\ states'[BusNum(t)] = states[BusNum(t)]
                        /\ HasHub(BusNum(t))' <=> HasHub(BusNum(t))
      BY DEF Uses
    <3>1. BusNum(t) \in Buses \ {BusNum(s)}
      BY <2>1, OneSocket, BusNumIsBus
    <3> QED BY <1>14, <3>1 DEF Uses, HasHub
  <2>4. Holds(s, x) => u = s
    BY <1>14 DEF NamesDiffer
  <2>5. ~Holds(s, x) => TakenBack(s, x, 0)
    BY <1>2 DEF StaleFound
  <2>6. HubsRight'
    <3> SUFFICES ASSUME NEW b \in Buses, HasHub(b)'
                 PROVE  \/ \E j \in 1 .. Len(events) :
                               RemoveAt(events, j, states'[b].path)
                        \/ \E t \in Sockets :
                               /\ HasBus(t) /\ BusNum(t) = b /\ Accepted(t)
                               /\ Holds(t, states'[b].path)
                               /\ states'[b].device = plugged[t].id
      BY <1>3, <1>4 DEF HubsRight
    <3>1. CASE b = BusNum(s)
      <4>1. CASE Holds(s, x)
        BY <1>14, <2>1, <2>4, <3>1, <4>1
      <4>2. CASE ~Holds(s, x)
        BY <1>14, <2>5, <3>1, <4>2 DEF TakenBack
      <4> QED BY <4>1, <4>2
    <3>2. CASE b # BusNum(s)
      <4>1. HasHub(b) /\ states'[b] = states[b]
        BY <1>14, <2>2, <3>2
      <4> QED BY <4>1 DEF HubsRight
    <3> QED BY <3>1, <3>2
  <2>7. WillServe'
    <3> SUFFICES ASSUME NEW t \in Sockets, NEW n \in Names, Accepted(t),
                        Holds(t, n)
                 PROVE  \/ phase \in {"down", "monitoring"}
                        \/ [socket |-> t, name |-> n] \in found'
                        \/ \E i \in 1 .. Len(events) : BindAt(events, i, t, n)
                        \/ plugged[t].id \in refused
                        \/ /\ Uses(t, n)'
                           /\ states'[BusNum(t)].device = plugged[t].id
      BY <1>3, <1>4, <1>14 DEF WillServe
    <3>1. CASE t = s /\ n = x
      BY <1>14, <2>2, <2>4, <3>1
    <3>2. CASE ~(t = s /\ n = x)
      <4>1. CASE Uses(t, n) /\ states[BusNum(t)].device = plugged[t].id
        <5>1. t # s
          BY <1>14, <4>1 DEF Uses
        <5> QED BY <2>3, <4>1, <5>1 DEF Uses
      <4> QED BY <1>10, <3>2, <4>1 DEF WillServe
    <3> QED BY <3>1, <3>2
  <2>8. WayIsClear'
    <3> SUFFICES ASSUME NEW t \in Sockets, NEW n \in Names, NEW m \in Names,
                        NEW k \in 1 .. Len(events), NEW j \in 1 .. Len(events),
                        Holds(t, n), LiveAt(events, k, t, n), Uses(t, m)',
                        RemoveAt(events, j, m)
                 PROVE  \E i \in 1 .. Len(events) :
                            i < k /\ RemoveAt(events, i, m)
      BY <1>3, <1>4 DEF WayIsClear
    <3>1. CASE t # s
      BY <2>3, <3>1 DEF WayIsClear
    <3>2. CASE t = s
      <4>1. m = x
        BY <2>2, <3>2
      <4>2. CASE n = x
        BY <4>1, <4>2 DEF LiveAt
      <4>3. CASE n # x
        <5>1. Holds(s, n) /\ ~Holds(s, x)
          BY <3>2, <4>3 DEF Holds
        <5>2. 0 < k
          BY DEF LifecycleTypeOK
        <5> QED BY <2>5, <3>2, <4>1, <5>1, <5>2 DEF TakenBack
      <4> QED BY <4>2, <4>3
    <3> QED BY <3>1, <3>2
  <2>9. FoundOnce'
    BY <1>11, <2>3 DEF FoundOnce
  <2> QED BY <2>6, <2>7, <2>8, <2>9
<1>15. HubsRight' /\ WillServe' /\ WayIsClear' /\ FoundOnce'
  <2>1. HasBus(s) \/ ~Accepted(s)
    BY DEF Accepted
  <2> QED BY <1>3, <1>12, <1>13, <1>14, <2>1, AddedHubs
<1> QED BY <1>5, <1>7, <1>8, <1>9, <1>15

\* The start of the daemon, what it finds plugged in, and the end of the
\* enumeration.
LEMMA PhaseQueue ==
    ASSUME LifecycleTypeOK, QueueInv, StartMonitor \/ Enumerate \/ EnumerateDone
    PROVE  QueueInv'
<1> USE DEF QueueInv
<1>1. UNCHANGED <<plugged, events, states, refused>>
  BY DEF StartMonitor, Enumerate, EnumerateDone
<1>2. /\ \A t \in Sockets : \A n : Holds(t, n)' <=> Holds(t, n)
      /\ \A t \in Sockets : Accepted(t)' <=> Accepted(t)
      /\ \A t \in Sockets : \A n : Uses(t, n)' <=> Uses(t, n)
      /\ \A b \in Buses : HasHub(b)' <=> HasHub(b)
  BY <1>1 DEF Holds, Accepted, Uses, HasHub
<1>3. NamesDiffer' /\ LateRemoval' /\ HubsRight' /\ WayIsClear'
  BY <1>1, <1>2 DEF NamesDiffer, LateRemoval, HubsRight, WayIsClear
<1>4. \A t \in Sockets, m \in Names : \A i : TakenBack(t, m, i)' <=> TakenBack(t, m, i)
  BY <1>1, <1>2 DEF TakenBack
<1>5. StaleBinds'
  BY <1>1, <1>2, <1>4 DEF StaleBinds
<1>6. CASE StartMonitor \/ EnumerateDone
  <2>1. found' = {} /\ found = {}
    BY <1>6 DEF StartMonitor, EnumerateDone, PhaseInv
  <2>2. StaleFound' /\ FoundOnce'
    BY <2>1 DEF StaleFound, FoundOnce
  <2>3. PhaseInv'
    BY <1>1, <1>2, <1>6, <2>1 DEF PhaseInv, StartMonitor, EnumerateDone
  <2>4. phase \in {"down", "monitoring"} => phase' \in {"down", "monitoring"}
    BY <1>6 DEF StartMonitor, EnumerateDone
  <2>5. WillServe'
    BY <1>1, <1>2, <2>1, <2>4 DEF WillServe
  <2> QED BY <1>3, <1>5, <2>2, <2>3, <2>5
<1>7. CASE Enumerate
  <2>1. found' = {[socket |-> s, name |-> plugged[s].name] :
                     s \in {t \in Sockets : plugged[t] # NoDevice}}
    BY <1>7 DEF Enumerate
  <2>2. \A e \in found' : /\ e.socket \in Sockets /\ Holds(e.socket, e.name)
                          /\ e = [socket |-> e.socket,
                                  name |-> plugged[e.socket].name]
    BY <2>1 DEF Holds
  <2>3. StaleFound'
    BY <1>2, <2>2 DEF StaleFound
  <2>4. FoundOnce'
    <3>1. \A b \in Buses : ~HasHub(b)'
      BY <1>2, <1>7 DEF Enumerate, PhaseInv
    <3> QED BY <2>2, <3>1, BusNumIsBus DEF FoundOnce
  <2>5. PhaseInv'
    BY <1>7 DEF PhaseInv, Enumerate
  <2>6. WillServe'
    BY <1>2, <2>1 DEF WillServe, Holds
  <2> QED BY <1>3, <1>5, <2>3, <2>4, <2>5, <2>6
<1> QED BY <1>6, <1>7

(***************************************************************************)
(* Plugging in and out.                                                    *)
(***************************************************************************)

\* A daemon that is down owes nothing.
Idle ==
    /\ phase = "down" /\ events = << >> /\ found = {} /\ NamesDiffer
    /\ \A b \in Buses : ~HasHub(b)

LEMMA IdleQueue == Idle => QueueInv
<1> SUFFICES ASSUME Idle PROVE QueueInv
  OBVIOUS
<1> USE DEF Idle
<1>1. Len(events) = 0 /\ 1 .. Len(events) = {}
  OBVIOUS
<1>2. LateRemoval /\ HubsRight /\ WayIsClear /\ StaleBinds
  BY <1>1 DEF LateRemoval, HubsRight, WayIsClear, StaleBinds
<1>3. StaleFound /\ FoundOnce /\ PhaseInv /\ WillServe
  BY DEF StaleFound, FoundOnce, PhaseInv, WillServe
<1> QED BY <1>2, <1>3 DEF QueueInv

LEMMA IdleQueuePrime == Idle' => QueueInv'
  BY IdleQueue, PTL

\* The names that a device in a socket may get.
LEMMA PlugNames ==
    ASSUME LifecycleTypeOK, QueueInv, NEW s \in Sockets, Plug(s)
    PROVE  \E n \in Names :
               /\ Notify(<<"add", "bind">>, s, n)
               /\ plugged[s] = NoDevice
               /\ \A t \in Sockets \ {s} : plugged'[t] = plugged[t]
               /\ plugged'[s] # NoDevice /\ plugged'[s].name = n
               /\ \A t \in Sockets : ~Holds(t, n)
               /\ UNCHANGED <<phase, found, states, refused>>
<1>1. PICK k \in Kinds, n \in Names :
          /\ FreeName(n)
          /\ plugged' = [plugged EXCEPT ![s] = [id |-> plugs + 1, name |-> n,
                                                kind |-> k]]
          /\ Notify(<<"add", "bind">>, s, n)
  BY DEF Plug
<1>2. /\ plugged'[s] = [id |-> plugs + 1, name |-> n, kind |-> k]
      /\ \A t \in Sockets \ {s} : plugged'[t] = plugged[t]
  BY <1>1 DEF LifecycleTypeOK
<1>3. plugged'[s] # NoDevice
  <2>1. plugs + 1 # 0
    BY LifecycleBounds DEF LifecycleTypeOK
  <2> QED BY <1>2, <2>1 DEF NoDevice
<1>4. plugged'[s].name = n
  BY <1>2
<1>5. \A t \in Sockets : ~Holds(t, n)
  BY <1>1 DEF FreeName, Holds
<1> QED BY <1>1, <1>2, <1>3, <1>4, <1>5 DEF Plug

LEMMA PlugQueue ==
    ASSUME LifecycleTypeOK, QueueInv, NEW s \in Sockets, Plug(s)
    PROVE  QueueInv'
<1> USE DEF QueueInv
<1>1. PICK n \in Names :
          /\ Notify(<<"add", "bind">>, s, n)
          /\ plugged[s] = NoDevice
          /\ \A t \in Sockets \ {s} : plugged'[t] = plugged[t]
          /\ plugged'[s] # NoDevice /\ plugged'[s].name = n
          /\ \A t \in Sockets : ~Holds(t, n)
          /\ UNCHANGED <<phase, found, states, refused>>
  BY PlugNames
<1>2. /\ \A t \in Sockets : \A m : t # s => (Holds(t, m)' <=> Holds(t, m))
      /\ \A m : ~Holds(s, m) /\ (Holds(s, m)' <=> m = n)
      /\ \A t \in Sockets : t # s => (Accepted(t)' <=> Accepted(t))
      /\ ~Accepted(s)
      /\ \A t \in Sockets : \A m : Uses(t, m)' <=> Uses(t, m)
      /\ \A b \in Buses : HasHub(b)' <=> HasHub(b)
  BY <1>1 DEF Holds, Accepted, Uses, HasHub
<1>3. NamesDiffer'
  BY <1>1, <1>2 DEF NamesDiffer
<1>4. CASE ~Monitors
  <2>1. phase = "down" /\ events' = events
    BY <1>1, <1>4 DEF Monitors, Notify
  <2>2. Idle'
    BY <1>1, <1>2, <1>3, <2>1 DEF Idle, PhaseInv
  <2> QED BY <2>2, IdleQueuePrime
<1>5. CASE Monitors
  <2> DEFINE L == Len(events)
  <2>1. /\ \A i, t, m : BindAt(events', i, t, m) <=>
               \/ BindAt(events, i, t, m)
               \/ i = L + 2 /\ t = s /\ m = n
        /\ \A i, m : RemoveAt(events', i, m) <=> RemoveAt(events, i, m)
        /\ L \in Nat /\ Len(events') = L + 2
    <3>1. <<"add", "bind">>[1] = "add" /\ <<"add", "bind">>[2] = "bind"
      OBVIOUS
    <3> QED BY <1>1, <1>5, <3>1, AddedPlaces DEF LifecycleTypeOK
  <2>2. /\ \A i, t, m : BindAt(events, i, t, m) => i \in 1 .. L /\ i \in Nat
        /\ \A i, m : RemoveAt(events, i, m) => i \in 1 .. L /\ i \in Nat
    BY <2>1, Places
  <2>3. Len(events) = L
    OBVIOUS
  <2> HIDE DEF L
  <2>4. \A i \in 1 .. L : i \in 1 .. L + 2 /\ i < L + 2
    BY <2>1
  <2>5. L + 2 \in 1 .. L + 2 /\ L + 2 \notin 1 .. L
    BY <2>1
  <2>6. LateRemoval'
    <3> SUFFICES ASSUME NEW t \in Sockets, NEW m \in Names,
                        NEW j \in 1 .. L + 2, Holds(t, m)', RemoveAt(events, j, m)
                 PROVE  \E i \in 1 .. L + 2 : j < i /\ BindAt(events', i, t, m)
      BY <2>1 DEF LateRemoval
    <3>1. CASE t = s
      BY <1>2, <2>1, <2>2, <2>4, <2>5, <3>1
    <3>2. CASE t # s
      BY <1>2, <2>1, <2>2, <2>3, <2>4, <3>2 DEF LateRemoval
    <3> QED BY <3>1, <3>2
  <2>7. HubsRight'
    <3> SUFFICES ASSUME NEW b \in Buses, HasHub(b)
                 PROVE  \/ \E j \in 1 .. L + 2 :
                               RemoveAt(events, j, states[b].path)
                        \/ \E t \in Sockets :
                               /\ HasBus(t) /\ BusNum(t) = b /\ Accepted(t)'
                               /\ Holds(t, states[b].path)'
                               /\ states[b].device = plugged'[t].id
      BY <1>1, <1>2, <2>1 DEF HubsRight
    <3>1. CASE \E j \in 1 .. L : RemoveAt(events, j, states[b].path)
      BY <2>4, <3>1
    <3>2. ASSUME NEW t \in Sockets, HasBus(t), BusNum(t) = b, Accepted(t),
                 Holds(t, states[b].path), states[b].device = plugged[t].id
          PROVE  /\ Accepted(t)' /\ Holds(t, states[b].path)'
                 /\ states[b].device = plugged'[t].id
      <4>1. t # s
        BY <1>2, <3>2
      <4> QED BY <1>1, <1>2, <3>2, <4>1
    <3> QED BY <2>3, <3>1, <3>2 DEF HubsRight
  <2>8. WillServe'
    <3> SUFFICES ASSUME NEW t \in Sockets, NEW m \in Names, Accepted(t)',
                        Holds(t, m)'
                 PROVE  \/ phase \in {"down", "monitoring"}
                        \/ [socket |-> t, name |-> m] \in found
                        \/ \E i \in 1 .. L + 2 : BindAt(events', i, t, m)
                        \/ plugged'[t].id \in refused
                        \/ /\ Uses(t, m)
                           /\ states[BusNum(t)].device = plugged'[t].id
      BY <1>1, <1>2, <2>1 DEF WillServe
    <3>1. CASE t = s
      BY <1>2, <2>1, <2>5, <3>1
    <3>2. CASE t # s
      <4>1. Accepted(t) /\ Holds(t, m) /\ plugged'[t] = plugged[t]
        BY <1>1, <1>2, <3>2
      <4>2. CASE \E i \in 1 .. L : BindAt(events, i, t, m)
        BY <2>1, <2>4, <4>2
      <4> QED BY <2>3, <4>1, <4>2 DEF WillServe
    <3> QED BY <3>1, <3>2
  <2>9. ASSUME NEW t \in Sockets, NEW m \in Names, NEW k \in 1 .. L + 2,
               Holds(t, m)', LiveAt(events', k, t, m)
        PROVE  \/ t = s /\ m = n /\ k = L + 2
               \/ t # s /\ k \in 1 .. L /\ LiveAt(events, k, t, m)
    <3>1. BindAt(events', k, t, m)
          /\ \A j \in 1 .. L + 2 : RemoveAt(events, j, m) => j < k
      BY <2>1, <2>9 DEF LiveAt
    <3>2. CASE t = s
      <4>1. m = n
        BY <1>2, <2>9, <3>2
      <4>2. ASSUME BindAt(events, k, s, n) PROVE FALSE
        <5>1. PICK j \in 1 .. L : k < j /\ RemoveAt(events, j, n)
          BY <1>2, <2>2, <2>3, <4>2 DEF StaleBinds, TakenBack
        <5>2. j < k
          BY <2>4, <3>1, <4>1, <5>1
        <5> QED BY <2>1, <2>2, <4>2, <5>1, <5>2
      <4> QED BY <2>1, <3>1, <3>2, <4>1, <4>2
    <3>3. CASE t # s
      <4>1. BindAt(events, k, t, m) /\ k \in 1 .. L
        BY <2>1, <2>2, <3>1, <3>3
      <4> QED BY <2>3, <2>4, <3>1, <3>3, <4>1 DEF LiveAt
    <3> QED BY <3>2, <3>3
  <2>10. WayIsClear'
    <3> SUFFICES ASSUME NEW t \in Sockets, NEW m \in Names, NEW w \in Names,
                        NEW k \in 1 .. L + 2, NEW j \in 1 .. L + 2,
                        Holds(t, m)', LiveAt(events', k, t, m), Uses(t, w),
                        RemoveAt(events, j, w)
                 PROVE  \E i \in 1 .. L + 2 : i < k /\ RemoveAt(events, i, w)
      BY <1>2, <2>1 DEF WayIsClear
    <3>1. j \in 1 .. L /\ j < L + 2
      BY <2>2, <2>4
    <3>2. CASE t = s /\ m = n /\ k = L + 2
      BY <2>4, <3>1, <3>2
    <3>3. CASE t # s /\ k \in 1 .. L /\ LiveAt(events, k, t, m)
      <4>1. Holds(t, m)
        BY <1>2, <3>3
      <4>2. PICK i \in 1 .. L : i < k /\ RemoveAt(events, i, w)
        BY <2>3, <3>1, <3>3, <4>1 DEF WayIsClear
      <4> QED BY <2>4, <4>2
    <3> QED BY <2>9, <3>2, <3>3
  <2>11. ASSUME NEW t \in Sockets, NEW m \in Names, NEW i \in Nat,
                i \in 1 .. L \/ i = 0, TakenBack(t, m, i)
         PROVE  TakenBack(t, m, i)'
    <3>1. PICK j \in 1 .. L : i < j /\ RemoveAt(events, j, m)
      BY <2>3, <2>11 DEF TakenBack
    <3>2. ASSUME NEW w \in Names, NEW k \in 1 .. L + 2, Holds(t, w)',
                 LiveAt(events', k, t, w), i < k
          PROVE  \E jj \in 1 .. L + 2 :
                     i < jj /\ jj < k /\ RemoveAt(events', jj, m)
      <4>1. CASE t = s /\ w = n /\ k = L + 2
        BY <2>1, <2>4, <3>1, <4>1
      <4>2. CASE t # s /\ k \in 1 .. L /\ LiveAt(events, k, t, w)
        <5>1. Holds(t, w)
          BY <1>2, <3>2, <4>2
        <5>2. PICK jj \in 1 .. L : i < jj /\ jj < k /\ RemoveAt(events, jj, m)
          BY <2>3, <2>11, <3>2, <4>2, <5>1 DEF TakenBack
        <5> QED BY <2>1, <2>4, <5>2
      <4> QED BY <2>9, <3>2, <4>1, <4>2
    <3>3. \E jj \in 1 .. L + 2 : i < jj /\ RemoveAt(events', jj, m)
      BY <2>1, <2>4, <3>1
    <3> QED BY <2>1, <3>2, <3>3 DEF TakenBack
  <2>12. StaleBinds'
    <3> SUFFICES ASSUME NEW t \in Sockets, NEW m \in Names, NEW i \in 1 .. L + 2,
                        BindAt(events', i, t, m), ~Holds(t, m)'
                 PROVE  TakenBack(t, m, i)'
      BY <2>1 DEF StaleBinds
    <3>1. BindAt(events, i, t, m) /\ ~Holds(t, m)
      BY <1>2, <2>1
    <3>2. i \in 1 .. L /\ i \in Nat /\ TakenBack(t, m, i)
      BY <2>2, <2>3, <3>1 DEF StaleBinds
    <3> QED BY <2>11, <3>2
  <2>13. StaleFound'
    <3> SUFFICES ASSUME NEW d \in found, ~Holds(d.socket, d.name)'
                 PROVE  TakenBack(d.socket, d.name, 0)'
      BY <1>1 DEF StaleFound
    <3>1. d.socket \in Sockets /\ d.name \in Names
      BY DEF LifecycleTypeOK, Found
    <3>2. ~Holds(d.socket, d.name)
      BY <1>2, <3>1
    <3>3. TakenBack(d.socket, d.name, 0)
      BY <3>2 DEF StaleFound
    <3> QED BY <2>11, <3>1, <3>3
  <2>14. FoundOnce'
    BY <1>1 DEF FoundOnce, HasHub
  <2>15. PhaseInv'
    BY <1>1, <1>2, <1>5 DEF PhaseInv, Monitors
  <2> QED BY <1>3, <2>6, <2>7, <2>8, <2>10, <2>12, <2>13, <2>14, <2>15
<1> QED BY <1>4, <1>5

\* The removal of a device goes to the end of the queue.
LEMMA UnplugQueue ==
    ASSUME LifecycleTypeOK, QueueInv, NEW s \in Sockets, Unplug(s)
    PROVE  QueueInv'
<1> USE DEF QueueInv
<1>1. PICK n \in Names : n = plugged[s].name
  BY DeviceTyped DEF Unplug
<1>2. /\ Notify(<<"unbind", "remove">>, s, n)
      /\ plugged[s] # NoDevice /\ plugged'[s] = NoDevice
      /\ \A t \in Sockets \ {s} : plugged'[t] = plugged[t]
      /\ UNCHANGED <<phase, found, states, refused>>
  BY <1>1 DEF Unplug, LifecycleTypeOK
<1>3. /\ \A t \in Sockets : \A m : t # s => (Holds(t, m)' <=> Holds(t, m))
      /\ \A m : ~Holds(s, m)' /\ (Holds(s, m) <=> m = n)
      /\ \A t \in Sockets : t # s => (Accepted(t)' <=> Accepted(t))
      /\ ~Accepted(s)'
      /\ \A t \in Sockets : \A m : Uses(t, m)' <=> Uses(t, m)
      /\ \A b \in Buses : HasHub(b)' <=> HasHub(b)
  BY <1>1, <1>2 DEF Holds, Accepted, Uses, HasHub
<1>4. NamesDiffer'
  BY <1>3 DEF NamesDiffer
<1>5. \A t \in Sockets, m \in Names : Holds(t, m)' => t # s /\ m # n
  BY <1>3 DEF NamesDiffer
<1>6. CASE ~Monitors
  <2>1. phase = "down" /\ events' = events
    BY <1>2, <1>6 DEF Monitors, Notify
  <2>2. Idle'
    BY <1>2, <1>3, <1>4, <2>1 DEF Idle, PhaseInv
  <2> QED BY <2>2, IdleQueuePrime
<1>7. CASE Monitors
  <2> DEFINE L == Len(events)
  <2>1. /\ \A i, t, m : BindAt(events', i, t, m) <=> BindAt(events, i, t, m)
        /\ \A i, m : RemoveAt(events', i, m) <=>
               \/ RemoveAt(events, i, m)
               \/ i = L + 2 /\ m = n
        /\ L \in Nat /\ Len(events') = L + 2
    <3>1. <<"unbind", "remove">>[1] = "unbind"
          /\ <<"unbind", "remove">>[2] = "remove"
      OBVIOUS
    <3> QED BY <1>2, <1>7, <3>1, AddedPlaces, SMTT(40) DEF LifecycleTypeOK
  <2>2. /\ \A i, t, m : BindAt(events, i, t, m) => i \in 1 .. L /\ i \in Nat
        /\ \A i, m : RemoveAt(events, i, m) => i \in 1 .. L /\ i \in Nat
    BY <2>1, Places
  <2>3. Len(events) = L
    OBVIOUS
  <2> HIDE DEF L
  <2>4. \A i \in 1 .. L : i \in 1 .. L + 2 /\ i < L + 2
    BY <2>1
  <2>5. L + 2 \in 1 .. L + 2 /\ L + 2 \notin 1 .. L
    BY <2>1
  <2>6. LateRemoval'
    <3> SUFFICES ASSUME NEW t \in Sockets, NEW m \in Names,
                        NEW j \in 1 .. L + 2, Holds(t, m)',
                        RemoveAt(events', j, m)
                 PROVE  \E i \in 1 .. L + 2 : j < i /\ BindAt(events', i, t, m)
      BY <2>1 DEF LateRemoval
    <3>1. t # s /\ m # n /\ Holds(t, m)
      BY <1>3, <1>5
    <3>2. RemoveAt(events, j, m) /\ j \in 1 .. L
      BY <2>1, <2>2, <3>1
    <3>3. PICK i \in 1 .. L : j < i /\ BindAt(events, i, t, m)
      BY <2>3, <3>1, <3>2 DEF LateRemoval
    <3> QED BY <2>1, <2>4, <3>3
  <2>7. HubsRight'
    <3> SUFFICES ASSUME NEW b \in Buses, HasHub(b)
                 PROVE  \/ \E j \in 1 .. L + 2 :
                               RemoveAt(events', j, states[b].path)
                        \/ \E t \in Sockets :
                               /\ HasBus(t) /\ BusNum(t) = b /\ Accepted(t)'
                               /\ Holds(t, states[b].path)'
                               /\ states[b].device = plugged'[t].id
      BY <1>2, <1>3, <2>1 DEF HubsRight
    <3>1. CASE \E j \in 1 .. L : RemoveAt(events, j, states[b].path)
      BY <2>1, <2>4, <3>1
    <3>2. ASSUME NEW t \in Sockets, HasBus(t), BusNum(t) = b, Accepted(t),
                 Holds(t, states[b].path), states[b].device = plugged[t].id
          PROVE  \/ \E j \in 1 .. L + 2 : RemoveAt(events', j, states[b].path)
                 \/ /\ Accepted(t)' /\ Holds(t, states[b].path)'
                    /\ states[b].device = plugged'[t].id
      <4>1. CASE t = s
        <5>1. states[b].path = n
          BY <1>3, <3>2, <4>1
        <5> QED BY <2>1, <2>5, <5>1
      <4>2. CASE t # s
        BY <1>2, <1>3, <3>2, <4>2 DEF Holds
      <4> QED BY <4>1, <4>2
    <3> QED BY <2>3, <3>1, <3>2 DEF HubsRight
  <2>8. WillServe'
    <3> SUFFICES ASSUME NEW t \in Sockets, NEW m \in Names, Accepted(t)',
                        Holds(t, m)'
                 PROVE  \/ phase \in {"down", "monitoring"}
                        \/ [socket |-> t, name |-> m] \in found
                        \/ \E i \in 1 .. L + 2 : BindAt(events', i, t, m)
                        \/ plugged'[t].id \in refused
                        \/ /\ Uses(t, m)
                           /\ states[BusNum(t)].device = plugged'[t].id
      BY <1>2, <1>3, <2>1 DEF WillServe
    <3>1. Accepted(t) /\ Holds(t, m) /\ plugged'[t] = plugged[t]
      BY <1>2, <1>3
    <3>2. CASE \E i \in 1 .. L : BindAt(events, i, t, m)
      BY <2>1, <2>4, <3>2
    <3> QED BY <2>3, <3>1, <3>2 DEF WillServe
  <2>9. ASSUME NEW t \in Sockets, NEW m \in Names, NEW k \in 1 .. L + 2,
               Holds(t, m)', LiveAt(events', k, t, m)
        PROVE  t # s /\ k \in 1 .. L /\ LiveAt(events, k, t, m) /\ Holds(t, m)
    <3>1. t # s /\ m # n /\ Holds(t, m)
      BY <1>3, <1>5, <2>9
    <3>2. BindAt(events, k, t, m) /\ k \in 1 .. L
      BY <2>1, <2>2, <2>9 DEF LiveAt
    <3>3. \A j \in 1 .. L : RemoveAt(events, j, m) => j < k
      BY <2>1, <2>4, <2>9 DEF LiveAt
    <3> QED BY <2>3, <3>1, <3>2, <3>3 DEF LiveAt
  <2>10. WayIsClear'
    <3> SUFFICES ASSUME NEW t \in Sockets, NEW m \in Names, NEW w \in Names,
                        NEW k \in 1 .. L + 2, NEW j \in 1 .. L + 2,
                        Holds(t, m)', LiveAt(events', k, t, m), Uses(t, w),
                        RemoveAt(events', j, w)
                 PROVE  \E i \in 1 .. L + 2 : i < k /\ RemoveAt(events', i, w)
      BY <1>3, <2>1 DEF WayIsClear
    <3>1. t # s /\ k \in 1 .. L /\ LiveAt(events, k, t, m) /\ Holds(t, m)
      BY <2>9
    <3>2. PICK i \in 1 .. L : RemoveAt(events, i, w)
      <4>1. CASE RemoveAt(events, j, w)
        BY <2>2, <4>1
      <4>2. CASE w = n /\ ~\E i \in 1 .. L : RemoveAt(events, i, n)
        <5>1. HasBus(t) /\ BusNum(t) \in Buses /\ HasHub(BusNum(t))
              /\ states[BusNum(t)].path = n
          BY <4>2, BusNumIsBus DEF Uses
        <5>2. PICK u \in Sockets : /\ HasBus(u) /\ BusNum(u) = BusNum(t)
                                   /\ Holds(u, n)
          BY <2>3, <4>2, <5>1 DEF HubsRight
        <5>3. u = t /\ u = s
          BY <1>3, <5>1, <5>2, OneSocket DEF NamesDiffer
        <5> QED BY <3>1, <5>3
      <4> QED BY <2>1, <4>1, <4>2
    <3>3. PICK ii \in 1 .. L : ii < k /\ RemoveAt(events, ii, w)
      BY <2>3, <3>1, <3>2 DEF WayIsClear
    <3> QED BY <2>1, <2>4, <3>3
  <2>11. ASSUME NEW t \in Sockets, NEW m \in Names, NEW i \in Nat,
                i \in 1 .. L \/ i = 0, ~Holds(t, m)',
                Holds(t, m) \/ TakenBack(t, m, i)
         PROVE  TakenBack(t, m, i)'
    <3>1. \E j \in 1 .. L + 2 : i < j /\ RemoveAt(events', j, m)
      <4>1. CASE Holds(t, m)
        <5>1. t = s /\ m = n
          BY <1>3, <2>11, <4>1
        <5>2. i < L + 2
          BY <2>1, <2>4, <2>11
        <5> QED BY <2>1, <2>5, <5>1, <5>2
      <4>2. CASE TakenBack(t, m, i)
        BY <2>1, <2>3, <2>4, <4>2 DEF TakenBack
      <4> QED BY <2>11, <4>1, <4>2
    <3>2. ASSUME NEW w \in Names, NEW k \in 1 .. L + 2, Holds(t, w)',
                 LiveAt(events', k, t, w), i < k
          PROVE  \E jj \in 1 .. L + 2 :
                     i < jj /\ jj < k /\ RemoveAt(events', jj, m)
      <4>1. t # s /\ k \in 1 .. L /\ LiveAt(events, k, t, w) /\ Holds(t, w)
        BY <2>9, <3>2
      <4>2. TakenBack(t, m, i)
        BY <1>3, <2>11, <4>1
      <4>3. PICK jj \in 1 .. L : i < jj /\ jj < k /\ RemoveAt(events, jj, m)
        BY <2>3, <3>2, <4>1, <4>2 DEF TakenBack
      <4> QED BY <2>1, <2>4, <4>3
    <3> QED BY <2>1, <3>1, <3>2 DEF TakenBack
  <2>12. StaleBinds'
    <3> SUFFICES ASSUME NEW t \in Sockets, NEW m \in Names, NEW i \in 1 .. L + 2,
                        BindAt(events', i, t, m), ~Holds(t, m)'
                 PROVE  TakenBack(t, m, i)'
      BY <2>1 DEF StaleBinds
    <3>1. BindAt(events, i, t, m) /\ i \in 1 .. L /\ i \in Nat
      BY <2>1, <2>2
    <3>2. Holds(t, m) \/ TakenBack(t, m, i)
      BY <2>3, <3>1 DEF StaleBinds
    <3> QED BY <2>11, <3>1, <3>2
  <2>13. StaleFound'
    <3> SUFFICES ASSUME NEW d \in found, ~Holds(d.socket, d.name)'
                 PROVE  TakenBack(d.socket, d.name, 0)'
      BY <1>2 DEF StaleFound
    <3>1. d.socket \in Sockets /\ d.name \in Names
      BY DEF LifecycleTypeOK, Found
    <3>2. Holds(d.socket, d.name) \/ TakenBack(d.socket, d.name, 0)
      BY DEF StaleFound
    <3> QED BY <2>11, <3>1, <3>2
  <2>14. FoundOnce'
    BY <1>2 DEF FoundOnce, HasHub
  <2>15. PhaseInv'
    BY <1>2, <1>3, <1>7 DEF PhaseInv, Monitors
  <2> QED BY <1>4, <2>6, <2>7, <2>8, <2>10, <2>12, <2>13, <2>14, <2>15
<1> QED BY <1>6, <1>7

(***************************************************************************)
(* The daemon catches up.                                                  *)
(***************************************************************************)

LEMMA QueueInit == Init => QueueInv
<1>1. Init => Idle
  BY DEF Init, Idle, NamesDiffer, Holds, HasHub
<1> QED BY <1>1, IdleQueue

LEMMA QueueNext == LifecycleInv /\ QueueInv /\ [Next]_vars => QueueInv'
<1> SUFFICES ASSUME LifecycleInv, QueueInv, [Next]_vars PROVE QueueInv'
  OBVIOUS
<1>0. LifecycleTypeOK
  BY DEF LifecycleInv
<1>1. CASE Daemon
  BY <1>0, <1>1, PhaseQueue, EnumerateQueue, HandleEventQueue DEF Daemon
<1>2. CASE DaemonEnds
  <2>1. NamesDiffer'
    BY <1>2 DEF DaemonEnds, QueueInv, NamesDiffer, Holds
  <2>2. Idle'
    BY <1>2, <2>1 DEF DaemonEnds, Idle, HasHub
  <2> QED BY <2>2, IdleQueuePrime
<1>3. CASE \E s \in Sockets : Plug(s) \/ Unplug(s)
  BY <1>0, <1>3, PlugQueue, UnplugQueue
<1>4. CASE UNCHANGED vars
  <2>1. UNCHANGED <<plugged, phase, events, found, states, refused>>
    BY <1>4 DEF vars
  <2>2. /\ NamesDiffer' /\ LateRemoval' /\ HubsRight' /\ WillServe'
        /\ WayIsClear'
    BY <2>1 DEF QueueInv, NamesDiffer, LateRemoval, HubsRight, WillServe,
       WayIsClear, Holds, Uses, Accepted, HasHub
  <2>3. StaleBinds' /\ StaleFound' /\ FoundOnce' /\ PhaseInv'
    BY <2>1 DEF QueueInv, StaleBinds, StaleFound, TakenBack, FoundOnce,
       PhaseInv, Holds, HasHub
  <2> QED BY <2>2, <2>3 DEF QueueInv
<1> QED BY <1>1, <1>2, <1>3, <1>4 DEF Next

\* With no event left, the hubs are what is plugged in.
LEMMA QueueSettled == LifecycleInv /\ QueueInv => CaughtUp
<1> SUFFICES ASSUME LifecycleTypeOK, QueueInv, phase = "running", events = << >>
             PROVE  Presence!Settled
  BY DEF LifecycleInv, CaughtUp
<1> USE DEF QueueInv
<1> DEFINE S == {t \in Sockets : HasBus(t)}
           Of == [s \in S |-> BusNum(s)]
           K == {"hub", "unknown model"}
           Want(s) == IF plugged[s].kind \in K THEN plugged[s].id ELSE 0
<1>1. \A j \in 1 .. Len(events) : FALSE
  OBVIOUS
<1>2. found = {}
  BY DEF PhaseInv
<1>3. \A s \in Sockets : Accepted(s) <=> HasBus(s) /\ plugged[s].kind \in K
  <2>1. NoDevice.kind \notin K
    BY DEF NoDevice
  <2> QED BY <2>1 DEF Accepted, Serves
<1>4. ASSUME NEW b \in Buses
      PROVE  LET W == {Want(s) : s \in {t \in DOMAIN Of : Of[t] = b}}
             IN  \/ Served[b] = 0 /\ W \subseteq refused \cup {0}
                 \/ Served[b] \in W
  <2> DEFINE W == {Want(s) : s \in {t \in DOMAIN Of : Of[t] = b}}
  <2>1. Served[b] = states[b].device
    BY DEF Served
  <2>2. CASE HasHub(b)
    <3>1. PICK s \in Sockets : /\ HasBus(s) /\ BusNum(s) = b /\ Accepted(s)
                               /\ states[b].device = plugged[s].id
      BY <1>1, <2>2 DEF HubsRight
    <3>2. s \in DOMAIN Of /\ Of[s] = b /\ Want(s) = plugged[s].id
      BY <1>3, <3>1
    <3> QED BY <2>1, <3>1, <3>2
  <2>3. CASE ~HasHub(b)
    <3>1. Served[b] = 0
      BY <2>1, <2>3 DEF HasHub, NoHub
    <3>2. ASSUME NEW s \in Sockets, HasBus(s), BusNum(s) = b
          PROVE  Want(s) \in refused \cup {0}
      <4>1. CASE Accepted(s)
        <5>1. plugged[s] # NoDevice /\ Holds(s, plugged[s].name)
              /\ plugged[s].name \in Names
          BY <4>1, DeviceTyped DEF Accepted, Holds
        <5>2. ~Uses(s, plugged[s].name)
          BY <2>3, <3>2 DEF Uses
        <5>3. plugged[s].id \in refused
          BY <1>1, <1>2, <4>1, <5>1, <5>2 DEF WillServe
        <5> QED BY <1>3, <4>1, <5>3
      <4>2. CASE ~Accepted(s)
        BY <1>3, <3>2, <4>2
      <4> QED BY <4>1, <4>2
    <3> QED BY <3>1, <3>2
  <2> QED BY <2>2, <2>3
<1> QED BY <1>4 DEF Presence!Settled, Presence!Wanted

\* Whenever the daemon has handled all its events, every bus serves the device
\* in its socket and nothing else, unless the port could not be opened: for
\* every number of sockets, names and devices, any order in which they are
\* plugged in and out, before, during and after the enumeration, and any
\* number of restarts.  No event is handled too early, too late or in vain.
THEOREM CatchesUp == Spec => []CaughtUp
  BY LifecycleInit, LifecycleNext, QueueInit, QueueNext, QueueSettled, PTL
  DEF Spec
=============================================================================
