----------------------------- MODULE HubPresence -----------------------------
(***************************************************************************)
(* What the daemon promises about the hubs that are plugged in, whatever   *)
(* udev, the enumeration, restarts and file descriptors do: a bus talks to *)
(* one device at a time, it never changes over from one device to another  *)
(* without letting go of the first, and a device that stays plugged in is  *)
(* served in the end, unless its serial port could not be opened.          *)
(***************************************************************************)
EXTENDS Naturals

CONSTANTS
    Bus,               \* the buses
    Socket,            \* the positions a device can be plugged into
    BusOf,             \* the bus of every socket that has one
    Kind               \* the kinds of devices the daemon takes

VARIABLES
    present,           \* the device in every socket, or none
    served,            \* the device every bus talks to, 0 for none
    refused            \* devices whose serial port could not be opened

vars == <<present, served, refused>>

Devices == {present[s].id : s \in Socket} \ {0}

Init ==
    /\ served = [b \in Bus |-> 0]
    /\ refused = {}

PlugOrUnplug(s) ==
    /\ \A t \in Socket \ {s} : present'[t] = present[t]
    /\ UNCHANGED <<served, refused>>

Attach(b) ==
    /\ served[b] = 0
    /\ \E d \in Devices : served' = [served EXCEPT ![b] = d]
    /\ UNCHANGED <<present, refused>>

\* Some buses let go of their devices: one that is removed, or all of them
\* when the daemon ends.
Release ==
    /\ \A b \in Bus : served'[b] \in {0, served[b]}
    /\ served' \in [Bus -> {0} \cup {served[b] : b \in Bus}]
    /\ UNCHANGED <<present, refused>>

Refuse ==
    /\ \E d \in Devices : refused' = refused \cup {d}
    /\ UNCHANGED <<present, served>>

Next ==
    \/ \E s \in Socket : PlugOrUnplug(s)
    \/ \E b \in Bus : Attach(b)
    \/ Release
    \/ Refuse

\* The device in a socket that the daemon takes, 0 for none.
Wanted(s) == IF present[s].kind \in Kind THEN present[s].id ELSE 0

\* Every bus serves the device in its socket; a bus without a socket, and one
\* whose port could not be opened, serves nothing.
Settled ==
    \A b \in Bus :
        LET wanted == {Wanted(s) : s \in {t \in DOMAIN BusOf : BusOf[t] = b}}
        IN  \/ served[b] = 0 /\ wanted \subseteq refused \cup {0}
            \/ served[b] \in wanted

Safety == Init /\ [][Next]_vars

Spec == Safety /\ <>[]Settled
=============================================================================
