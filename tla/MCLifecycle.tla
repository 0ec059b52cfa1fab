----------------------------- MODULE MCLifecycle -----------------------------
(***************************************************************************)
(* Sockets for TLC.                                                        *)
(***************************************************************************)
EXTENDS DeviceLifecycle

Socket(last) == [root |-> TRUE, last |-> last]

TwoBuses == {Socket(1), Socket(2)}
=============================================================================
