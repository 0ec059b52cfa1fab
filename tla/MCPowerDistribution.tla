------------------------- MODULE MCPowerDistribution -------------------------
(***************************************************************************)
(* Frames for TLC.                                                         *)
(***************************************************************************)
EXTENDS PowerDistribution

StatusFrame(manufacturer, api, device) ==
    [fields |-> [type |-> 8, manufacturer |-> manufacturer, api |-> api,
                 device |-> device],
     eff |-> TRUE, rtr |-> FALSE, err |-> FALSE, size |-> "CAN_MTU"]

Rev == StatusFrame(5, 97, 1)

\* Status frames, at the edges of the ranges too, of two devices, and a remote
\* frame with the identifier of one.
StatusFrames ==
    {Rev, [Rev EXCEPT !.rtr = TRUE], StatusFrame(5, 96, 63),
     StatusFrame(5, 99, 1), StatusFrame(4, 80, 0), StatusFrame(4, 82, 0),
     StatusFrame(4, 93, 0)}

\* Frames that are no status frames for one reason each.
OtherFrames ==
    {StatusFrame(5, 95, 1), StatusFrame(5, 100, 1), StatusFrame(4, 84, 0),
     StatusFrame(5, 93, 1), StatusFrame(4, 83, 0), StatusFrame(4, 97, 0), StatusFrame(6, 97, 1),
     StatusFrame(3, 80, 0), [Rev EXCEPT !.fields.type = 9],
     [Rev EXCEPT !.fields.type = 24], [Rev EXCEPT !.eff = FALSE],
     [Rev EXCEPT !.err = TRUE], [Rev EXCEPT !.rtr = TRUE, !.eff = FALSE],
     [Rev EXCEPT !.size = "CANFD_MTU"], [Rev EXCEPT !.size = "other"]}

ManyFrames == StatusFrames \cup OtherFrames
=============================================================================
