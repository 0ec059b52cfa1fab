------------------------------ MODULE MCReceive ------------------------------
(***************************************************************************)
(* Packets and noise for ReceiveStateMachine.                              *)
(***************************************************************************)
EXTENDS ReceiveStateMachine

\* A packet as the hub and SendPacket lay it out, from hub 2 in answer to
\* request ref.
PacketBytes(ref, payload) ==
    LET body == <<First, Second, (MinLength + Len(payload)) % 256,
                  (MinLength + Len(payload)) \div 256, 0, 2, 0, ref, 1, 127>>
                \o payload
    IN  Append(body, CalcChecksum(body))

\* Without a payload, and with one that looks like the start of a packet.
SomePackets == {PacketBytes(9, << >>), PacketBytes(68, <<First, Second, 12>>)}

CutShort(packet, n) == SubSeq(packet, 1, Len(packet) - n)
LengthField(lo, hi) == <<First, Second, lo, hi, 0, 2, 0, 9, 1, 127>>

\* Harmless bytes, stray first bytes, packets that lost some of their bytes,
\* and headers whose length is too small or too large.
SomeNoise ==
    {<<0>>, <<Second>>, <<First>>,
     CutShort(PacketBytes(9, << >>), 1), CutShort(PacketBytes(9, <<5, 5>>), 4),
     LengthField(10, 0), LengthField(1, 4)}
=============================================================================
