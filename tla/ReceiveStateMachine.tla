------------------------- MODULE ReceiveStateMachine -------------------------
(***************************************************************************)
(* expansionhub/ReceiveStateMachine.h: cuts the bytes that read() returns  *)
(* into packets and hands each, with the checksum it has summed up, to     *)
(* onPacket (ExpansionHubSerial::HandlePayload).                           *)
(*                                                                         *)
(* A read() returns any number of the bytes on the line, so a packet may   *)
(* arrive in any number of pieces; Recover, on the timer, resets the       *)
(* machine between two reads.  One iteration of the loop of HandleBytes is *)
(* one step, and no other callback runs while the buffer is not empty.     *)
(***************************************************************************)
EXTENDS Integers, Sequences

CONSTANTS
    Packets,           \* the packets the hub may send
    Noise,             \* what else may be on the line: byte sequences
    MaxItems,          \* bound: how many of them are sent
    MaxRecovers,       \* bound: how often the machine is reset
    MaxRead            \* bound: bytes that one read() returns

Byte == 0 .. 255

ASSUME PacketsAssumption == Packets \subseteq Seq(Byte)
ASSUME NoiseAssumption == Noise \subseteq Seq(Byte)
ASSUME ReceiveBoundsAssumption ==
    MaxItems \in Nat /\ MaxRecovers \in Nat /\ MaxRead \in Nat \ {0}

VARIABLES
    state,             \* _state
    bytesToReceive,    \* _bytesToReceive
    crc,               \* _crc, a uint8_t
    storage,           \* _storage
    buffer,            \* what HandleBytes has not looked at of its buffer
    line,              \* the bytes on the line that were not read
    delivered,         \* history: the arguments of the calls of onPacket
    sent,              \* history: the packets sent
    inSync,            \* history: the line carried nothing but packets
    left               \* what is left of the bounds

machine == <<state, bytesToReceive, crc, storage>>
history == <<sent, inSync, left>>
vars == <<state, bytesToReceive, crc, storage, buffer, line, delivered, sent,
          inSync, left>>

States == {"FirstByte", "SecondByte", "Header", "Payload", "Crc"}

First == 68            \* 0x44
Second == 75           \* 0x4B
HeaderSize == 10
MinLength == 11
MaxLength == 1024

ReceiveTypeOK ==
    /\ state \in States
    /\ bytesToReceive \in Nat
    /\ crc \in Byte
    /\ storage \in Seq(Byte)
    /\ buffer \in Seq(Byte)
    /\ line \in Seq(Byte)
    /\ delivered \in Seq([data : Seq(Byte), crc : Byte])
    /\ sent \in Seq(Packets)
    /\ inSync \in BOOLEAN
    /\ left \in [items : 0 .. MaxItems, recovers : 0 .. MaxRecovers]

\* CalcChecksum: the sum of the bytes, in a uint8_t.
CalcChecksum(bytes) ==
    LET sum[i \in 0 .. Len(bytes)] ==
            IF i = 0 THEN 0 ELSE (sum[i - 1] + bytes[i]) % 256
    IN  sum[Len(bytes)]

\* Mutant: the sum is not kept in a uint8_t.
AddWithoutWrap(bytes) == crc + CalcChecksum(bytes)

\* _crc += value for every value of a sequence.
AddToCrc(bytes) == (crc + CalcChecksum(bytes)) % 256

\* The length field of a packet: two bytes, the low one first.
PacketLength(bytes) == bytes[3] + 256 * bytes[4]

Last(bytes) == bytes[Len(bytes)]

\* The packets of the hub are laid out the way SendPacket lays out its own:
\* framed, as long as they say, the checksum of all the rest last.
ASSUME PacketsFramed ==
    \A p \in Packets :
        /\ p[1] = First /\ p[2] = Second
        /\ MinLength <= Len(p) /\ Len(p) <= MaxLength
        /\ PacketLength(p) = Len(p)
        /\ Last(p) = CalcChecksum(SubSeq(p, 1, Len(p) - 1))

(***************************************************************************)
(* HandleBytes: one step per case, and per branch where a case has one.    *)
(***************************************************************************)

\* The bytes the Header and the Payload case still want, and the ones they
\* can copy.
NumNeeded ==
    IF state = "Header" THEN HeaderSize - Len(storage)
                        ELSE bytesToReceive - (Len(storage) - HeaderSize)

CanCopy == IF NumNeeded <= Len(buffer) THEN NumNeeded ELSE Len(buffer)

\* How far an iteration of the loop advances.
BytesToAdvance == IF state \in {"Header", "Payload"} THEN CanCopy ELSE 1

Copied == SubSeq(buffer, 1, CanCopy)

Iteration(case) ==
    /\ buffer # << >>
    /\ state = case
    /\ buffer' = SubSeq(buffer, BytesToAdvance + 1, Len(buffer))
    /\ UNCHANGED <<line, history>>

FirstByteFound ==
    /\ Iteration("FirstByte")
    /\ Head(buffer) = First
    /\ storage' = Append(storage, First)
    /\ state' = "SecondByte"
    /\ crc' = (crc + First) % 256
    /\ UNCHANGED <<bytesToReceive, delivered>>

FirstByteSkipped ==
    /\ Iteration("FirstByte")
    /\ Head(buffer) # First
    /\ UNCHANGED <<machine, delivered>>

SecondByteFound ==
    /\ Iteration("SecondByte")
    /\ Head(buffer) = Second
    /\ storage' = Append(storage, Second)
    /\ state' = "Header"
    /\ crc' = (crc + Second) % 256
    /\ UNCHANGED <<bytesToReceive, delivered>>

\* The checksum keeps the first byte.
SecondByteMissing ==
    /\ Iteration("SecondByte")
    /\ Head(buffer) # Second
    /\ storage' = << >>
    /\ state' = "FirstByte"
    /\ UNCHANGED <<bytesToReceive, crc, delivered>>

Copy ==
    /\ storage' = storage \o Copied
    /\ crc' = AddToCrc(Copied)

HeaderPart ==
    /\ Iteration("Header")
    /\ CanCopy # NumNeeded
    /\ Copy
    /\ UNCHANGED <<state, bytesToReceive, delivered>>

\* Mutant: a length that leaves no room for the checksum is accepted.
LengthAtLeastHeader(length) == length >= HeaderSize /\ length <= MaxLength

LengthAccepted(length) == length >= MinLength /\ length <= MaxLength

\* Mutant: a packet without a payload waits for one.
PayloadAlways(payloadSize) == "Payload"

\* What follows the header.
AfterHeader(payloadSize) == IF payloadSize > 0 THEN "Payload" ELSE "Crc"

HeaderDone ==
    LET length == PacketLength(storage \o Copied)
    IN  /\ Iteration("Header")
        /\ CanCopy = NumNeeded
        /\ LengthAccepted(length)
        /\ Copy
        /\ state' = AfterHeader(length - MinLength)
        /\ bytesToReceive' = IF AfterHeader(length - MinLength) = "Payload"
                             THEN length - MinLength ELSE bytesToReceive
        /\ UNCHANGED delivered

HeaderRefused ==
    /\ Iteration("Header")
    /\ CanCopy = NumNeeded
    /\ ~LengthAccepted(PacketLength(storage \o Copied))
    /\ storage' = << >>
    /\ crc' = 0
    /\ state' = "FirstByte"
    /\ UNCHANGED <<bytesToReceive, delivered>>

Payload ==
    /\ Iteration("Payload")
    /\ Copy
    /\ state' = IF CanCopy = NumNeeded THEN "Crc" ELSE "Payload"
    /\ UNCHANGED <<bytesToReceive, delivered>>

Crc ==
    /\ Iteration("Crc")
    /\ delivered' = Append(delivered,
                           [data |-> Append(storage, Head(buffer)),
                            crc |-> crc])
    /\ state' = "FirstByte"
    /\ storage' = << >>
    /\ crc' = 0
    /\ UNCHANGED bytesToReceive

HandleBytes ==
    \/ FirstByteFound \/ FirstByteSkipped
    \/ SecondByteFound \/ SecondByteMissing
    \/ HeaderPart \/ HeaderDone \/ HeaderRefused
    \/ Payload \/ Crc

(***************************************************************************)
(* The callbacks that use the machine, and the line.                       *)
(***************************************************************************)

\* DoRead: read() returned n bytes, which HandleBytes works off.
DoRead ==
    /\ buffer = << >>
    /\ \E n \in 1 .. MaxRead :
           /\ n <= Len(line)
           /\ buffer' = SubSeq(line, 1, n)
           /\ line' = SubSeq(line, n + 1, Len(line))
    /\ UNCHANGED <<machine, delivered, history>>

\* Mutant: the checksum of the packet that was cut off is kept.
ResetKeepsCrc == storage' = << >> /\ state' = "FirstByte" /\ crc' = crc

Reset == storage' = << >> /\ state' = "FirstByte" /\ crc' = 0

\* Recover resets the machine; what is on the line stays there.
Recover ==
    /\ buffer = << >>
    /\ left.recovers > 0
    /\ Reset
    /\ left' = [left EXCEPT !.recovers = @ - 1]
    /\ inSync' = (line = << >>)
    /\ sent' = << >>
    /\ delivered' = << >>
    /\ UNCHANGED <<bytesToReceive, buffer, line>>

Send(bytes) ==
    /\ left.items > 0
    /\ left' = [left EXCEPT !.items = @ - 1]
    /\ line' = line \o bytes
    /\ UNCHANGED <<machine, buffer, delivered>>

SendPacket ==
    \E p \in Packets : /\ Send(p)
                       /\ sent' = Append(sent, p)
                       /\ UNCHANGED inSync

\* Bytes between packets are harmless when none could start a packet.
SendNoise ==
    \E q \in Noise : /\ Send(q)
                     /\ inSync' = (inSync /\ \A i \in DOMAIN q : q[i] # First)
                     /\ UNCHANGED sent

Init ==
    /\ state = "FirstByte" /\ bytesToReceive = 0 /\ crc = 0 /\ storage = << >>
    /\ buffer = << >> /\ line = << >>
    /\ delivered = << >> /\ sent = << >> /\ inSync = TRUE
    /\ left = [items |-> MaxItems, recovers |-> MaxRecovers]

Next == HandleBytes \/ DoRead \/ Recover \/ SendPacket \/ SendNoise

Spec == Init /\ [][Next]_vars

(***************************************************************************)
(* Properties.                                                             *)
(***************************************************************************)

\* assert(bytesToAdvance != 0): every iteration of the loop in HandleBytes
\* makes progress, and the unsigned subtractions that size the copies do not
\* wrap, however the bytes are spread over reads and resets.
AlwaysAdvances == buffer # << >> => BytesToAdvance >= 1

\* What HandlePayload relies on when it indexes a packet: it is framed, long
\* enough for its header and checksum, and as long as it says.
DeliveredWellFormed ==
    \A i \in DOMAIN delivered :
        LET data == delivered[i].data
        IN  /\ data[1] = First /\ data[2] = Second
            /\ MinLength <= Len(data) /\ Len(data) <= MaxLength
            /\ Len(data) = PacketLength(data)

\* The checksum test of HandlePayload passes.
Accepted(i) == delivered[i].crc = Last(delivered[i].data)

\* As long as nothing but packets and harmless bytes was on the line since the
\* machine was last reset with an empty line, every packet is delivered, in
\* order, once, and passes its checksum, in whatever pieces it is read.
Synchronised ==
    inSync =>
        /\ Len(delivered) <= Len(sent)
        /\ \A i \in DOMAIN delivered :
               delivered[i].data = sent[i] /\ Accepted(i)
        /\ line = << >> /\ buffer = << >> => Len(delivered) = Len(sent)
=============================================================================
