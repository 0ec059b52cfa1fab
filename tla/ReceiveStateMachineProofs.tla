---------------------- MODULE ReceiveStateMachineProofs ----------------------
(***************************************************************************)
(* Theorems about ReceiveStateMachine, for all packets, all noise and all  *)
(* the ways in which read() cuts them up.                                  *)
(***************************************************************************)
EXTENDS ReceiveStateMachine, SequenceTheorems, WellFoundedInduction, TLAPS

(***************************************************************************)
(* The inductive invariant: what is stored in each state of the machine.   *)
(***************************************************************************)

Framed(bytes) == bytes[1] = First /\ bytes[2] = Second

StorageShape ==
    /\ state = "FirstByte" => storage = << >>
    /\ state = "SecondByte" => storage[1] = First /\ Len(storage) = 1
    /\ state = "Header" => /\ Framed(storage)
                           /\ 2 <= Len(storage) /\ Len(storage) < HeaderSize
    /\ state = "Payload" =>
           /\ Framed(storage)
           /\ Len(storage) >= HeaderSize
           /\ Len(storage) - HeaderSize < bytesToReceive
           /\ PacketLength(storage) = bytesToReceive + MinLength
           /\ bytesToReceive + MinLength <= MaxLength
    /\ state = "Crc" =>
           /\ Framed(storage)
           /\ Len(storage) >= HeaderSize
           /\ PacketLength(storage) = Len(storage) + 1
           /\ Len(storage) + 1 <= MaxLength

StorageTypes ==
    /\ state \in States
    /\ bytesToReceive \in Nat
    /\ storage \in Seq(Byte)
    /\ buffer \in Seq(Byte)
    /\ line \in Seq(Byte)
    /\ \E S : delivered \in Seq(S)

ReceiveInv ==
    /\ StorageTypes
    /\ StorageShape
    /\ DeliveredWellFormed

(***************************************************************************)
(* Taking bytes off the buffer.                                            *)
(***************************************************************************)

\* The two parts of a sequence of bytes.
LEMMA Parts ==
    ASSUME NEW q \in Seq(Byte), NEW n \in Nat, n <= Len(q)
    PROVE  /\ SubSeq(q, 1, n) \in Seq(Byte)
           /\ Len(SubSeq(q, 1, n)) = n
           /\ SubSeq(q, n + 1, Len(q)) \in Seq(Byte)
  <1>1. Len(q) \in Nat /\ \A i \in 1 .. Len(q) : q[i] \in Byte
    BY LenProperties, ElementOfSeq
  <1>2. \A i \in 1 .. n : q[i] \in Byte
    BY <1>1
  <1>3. \A i \in n + 1 .. Len(q) : q[i] \in Byte
    BY <1>1
  <1>4. SubSeq(q, n + 1, Len(q)) \in Seq(Byte)
    BY <1>1, <1>3, SubSeqProperties
  <1>5. /\ SubSeq(q, 1, n) \in Seq(Byte)
        /\ Len(SubSeq(q, 1, n)) = IF 1 <= n THEN n - 1 + 1 ELSE 0
    BY <1>2, SubSeqProperties
  <1>6. (IF 1 <= n THEN n - 1 + 1 ELSE 0) = n
    OBVIOUS
  <1> QED
    BY <1>4, <1>5, <1>6

\* Two bytes make a natural number.
LEMMA TwoBytes ==
    ASSUME NEW lo \in 0 .. 255, NEW hi \in 0 .. 255
    PROVE  lo + 256 * hi \in Nat
  OBVIOUS

\* The copies are never sized by a subtraction that wrapped, and there is
\* always something to copy.
LEMMA CanCopyRange ==
    ASSUME StorageTypes, StorageShape, buffer # << >>,
           state \in {"Header", "Payload"}
    PROVE  /\ NumNeeded \in Nat /\ NumNeeded >= 1
           /\ CanCopy \in Nat /\ CanCopy >= 1 /\ CanCopy <= Len(buffer)
           /\ CanCopy <= NumNeeded
  <1>1. Len(buffer) \in Nat \ {0} /\ Len(storage) \in Nat
    BY EmptySeq, LenProperties DEF StorageTypes
  <1>2. NumNeeded \in Nat /\ NumNeeded >= 1
    <2>1. CASE state = "Header"
      <3>1. 2 <= Len(storage) /\ Len(storage) < HeaderSize
        BY <2>1 DEF StorageShape
      <3>2. NumNeeded = HeaderSize - Len(storage)
        BY <2>1 DEF NumNeeded
      <3> QED
        BY <1>1, <3>1, <3>2 DEF HeaderSize
    <2>2. CASE state = "Payload"
      <3>1. /\ Len(storage) >= HeaderSize /\ bytesToReceive \in Nat
            /\ Len(storage) - HeaderSize < bytesToReceive
        BY <2>2 DEF StorageShape, StorageTypes
      <3>2. NumNeeded = bytesToReceive - (Len(storage) - HeaderSize)
        BY <2>2 DEF NumNeeded
      <3> QED
        BY <1>1, <3>1, <3>2 DEF HeaderSize
    <2> QED
      BY <2>1, <2>2
  <1> QED
    BY <1>1, <1>2 DEF CanCopy

\* The invariant contains what the assertion of HandleBytes says.
LEMMA InvAdvances ==
    ASSUME StorageTypes, StorageShape
    PROVE  AlwaysAdvances
  <1> SUFFICES ASSUME buffer # << >>
               PROVE  BytesToAdvance >= 1
    BY DEF AlwaysAdvances
  <1>1. CASE state \in {"Header", "Payload"}
    BY <1>1, CanCopyRange DEF BytesToAdvance
  <1>2. CASE state \notin {"Header", "Payload"}
    BY <1>2 DEF BytesToAdvance
  <1> QED
    BY <1>1, <1>2

\* An iteration leaves a sequence of bytes in the buffer.
LEMMA IterationTypes ==
    ASSUME StorageTypes, StorageShape, NEW case, Iteration(case)
    PROVE  /\ buffer' \in Seq(Byte) /\ line' \in Seq(Byte)
           /\ Head(buffer) \in Byte
  <1>1. Len(buffer) \in Nat \ {0} /\ Head(buffer) \in Byte
    BY EmptySeq, HeadTailProperties DEF StorageTypes, Iteration
  <1>2. BytesToAdvance \in Nat /\ BytesToAdvance <= Len(buffer)
    <2>1. CASE state \in {"Header", "Payload"}
      BY <2>1, CanCopyRange DEF BytesToAdvance, Iteration
    <2>2. CASE state \notin {"Header", "Payload"}
      BY <1>1, <2>2 DEF BytesToAdvance
    <2> QED
      BY <2>1, <2>2
  <1>3. buffer' \in Seq(Byte)
    <2> DEFINE n == BytesToAdvance
    <2>1. buffer' = SubSeq(buffer, n + 1, Len(buffer))
      BY DEF Iteration
    <2>2. n \in Nat /\ n <= Len(buffer) /\ buffer \in Seq(Byte)
      BY <1>2 DEF StorageTypes
    <2> HIDE DEF n
    <2> QED
      BY <2>1, <2>2, Parts
  <1> QED
    BY <1>1, <1>3 DEF Iteration, StorageTypes

\* What a copy appends leaves the start of the storage as it is.
LEMMA CopyShape ==
    ASSUME StorageTypes, StorageShape, buffer # << >>,
           state \in {"Header", "Payload"}
    PROVE  /\ storage \o Copied \in Seq(Byte)
           /\ Len(storage \o Copied) = Len(storage) + CanCopy
           /\ Framed(storage \o Copied)
           /\ Len(storage) >= 4
                  => PacketLength(storage \o Copied) = PacketLength(storage)
           /\ Len(storage) + CanCopy >= 4
                  => PacketLength(storage \o Copied) \in Nat
  <1> DEFINE new == storage \o Copied
  <1>1. CanCopy \in Nat /\ CanCopy <= Len(buffer)
    BY CanCopyRange
  <1>2. Copied \in Seq(Byte) /\ Len(Copied) = CanCopy
    <2> HIDE DEF CanCopy
    <2> QED
      BY <1>1, Parts DEF Copied, StorageTypes
  <1>3. storage \in Seq(Byte) /\ Len(storage) \in Nat /\ Len(storage) >= 2
        /\ Framed(storage)
    <2>1. storage \in Seq(Byte) /\ Len(storage) \in Nat
      BY LenProperties DEF StorageTypes
    <2>2. /\ Framed(storage)
          /\ 2 <= Len(storage) \/ Len(storage) >= HeaderSize
      BY DEF StorageShape
    <2> QED
      BY <2>1, <2>2 DEF HeaderSize
  <1> HIDE DEF Copied, CanCopy
  <1>4. /\ new \in Seq(Byte) /\ Len(new) = Len(storage) + CanCopy
        /\ \A i \in 1 .. Len(storage) + CanCopy :
               new[i] = IF i <= Len(storage)
                        THEN storage[i] ELSE Copied[i - Len(storage)]
    BY <1>2, <1>3, ConcatProperties
  <1> HIDE DEF new
  <1>5. \A i \in 1 .. Len(storage) : new[i] = storage[i]
    BY <1>1, <1>3, <1>4
  <1>6. Framed(new)
    BY <1>3, <1>5 DEF Framed
  <1>7. Len(storage) >= 4 => PacketLength(new) = PacketLength(storage)
    BY <1>3, <1>5 DEF PacketLength
  <1>8. Len(storage) + CanCopy >= 4 => PacketLength(new) \in Nat
    <2> HAVE Len(storage) + CanCopy >= 4
    <2>1. 3 \in 1 .. Len(new) /\ 4 \in 1 .. Len(new)
      BY <1>1, <1>3, <1>4
    <2>2. new[3] \in 0 .. 255 /\ new[4] \in 0 .. 255
      BY <1>4, <2>1, ElementOfSeq DEF Byte
    <2>3. new[3] + 256 * new[4] \in Nat
      BY <2>2, TwoBytes
    <2> QED
      BY <2>3 DEF PacketLength
  <1> QED
    BY <1>4, <1>6, <1>7, <1>8 DEF new

(***************************************************************************)
(* The steps preserve the inductive invariant.                             *)
(***************************************************************************)

LEMMA HeaderStep ==
    ASSUME ReceiveInv, HeaderPart \/ HeaderDone \/ HeaderRefused
    PROVE  ReceiveInv'
  <1> DEFINE new == storage \o Copied
  <1>1. Iteration("Header") /\ delivered' = delivered
    BY DEF HeaderPart, HeaderDone, HeaderRefused
  <1>2. StorageTypes /\ StorageShape /\ DeliveredWellFormed
        /\ buffer # << >> /\ state = "Header"
    BY <1>1 DEF ReceiveInv, Iteration
  <1>3. /\ NumNeeded = HeaderSize - Len(storage)
        /\ 2 <= Len(storage) /\ Len(storage) < HeaderSize
        /\ Len(storage) \in Nat
        /\ CanCopy \in Nat /\ CanCopy <= NumNeeded
    BY <1>2, CanCopyRange, LenProperties
       DEF NumNeeded, StorageShape, StorageTypes
  <1>4. /\ new \in Seq(Byte) /\ Len(new) = Len(storage) + CanCopy
        /\ Framed(new)
        /\ Len(storage) + CanCopy >= 4 => PacketLength(new) \in Nat
    BY <1>2, CopyShape
  <1>5. buffer' \in Seq(Byte) /\ line' \in Seq(Byte)
    BY <1>1, <1>2, IterationTypes
  <1>6. DeliveredWellFormed' /\ \E S : delivered' \in Seq(S)
    BY <1>1, <1>2 DEF DeliveredWellFormed, StorageTypes
  <1>7. CASE HeaderPart
    <2>1. state' = "Header" /\ storage' = new /\ CanCopy # NumNeeded
          /\ bytesToReceive' = bytesToReceive
      BY <1>2, <1>7 DEF HeaderPart, Copy
    <2> HIDE DEF new, CanCopy, NumNeeded
    <2>2. 2 <= Len(new) /\ Len(new) < HeaderSize
      <3>1. Len(new) = Len(storage) + CanCopy
        BY <1>4
      <3>2. CanCopy \in Nat /\ CanCopy < HeaderSize - Len(storage)
        BY <1>3, <2>1 DEF HeaderSize
      <3> QED
        BY <1>3, <3>1, <3>2 DEF HeaderSize
    <2>3. StorageShape'
      BY <1>4, <2>1, <2>2 DEF StorageShape
    <2> QED
      BY <1>2, <1>4, <1>5, <1>6, <2>1, <2>3 DEF ReceiveInv, StorageTypes
  <1>8. CASE HeaderDone
    <2> DEFINE length == PacketLength(new)
    <2>1. /\ storage' = new /\ CanCopy = NumNeeded
          /\ length >= MinLength /\ length <= MaxLength
          /\ state' = IF length - MinLength > 0 THEN "Payload" ELSE "Crc"
          /\ state' = "Payload" => bytesToReceive' = length - MinLength
          /\ state' # "Payload" => bytesToReceive' = bytesToReceive
      BY <1>8 DEF HeaderDone, Copy, AfterHeader, LengthAccepted
    <2> HIDE DEF new, CanCopy, NumNeeded
    <2>2. Len(new) = HeaderSize /\ length \in Nat
      BY <1>3, <1>4, <2>1 DEF HeaderSize
    <2>3. bytesToReceive' \in Nat /\ state' \in States
      BY <1>2, <2>1, <2>2 DEF StorageTypes, MinLength, States
    <2>4. StorageShape'
      <3>1. CASE state' = "Payload"
        <4>1. length > MinLength /\ bytesToReceive' = length - MinLength
          BY <2>1, <2>2, <3>1 DEF MinLength
        <4>2. bytesToReceive' + MinLength = length
              /\ Len(new) - HeaderSize < bytesToReceive'
          BY <2>2, <4>1 DEF MinLength, HeaderSize
        <4>3. Len(new) >= HeaderSize
          BY <2>2 DEF HeaderSize
        <4> HIDE DEF length
        <4> QED
          BY <1>4, <2>1, <3>1, <4>2, <4>3 DEF StorageShape, length
      <3>2. CASE state' # "Payload"
        <4>1. state' = "Crc" /\ length = MinLength
          BY <2>1, <2>2, <3>2 DEF MinLength
        <4>2. Len(new) >= HeaderSize /\ Len(new) + 1 = length
              /\ Len(new) + 1 <= MaxLength
          BY <2>2, <4>1 DEF MinLength, HeaderSize, MaxLength
        <4> QED
          BY <1>4, <2>1, <4>1, <4>2 DEF StorageShape
      <3> QED
        BY <3>1, <3>2
    <2> QED
      BY <1>4, <1>5, <1>6, <2>1, <2>3, <2>4 DEF ReceiveInv, StorageTypes
  <1>9. CASE HeaderRefused
    <2>1. state' = "FirstByte" /\ storage' = << >>
          /\ bytesToReceive' = bytesToReceive
      BY <1>9 DEF HeaderRefused
    <2>2. StorageShape'
      BY <2>1 DEF StorageShape
    <2> QED
      BY <1>2, <1>5, <1>6, <2>1, <2>2 DEF ReceiveInv, StorageTypes, States
  <1> QED
    BY <1>7, <1>8, <1>9

LEMMA PayloadStep ==
    ASSUME ReceiveInv, Payload
    PROVE  ReceiveInv'
  <1> DEFINE new == storage \o Copied
  <1>1. /\ Iteration("Payload") /\ delivered' = delivered
        /\ storage' = new /\ bytesToReceive' = bytesToReceive
        /\ state' = IF CanCopy = NumNeeded THEN "Crc" ELSE "Payload"
    BY DEF Payload, Copy
  <1>2. StorageTypes /\ StorageShape /\ DeliveredWellFormed
        /\ buffer # << >> /\ state = "Payload"
    BY <1>1 DEF ReceiveInv, Iteration
  <1>3. /\ NumNeeded = bytesToReceive - (Len(storage) - HeaderSize)
        /\ CanCopy \in Nat /\ CanCopy <= NumNeeded /\ CanCopy >= 1
        /\ Len(storage) \in Nat /\ Len(storage) >= HeaderSize
        /\ PacketLength(storage) = bytesToReceive + MinLength
        /\ bytesToReceive + MinLength <= MaxLength
        /\ bytesToReceive \in Nat
    BY <1>2, CanCopyRange, LenProperties
       DEF NumNeeded, StorageShape, StorageTypes
  <1>4. /\ new \in Seq(Byte) /\ Len(new) = Len(storage) + CanCopy
        /\ Framed(new)
        /\ Len(storage) >= 4 => PacketLength(new) = PacketLength(storage)
    BY <1>2, CopyShape
  <1>5. buffer' \in Seq(Byte) /\ line' \in Seq(Byte)
    BY <1>1, <1>2, IterationTypes
  <1>6. DeliveredWellFormed' /\ \E S : delivered' \in Seq(S)
    BY <1>1, <1>2 DEF DeliveredWellFormed, StorageTypes
  <1> HIDE DEF new, CanCopy, NumNeeded
  <1>7. PacketLength(new) = bytesToReceive + MinLength
        /\ Len(new) >= HeaderSize
    BY <1>3, <1>4 DEF HeaderSize
  <1>8. CASE CanCopy = NumNeeded
    <2>1. Len(new) + 1 = bytesToReceive + MinLength
      BY <1>3, <1>4, <1>8 DEF HeaderSize, MinLength
    <2>2. StorageShape'
      BY <1>1, <1>3, <1>4, <1>7, <1>8, <2>1 DEF StorageShape
    <2> QED
      BY <1>1, <1>2, <1>4, <1>5, <1>6, <1>8, <2>2
         DEF ReceiveInv, StorageTypes, States
  <1>9. CASE CanCopy # NumNeeded
    <2>1. Len(new) - HeaderSize < bytesToReceive
      BY <1>3, <1>4, <1>9 DEF HeaderSize
    <2>2. StorageShape'
      BY <1>1, <1>3, <1>4, <1>7, <1>9, <2>1 DEF StorageShape
    <2> QED
      BY <1>1, <1>2, <1>4, <1>5, <1>6, <1>9, <2>2
         DEF ReceiveInv, StorageTypes, States
  <1> QED
    BY <1>8, <1>9

LEMMA CrcStep ==
    ASSUME ReceiveInv, Crc
    PROVE  ReceiveInv'
  <1> DEFINE data == Append(storage, Head(buffer))
             call == [data |-> data, crc |-> crc]
  <1>1. /\ Iteration("Crc") /\ delivered' = Append(delivered, call)
        /\ state' = "FirstByte" /\ storage' = << >>
        /\ bytesToReceive' = bytesToReceive
    BY DEF Crc
  <1>2. StorageTypes /\ StorageShape /\ DeliveredWellFormed
        /\ state = "Crc"
    BY <1>1 DEF ReceiveInv, Iteration
  <1>3. buffer' \in Seq(Byte) /\ line' \in Seq(Byte) /\ Head(buffer) \in Byte
    BY <1>1, <1>2, IterationTypes
  <1>4. /\ Framed(storage) /\ Len(storage) \in Nat /\ Len(storage) >= HeaderSize
        /\ PacketLength(storage) = Len(storage) + 1
        /\ Len(storage) + 1 <= MaxLength
    BY <1>2, LenProperties DEF StorageShape, StorageTypes
  <1>5. /\ Len(data) = Len(storage) + 1
        /\ \A i \in 1 .. Len(storage) : data[i] = storage[i]
    BY <1>2, <1>3, AppendProperties DEF StorageTypes
  <1> HIDE DEF data
  <1>6. Framed(data) /\ PacketLength(data) = PacketLength(storage)
    BY <1>4, <1>5 DEF Framed, PacketLength, HeaderSize
  <1>7. /\ data[1] = First /\ data[2] = Second
        /\ MinLength <= Len(data) /\ Len(data) <= MaxLength
        /\ Len(data) = PacketLength(data)
    <2>1. Len(data) = PacketLength(data)
      BY <1>4, <1>5, <1>6
    <2>2. MinLength <= Len(data) /\ Len(data) <= MaxLength
      BY <1>4, <1>5 DEF HeaderSize, MinLength, MaxLength
    <2> QED
      BY <1>6, <2>1, <2>2 DEF Framed
  <1>8. call.data = data
    OBVIOUS
  <1> HIDE DEF call
  <1>9. PICK S : delivered \in Seq(S)
    BY <1>2 DEF StorageTypes
  <1>10. delivered \in Seq(S \cup {call})
    <2>1. delivered \in [1 .. Len(delivered) -> S] /\ Len(delivered) \in Nat
      BY <1>9, LenProperties
    <2>2. delivered \in [1 .. Len(delivered) -> S \cup {call}]
      BY <2>1
    <2> QED
      BY <2>1, <2>2, SeqDef
  <1>11. /\ delivered' \in Seq(S \cup {call})
         /\ Len(delivered') = Len(delivered) + 1
         /\ \A i \in 1 .. Len(delivered) : delivered'[i] = delivered[i]
         /\ delivered'[Len(delivered) + 1] = call
         /\ DOMAIN delivered = 1 .. Len(delivered) /\ Len(delivered) \in Nat
         /\ DOMAIN delivered' = 1 .. Len(delivered')
    <2>1. call \in S \cup {call}
      OBVIOUS
    <2>2. Append(delivered, call) \in Seq(S \cup {call})
      BY <1>10, <2>1, AppendProperties
    <2> QED
      BY <1>1, <1>10, <2>1, <2>2, AppendProperties, LenProperties
  <1>12. DeliveredWellFormed'
    <2> SUFFICES ASSUME NEW i \in 1 .. Len(delivered) + 1
                 PROVE  /\ delivered'[i].data[1] = First
                        /\ delivered'[i].data[2] = Second
                        /\ MinLength <= Len(delivered'[i].data)
                        /\ Len(delivered'[i].data) <= MaxLength
                        /\ Len(delivered'[i].data)
                               = PacketLength(delivered'[i].data)
      BY <1>11 DEF DeliveredWellFormed
    <2>1. CASE i \in 1 .. Len(delivered)
      BY <1>2, <1>11, <2>1 DEF DeliveredWellFormed
    <2>2. CASE i = Len(delivered) + 1
      BY <1>7, <1>8, <1>11, <2>2
    <2> QED
      BY <1>11, <2>1, <2>2
  <1>13. StorageShape'
    BY <1>1 DEF StorageShape
  <1>14. StorageTypes'
    BY <1>1, <1>2, <1>3, <1>11 DEF StorageTypes, States
  <1> QED
    BY <1>12, <1>13, <1>14 DEF ReceiveInv

\* The search for the two bytes a packet starts with.
LEMMA SearchStep ==
    ASSUME ReceiveInv,
           \/ FirstByteFound \/ FirstByteSkipped
           \/ SecondByteFound \/ SecondByteMissing
    PROVE  ReceiveInv'
  <1>1. /\ StorageTypes /\ StorageShape /\ DeliveredWellFormed
        /\ delivered' = delivered /\ bytesToReceive' = bytesToReceive
    BY DEF ReceiveInv, FirstByteFound, FirstByteSkipped, SecondByteFound,
           SecondByteMissing, machine
  <1>2. Iteration("FirstByte") \/ Iteration("SecondByte")
    BY DEF FirstByteFound, FirstByteSkipped, SecondByteFound,
           SecondByteMissing
  <1>3. buffer' \in Seq(Byte) /\ line' \in Seq(Byte)
    BY <1>1, <1>2, IterationTypes
  <1>4. DeliveredWellFormed' /\ \E S : delivered' \in Seq(S)
    BY <1>1 DEF DeliveredWellFormed, StorageTypes
  <1>5. StorageShape' /\ state' \in States /\ storage' \in Seq(Byte)
    <2>1. CASE FirstByteFound
      <3>1. /\ state' = "SecondByte" /\ storage' = Append(storage, First)
            /\ storage = << >>
        BY <1>1, <2>1 DEF FirstByteFound, Iteration, StorageShape
      <3>2. /\ storage' \in Seq(Byte) /\ Len(storage') = 1
            /\ storage'[1] = First
        BY <1>1, <3>1 DEF StorageTypes, First, Byte
      <3> QED
        BY <3>1, <3>2 DEF StorageShape, States
    <2>2. CASE FirstByteSkipped
      <3>1. state' = "FirstByte" /\ storage' = << >>
        BY <1>1, <2>2 DEF FirstByteSkipped, Iteration, StorageShape, machine
      <3> QED
        BY <3>1 DEF StorageShape, States
    <2>3. CASE SecondByteFound
      <3>1. /\ storage[1] = First /\ Len(storage) = 1 /\ state' = "Header"
            /\ storage' = Append(storage, Second)
        BY <1>1, <2>3 DEF SecondByteFound, Iteration, StorageShape
      <3>2. /\ storage' \in Seq(Byte) /\ Len(storage') = 2
            /\ storage'[1] = First /\ storage'[2] = Second
        <4>1. storage \in Seq(Byte) /\ Second \in Byte
          BY <1>1 DEF StorageTypes, Second, Byte
        <4> QED
          BY <3>1, <4>1, AppendProperties
      <3> QED
        BY <3>1, <3>2 DEF StorageShape, States, Framed, HeaderSize
    <2>4. CASE SecondByteMissing
      <3>1. state' = "FirstByte" /\ storage' = << >>
        BY <2>4 DEF SecondByteMissing
      <3> QED
        BY <3>1 DEF StorageShape, States
    <2> QED
      BY <2>1, <2>2, <2>3, <2>4
  <1> QED
    BY <1>1, <1>3, <1>4, <1>5 DEF ReceiveInv, StorageTypes

\* The callbacks and the line.
LEMMA OutsideStep ==
    ASSUME ReceiveInv, DoRead \/ Recover \/ SendPacket \/ SendNoise
    PROVE  ReceiveInv'
  <1>1. StorageTypes /\ StorageShape /\ DeliveredWellFormed
    BY DEF ReceiveInv
  <1>2. CASE DoRead
    <2>1. PICK n \in 1 .. MaxRead : /\ n <= Len(line)
                                   /\ buffer' = SubSeq(line, 1, n)
                                   /\ line' = SubSeq(line, n + 1, Len(line))
      BY <1>2 DEF DoRead
    <2>2. buffer' \in Seq(Byte) /\ line' \in Seq(Byte)
      <3>1. n \in Nat /\ line \in Seq(Byte)
        BY <1>1, ReceiveBoundsAssumption DEF StorageTypes
      <3> QED
        BY <2>1, <3>1, Parts
    <2>3. UNCHANGED <<machine, delivered>>
      BY <1>2 DEF DoRead
    <2>4. StorageShape' /\ DeliveredWellFormed'
      BY <1>1, <2>3 DEF machine, StorageShape, DeliveredWellFormed
    <2> QED
      BY <1>1, <2>2, <2>3, <2>4 DEF ReceiveInv, StorageTypes, machine
  <1>3. CASE Recover
    <2>1. /\ state' = "FirstByte" /\ storage' = << >> /\ delivered' = << >>
          /\ UNCHANGED <<bytesToReceive, buffer, line>>
      BY <1>3 DEF Recover, Reset
    <2>2. StorageShape'
      BY <2>1 DEF StorageShape
    <2>3. DeliveredWellFormed' /\ \E S : delivered' \in Seq(S)
      BY <2>1 DEF DeliveredWellFormed
    <2> QED
      BY <1>1, <2>1, <2>2, <2>3 DEF ReceiveInv, StorageTypes, States
  <1>4. CASE SendPacket \/ SendNoise
    <2>1. PICK q \in Packets \cup Noise : Send(q)
      BY <1>4 DEF SendPacket, SendNoise
    <2>2. q \in Seq(Byte) /\ line \in Seq(Byte)
      BY <1>1, PacketsAssumption, NoiseAssumption DEF StorageTypes
    <2>3. line' \in Seq(Byte)
      BY <2>1, <2>2, ConcatProperties DEF Send
    <2>4. UNCHANGED <<machine, buffer, delivered>>
      BY <2>1 DEF Send
    <2>5. StorageShape' /\ DeliveredWellFormed'
      BY <1>1, <2>4 DEF machine, StorageShape, DeliveredWellFormed
    <2> QED
      BY <1>1, <2>3, <2>4, <2>5 DEF ReceiveInv, StorageTypes, machine
  <1> QED
    BY <1>2, <1>3, <1>4

(***************************************************************************)
(* The theorems.                                                           *)
(***************************************************************************)

\* In every reachable state the storage has the shape its state asks for.
THEOREM ReceiveInductive == Spec => []ReceiveInv
  <1>1. Init => ReceiveInv
    <2> SUFFICES ASSUME Init
                 PROVE  ReceiveInv
      OBVIOUS
    <2>1. StorageTypes
      BY DEF Init, StorageTypes, States
    <2>2. StorageShape /\ DeliveredWellFormed
      BY DEF Init, StorageShape, DeliveredWellFormed
    <2> QED
      BY <2>1, <2>2 DEF ReceiveInv
  <1>2. ReceiveInv /\ [Next]_vars => ReceiveInv'
    <2> SUFFICES ASSUME ReceiveInv, [Next]_vars
                 PROVE  ReceiveInv'
      OBVIOUS
    <2>1. CASE Next
      BY <2>1, SearchStep, HeaderStep, PayloadStep, CrcStep, OutsideStep
         DEF Next, HandleBytes
    <2>2. CASE UNCHANGED vars
      <3>1. StorageTypes' /\ StorageShape' /\ DeliveredWellFormed'
        BY <2>2 DEF vars, ReceiveInv, StorageTypes, StorageShape,
                    DeliveredWellFormed
      <3> QED
        BY <3>1 DEF ReceiveInv
    <2> QED
      BY <2>1, <2>2
  <1> QED
    BY <1>1, <1>2, PTL DEF Spec

\* assert(bytesToAdvance != 0) in HandleBytes never fails, whatever bytes
\* arrive, in whatever pieces they are read and whenever Recover resets the
\* machine.
THEOREM AssertionHolds == Spec => []AlwaysAdvances
  <1>1. ReceiveInv => AlwaysAdvances
    BY InvAdvances DEF ReceiveInv
  <1> QED
    BY <1>1, ReceiveInductive, PTL

\* HandlePayload only ever sees packets it can index: framed, with a header
\* and a checksum, and exactly as long as their length field says.
THEOREM PacketsWellFormed == Spec => []DeliveredWellFormed
  <1>1. ReceiveInv => DeliveredWellFormed
    BY DEF ReceiveInv
  <1> QED
    BY <1>1, ReceiveInductive, PTL

(***************************************************************************)
(* Induction, with a set in place of a predicate.                          *)
(***************************************************************************)

\* A set of natural numbers has a smallest one.
LEMMA SmallestOf ==
    ASSUME NEW T \in SUBSET Nat, T # {}
    PROVE  \E n \in T : \A m \in T : n <= m
  <1>1. \E R : /\ IsWellFoundedOn(R, Nat)
               /\ \A x, y \in Nat : y < x => <<y, x>> \in R
    <2>1. IsWellFoundedOn(OpToRel(<, Nat), Nat)
      BY NatLessThanWellFounded, Zenon
    <2>2. \A x, y \in Nat : y < x => <<y, x>> \in OpToRel(<, Nat)
      BY Zenon DEF OpToRel
    <2> QED
      BY <2>1, <2>2, Zenon
  <1>2. PICK R : /\ IsWellFoundedOn(R, Nat)
                 /\ \A x, y \in Nat : y < x => <<y, x>> \in R
    BY <1>1
  <1>3. PICK n \in T : \A y \in T : ~(<<y, n>> \in R)
    BY <1>2, WFMin
  <1>4. \A m \in T : ~(m < n)
    BY <1>2, <1>3
  <1>5. \A m \in T : n <= m
    BY <1>4
  <1> QED
    BY <1>5

\* A set that contains 0, and with a number below n the next one, contains n.
LEMMA AllUpTo ==
    ASSUME NEW n \in Nat, NEW T, 0 \in T,
           \A i \in 0 .. n - 1 : i \in T => i + 1 \in T
    PROVE  n \in T
  <1> DEFINE U == {i \in 0 .. n : i \notin T}
  <1>1. ASSUME U # {}
        PROVE  FALSE
    <2>1. U \in SUBSET Nat
      OBVIOUS
    <2> HIDE DEF U
    <2>2. PICK j \in U : \A i \in U : j <= i
      BY <1>1, <2>1, SmallestOf
    <2>3. j \in 0 .. n /\ j \notin T
      BY DEF U
    <2>4. j - 1 \in 0 .. n - 1 /\ j - 1 \notin U
      BY <2>2, <2>3
    <2>5. j - 1 \in T /\ j - 1 + 1 = j
      BY <2>3, <2>4 DEF U
    <2> QED
      BY <2>3, <2>4, <2>5
  <1>2. n \in 0 .. n /\ n \notin U
    BY <1>1
  <1> QED
    BY <1>2

(***************************************************************************)
(* The checksum.                                                           *)
(***************************************************************************)

\* f holds the sums of the first 0, 1, ..., n of some bytes.
PartialSums(bytes, n, f) ==
    /\ f \in [0 .. n -> Byte]
    /\ f[0] = 0
    /\ \A i \in 1 .. n : f[i] = (f[i - 1] + bytes[i]) % 256

LEMMA ByteSum ==
    ASSUME NEW a \in Byte, NEW b \in Byte
    PROVE  (a + b) % 256 \in Byte
  BY DEF Byte

LEMMA ByteSumsAssociate ==
    ASSUME NEW a \in Byte, NEW b \in Byte, NEW c \in Byte, NEW x, NEW y, NEW z,
           x = (a + b) % 256, y = (x + c) % 256, z = (b + c) % 256
    PROVE  y = (a + z) % 256
  BY DEF Byte

LEMMA ByteSumZero ==
    ASSUME NEW a \in Byte
    PROVE  (a + 0) % 256 = a
  BY DEF Byte

LEMMA SumsExist ==
    ASSUME NEW bytes \in Seq(Byte)
    PROVE  \E f : PartialSums(bytes, Len(bytes), f)
  <1> DEFINE len == Len(bytes)
             T == {n \in 0 .. len : \E f : PartialSums(bytes, n, f)}
  <1>1. len \in Nat /\ \A i \in 1 .. len : bytes[i] \in Byte
    BY LenProperties, ElementOfSeq
  <1> HIDE DEF len
  <1>2. 0 \in T
    <2>1. PartialSums(bytes, 0, [i \in 0 .. 0 |-> 0])
      BY DEF PartialSums, Byte
    <2> QED
      BY <1>1, <2>1
  <1>3. ASSUME NEW n \in 0 .. len - 1, n \in T
        PROVE  n + 1 \in T
    <2>1. PICK f : PartialSums(bytes, n, f)
      BY <1>3
    <2> DEFINE next == (f[n] + bytes[n + 1]) % 256
               g == [i \in 0 .. n + 1 |-> IF i = n + 1 THEN next ELSE f[i]]
    <2>2. n \in Nat /\ n + 1 \in 1 .. len
      BY <1>1
    <2>3. next \in Byte
      BY <1>1, <2>1, <2>2, ByteSum DEF PartialSums
    <2>4. f[0] = 0 /\ (\A i \in 0 .. n : f[i] \in Byte)
          /\ \A i \in 1 .. n : f[i] = (f[i - 1] + bytes[i]) % 256
      BY <2>1 DEF PartialSums
    <2>5. \A i \in 1 .. n + 1 : g[i] = (g[i - 1] + bytes[i]) % 256
      <3> TAKE i \in 1 .. n + 1
      <3>1. CASE i = n + 1
        BY <2>2, <3>1
      <3>2. CASE i # n + 1
        BY <2>2, <2>4, <3>2
      <3> QED
        BY <3>1, <3>2
    <2> HIDE DEF next
    <2>6. g \in [0 .. n + 1 -> Byte] /\ g[0] = 0
      BY <2>2, <2>3, <2>4
    <2>7. PartialSums(bytes, n + 1, g)
      BY <2>5, <2>6 DEF PartialSums
    <2> QED
      BY <2>2, <2>7
  <1>4. \A n \in 0 .. len - 1 : n \in T => n + 1 \in T
    BY <1>3
  <1> HIDE DEF T
  <1>5. len \in T
    BY <1>1, <1>2, <1>4, AllUpTo
  <1> QED
    BY <1>5 DEF T, len

\* They are determined by the bytes.
LEMMA SumsAgree ==
    ASSUME NEW s, NEW t, NEW m \in Nat, NEW n \in Nat, NEW k \in Nat,
           NEW f, NEW g, PartialSums(s, m, f), PartialSums(t, n, g),
           k <= m, k <= n, \A i \in 1 .. k : s[i] = t[i]
    PROVE  f[k] = g[k]
  <1> DEFINE T == {i \in 0 .. k : f[i] = g[i]}
  <1>1. 0 \in T
    BY DEF PartialSums
  <1>2. ASSUME NEW i \in 0 .. k - 1, i \in T
        PROVE  i + 1 \in T
    <2>1. i + 1 \in 1 .. k /\ i + 1 \in 1 .. m /\ i + 1 \in 1 .. n
          /\ i + 1 - 1 = i
      OBVIOUS
    <2>2. f[i + 1] = (f[i] + s[i + 1]) % 256 /\ g[i + 1] = (g[i] + t[i + 1]) % 256
      BY <2>1 DEF PartialSums
    <2>3. f[i] = g[i] /\ s[i + 1] = t[i + 1]
      BY <1>2, <2>1
    <2> QED
      BY <2>1, <2>2, <2>3
  <1>3. \A i \in 0 .. k - 1 : i \in T => i + 1 \in T
    BY <1>2
  <1> HIDE DEF T
  <1>4. k \in T
    BY <1>1, <1>3, AllUpTo
  <1> QED
    BY <1>4 DEF T

\* CalcChecksum returns the last of them.
LEMMA ChecksumIsSum ==
    ASSUME NEW bytes \in Seq(Byte)
    PROVE  \E f : /\ PartialSums(bytes, Len(bytes), f)
                  /\ CalcChecksum(bytes) = f[Len(bytes)]
  <1> DEFINE len == Len(bytes)
             IsSum(f) == f = [i \in 0 .. len |->
                                 IF i = 0 THEN 0
                                 ELSE (f[i - 1] + bytes[i]) % 256]
             sum == CHOOSE f : IsSum(f)
  <1>1. len \in Nat /\ \A i \in 1 .. len : bytes[i] \in Byte
    BY LenProperties, ElementOfSeq
  <1>2. CalcChecksum(bytes) = sum[len]
    BY DEF CalcChecksum
  <1>3. PICK g : PartialSums(bytes, len, g)
    BY SumsExist
  <1> HIDE DEF len
  <1>4. IsSum(g)
    BY <1>1, <1>3 DEF PartialSums
  <1>5. IsSum(sum)
    BY <1>4
  <1> HIDE DEF sum
  <1>6. sum[0] = 0 /\ \A i \in 1 .. len : sum[i] = (sum[i - 1] + bytes[i]) % 256
    BY <1>1, <1>5
  <1> DEFINE T == {i \in 0 .. len : sum[i] = g[i]}
  <1>7. 0 \in T
    BY <1>1, <1>3, <1>6 DEF PartialSums
  <1>8. ASSUME NEW i \in 0 .. len - 1, i \in T
        PROVE  i + 1 \in T
    <2>1. i + 1 \in 1 .. len /\ i + 1 - 1 = i
      BY <1>1
    <2>2. sum[i + 1] = (sum[i] + bytes[i + 1]) % 256
          /\ g[i + 1] = (g[i] + bytes[i + 1]) % 256
      BY <1>3, <1>6, <2>1 DEF PartialSums
    <2> QED
      BY <1>8, <2>1, <2>2
  <1>9. \A i \in 0 .. len - 1 : i \in T => i + 1 \in T
    BY <1>8
  <1> HIDE DEF T
  <1>10. len \in T
    BY <1>1, <1>7, <1>9, AllUpTo
  <1> QED
    BY <1>2, <1>3, <1>10 DEF T, len

LEMMA ChecksumType ==
    ASSUME NEW bytes \in Seq(Byte)
    PROVE  CalcChecksum(bytes) \in Byte
  <1>1. PICK f : /\ PartialSums(bytes, Len(bytes), f)
                 /\ CalcChecksum(bytes) = f[Len(bytes)]
    BY ChecksumIsSum
  <1>2. Len(bytes) \in 0 .. Len(bytes)
    BY LenProperties
  <1> QED
    BY <1>1, <1>2 DEF PartialSums

LEMMA ChecksumOfNothing == CalcChecksum(<< >>) = 0
  <1>1. << >> \in Seq(Byte) /\ Len(<< >>) = 0
    OBVIOUS
  <1> QED
    BY <1>1, ChecksumIsSum DEF PartialSums

\* The sums of two sequences add up.
LEMMA ChecksumOfConcat ==
    ASSUME NEW s \in Seq(Byte), NEW t \in Seq(Byte)
    PROVE  CalcChecksum(s \o t) = (CalcChecksum(s) + CalcChecksum(t)) % 256
  <1> DEFINE m == Len(s)
             n == Len(t)
             u == s \o t
  <1>1. /\ u \in Seq(Byte) /\ Len(u) = m + n /\ m \in Nat /\ n \in Nat
        /\ \A i \in 1 .. m + n : u[i] = IF i <= m THEN s[i] ELSE t[i - m]
        /\ \A i \in 1 .. n : t[i] \in Byte
    BY ConcatProperties, LenProperties, ElementOfSeq
  <1>2. PICK f : PartialSums(s, m, f) /\ CalcChecksum(s) = f[m]
    BY ChecksumIsSum
  <1>3. PICK g : PartialSums(t, n, g) /\ CalcChecksum(t) = g[n]
    BY ChecksumIsSum
  <1>4. PICK h : PartialSums(u, m + n, h) /\ CalcChecksum(u) = h[m + n]
    BY <1>1, ChecksumIsSum
  <1> HIDE DEF m, n, u
  <1>5. h[m] = f[m] /\ f[m] \in Byte
    <2>1. \A i \in 1 .. m : s[i] = u[i]
      BY <1>1
    <2>2. f[m] = h[m]
      BY <1>1, <1>2, <1>4, <2>1, SumsAgree
    <2> QED
      BY <1>1, <1>2, <2>2 DEF PartialSums
  <1> DEFINE T == {i \in 0 .. n : h[m + i] = (f[m] + g[i]) % 256}
  <1>6. 0 \in T
    <2>1. g[0] = 0 /\ m + 0 = m /\ 0 \in 0 .. n
      BY <1>1, <1>3 DEF PartialSums
    <2>2. (f[m] + 0) % 256 = f[m]
      BY <1>5, ByteSumZero
    <2> QED
      BY <1>5, <2>1, <2>2
  <1>7. ASSUME NEW i \in 0 .. n - 1, i \in T
        PROVE  i + 1 \in T
    <2>1. /\ i \in 0 .. n /\ i + 1 \in 1 .. n /\ i + 1 - 1 = i
          /\ m + (i + 1) \in 1 .. m + n /\ m + (i + 1) - 1 = m + i
          /\ ~(m + (i + 1) <= m) /\ m + (i + 1) - m = i + 1
      BY <1>1
    <2>2. g[i + 1] = (g[i] + t[i + 1]) % 256 /\ g[i] \in Byte /\ t[i + 1] \in Byte
      BY <1>1, <1>3, <2>1 DEF PartialSums
    <2> DEFINE j == m + (i + 1)
               before == h[m + i]
               byte == t[i + 1]
    <2>3. u[j] = byte /\ h[j - 1] = before
      <3>1. j \in 1 .. m + n /\ ~(j <= m) /\ j - m = i + 1 /\ j - 1 = m + i
        BY <1>1
      <3> HIDE DEF j
      <3>2. u[j] = t[j - m]
        BY <1>1, <3>1
      <3> QED
        BY <3>1, <3>2
    <2>4. h[j] = (h[j - 1] + u[j]) % 256
      <3> HIDE DEF j
      <3> QED
        BY <1>4, <2>1 DEF PartialSums, j
    <2>5. before = (f[m] + g[i]) % 256
      BY <1>7
    <2> HIDE DEF before, byte, j
    <2>6. h[j] = (before + byte) % 256
      BY <2>3, <2>4
    <2>7. h[j] = (f[m] + g[i + 1]) % 256
      BY <1>5, <2>2, <2>5, <2>6, ByteSumsAssociate DEF byte
    <2>8. i + 1 \in 0 .. n
      BY <1>1
    <2> QED
      BY <2>7, <2>8 DEF j
  <1>8. \A i \in 0 .. n - 1 : i \in T => i + 1 \in T
    BY <1>7
  <1> HIDE DEF T
  <1>9. n \in T
    BY <1>1, <1>6, <1>8, AllUpTo
  <1> QED
    BY <1>2, <1>3, <1>4, <1>9 DEF T, u

\* The sum of one byte.
LEMMA ChecksumOfByte ==
    ASSUME NEW b \in Byte
    PROVE  CalcChecksum(<<b>>) = b
  <1>1. <<b>> \in Seq(Byte) /\ Len(<<b>>) = 1 /\ <<b>>[1] = b
    OBVIOUS
  <1>2. PICK f : PartialSums(<<b>>, 1, f) /\ CalcChecksum(<<b>>) = f[1]
    BY <1>1, ChecksumIsSum
  <1>3. f[0] = 0 /\ f[1] = (f[1 - 1] + <<b>>[1]) % 256
    BY <1>2 DEF PartialSums
  <1>4. f[1] = (0 + b) % 256
    BY <1>1, <1>3
  <1>5. (0 + b) % 256 = b
    BY DEF Byte
  <1> QED
    BY <1>2, <1>4, <1>5

(***************************************************************************)
(* Types.                                                                  *)
(***************************************************************************)

Deliveries == [data : Seq(Byte), crc : Byte]

\* An action of HandleBytes keeps the checksum a byte.
LEMMA CrcType ==
    ASSUME ReceiveTypeOK, ReceiveInv, HandleBytes
    PROVE  crc' \in Byte
  <1>1. crc \in Byte /\ First \in Byte /\ Second \in Byte /\ 0 \in Byte
    BY DEF ReceiveTypeOK, First, Second, Byte
  <1>2. ASSUME Copy, Iteration("Header") \/ Iteration("Payload")
        PROVE  crc' \in Byte
    <2>1. CanCopy \in Nat /\ CanCopy <= Len(buffer)
      BY <1>2, CanCopyRange DEF Iteration, ReceiveInv
    <2>2. Copied \in Seq(Byte)
      <3> HIDE DEF CanCopy
      <3> QED
        BY <2>1, Parts DEF Copied, ReceiveTypeOK
    <2>3. CalcChecksum(Copied) \in Byte
      BY <2>2, ChecksumType
    <2>4. crc' = (crc + CalcChecksum(Copied)) % 256
      BY <1>2 DEF Copy, AddToCrc
    <2> QED
      BY <1>1, <2>3, <2>4, ByteSum
  <1>3. CASE FirstByteFound
    BY <1>1, <1>3, ByteSum DEF FirstByteFound
  <1>4. CASE SecondByteFound
    BY <1>1, <1>4, ByteSum DEF SecondByteFound
  <1>5. CASE FirstByteSkipped \/ SecondByteMissing
    BY <1>1, <1>5 DEF FirstByteSkipped, SecondByteMissing, machine
  <1>6. CASE HeaderPart \/ HeaderDone
    BY <1>2, <1>6 DEF HeaderPart, HeaderDone
  <1>7. CASE Payload
    BY <1>2, <1>7 DEF Payload
  <1>8. CASE HeaderRefused \/ Crc
    BY <1>1, <1>8 DEF HeaderRefused, Crc
  <1> QED
    BY <1>3, <1>4, <1>5, <1>6, <1>7, <1>8 DEF HandleBytes

\* What is handed to onPacket are bytes and a byte.
LEMMA DeliveredType ==
    ASSUME ReceiveTypeOK, ReceiveInv, HandleBytes
    PROVE  delivered' \in Seq(Deliveries)
  <1>1. delivered \in Seq(Deliveries) /\ storage \in Seq(Byte) /\ crc \in Byte
    BY DEF ReceiveTypeOK, Deliveries
  <1>2. CASE Crc
    <2> DEFINE data == Append(storage, Head(buffer))
               call == [data |-> data, crc |-> crc]
    <2>1. Head(buffer) \in Byte
      BY <1>2, IterationTypes DEF Crc, ReceiveInv
    <2>2. data \in Seq(Byte)
      BY <1>1, <2>1, AppendProperties
    <2>3. call \in Deliveries
      BY <1>1, <2>2 DEF Deliveries
    <2>4. delivered' = Append(delivered, call)
      BY <1>2 DEF Crc
    <2> HIDE DEF call
    <2> QED
      BY <1>1, <2>3, <2>4, AppendProperties
  <1>3. CASE ~Crc
    <2>1. delivered' = delivered
      BY <1>3 DEF HandleBytes, FirstByteFound, FirstByteSkipped,
                  SecondByteFound, SecondByteMissing, HeaderPart, HeaderDone,
                  HeaderRefused, Payload
    <2> QED
      BY <1>1, <2>1
  <1> QED
    BY <1>2, <1>3

\* What is counted: the history and the bounds.
HistoryTypes ==
    /\ sent \in Seq(Packets)
    /\ inSync \in BOOLEAN
    /\ left \in [items : 0 .. MaxItems, recovers : 0 .. MaxRecovers]

LEMMA HistoryType ==
    ASSUME HistoryTypes, Next
    PROVE  HistoryTypes'
  <1> USE DEF HistoryTypes
  <1>1. CASE HandleBytes
    <2>1. UNCHANGED history
      BY <1>1 DEF HandleBytes, FirstByteFound, FirstByteSkipped,
                  SecondByteFound, SecondByteMissing, HeaderPart, HeaderDone,
                  HeaderRefused, Payload, Crc, Iteration
    <2> QED
      BY <2>1 DEF history
  <1>2. CASE DoRead
    BY <1>2 DEF DoRead, history
  <1>3. CASE Recover
    <2>1. sent' = << >> /\ inSync' \in BOOLEAN
      BY <1>3 DEF Recover
    <2>2. left' = [left EXCEPT !.recovers = @ - 1] /\ left.recovers > 0
      BY <1>3 DEF Recover
    <2>3. left' \in [items : 0 .. MaxItems, recovers : 0 .. MaxRecovers]
      BY <2>2, ReceiveBoundsAssumption
    <2> QED
      BY <2>1, <2>3
  <1>4. ASSUME NEW q, Send(q)
        PROVE  left' \in [items : 0 .. MaxItems, recovers : 0 .. MaxRecovers]
    BY <1>4, ReceiveBoundsAssumption DEF Send
  <1>5. CASE SendPacket
    <2>1. PICK p \in Packets : /\ Send(p) /\ sent' = Append(sent, p)
                              /\ inSync' = inSync
      BY <1>5 DEF SendPacket
    <2>2. sent' \in Seq(Packets)
      BY <2>1, AppendProperties
    <2> QED
      BY <1>4, <2>1, <2>2
  <1>6. CASE SendNoise
    <2>1. PICK q \in Noise :
              /\ Send(q) /\ sent' = sent
              /\ inSync' = (inSync /\ \A i \in DOMAIN q : q[i] # First)
      BY <1>6 DEF SendNoise
    <2>2. inSync' \in BOOLEAN
      BY <2>1
    <2> QED
      BY <1>4, <2>1, <2>2
  <1> QED
    BY <1>1, <1>2, <1>3, <1>5, <1>6 DEF Next

\* The checksum stays in its uint8_t, and every call of onPacket has bytes.
THEOREM ReceiveTypes == Spec => []ReceiveTypeOK
  <1>1. Init => ReceiveTypeOK
    BY ReceiveBoundsAssumption DEF Init, ReceiveTypeOK, States, Byte
  <1>2. ReceiveTypeOK /\ ReceiveInv /\ ReceiveInv' /\ [Next]_vars
            => ReceiveTypeOK'
    <2> SUFFICES ASSUME ReceiveTypeOK, ReceiveInv, ReceiveInv', [Next]_vars
                 PROVE  ReceiveTypeOK'
      OBVIOUS
    <2>1. /\ state' \in States /\ bytesToReceive' \in Nat
          /\ storage' \in Seq(Byte) /\ buffer' \in Seq(Byte)
          /\ line' \in Seq(Byte)
      BY DEF ReceiveInv, StorageTypes
    <2>2. HistoryTypes
      BY DEF ReceiveTypeOK, HistoryTypes
    <2>3. CASE HandleBytes
      <3>1. crc' \in Byte /\ delivered' \in Seq(Deliveries)
        BY <2>3, CrcType, DeliveredType
      <3>2. HistoryTypes'
        BY <2>2, <2>3, HistoryType DEF Next
      <3> QED
        BY <2>1, <3>1, <3>2 DEF ReceiveTypeOK, HistoryTypes, Deliveries
    <2>4. CASE DoRead \/ Recover \/ SendPacket \/ SendNoise
      <3>1. crc' \in Byte
        <4>1. crc' = crc \/ crc' = 0
          BY <2>4 DEF DoRead, Recover, Reset, SendPacket, SendNoise, Send,
                      machine
        <4>2. crc \in Byte /\ 0 \in Byte
          BY DEF ReceiveTypeOK, Byte
        <4> QED
          BY <4>1, <4>2
      <3>2. delivered' \in Seq(Deliveries)
        BY <2>4 DEF DoRead, Recover, SendPacket, SendNoise, Send,
                    ReceiveTypeOK, Deliveries
      <3>3. HistoryTypes'
        BY <2>2, <2>4, HistoryType DEF Next
      <3> QED
        BY <2>1, <3>1, <3>2, <3>3 DEF ReceiveTypeOK, HistoryTypes, Deliveries
    <2>5. CASE UNCHANGED vars
      BY <2>5 DEF vars, ReceiveTypeOK
    <2> QED
      BY <2>3, <2>4, <2>5 DEF Next
  <1> QED
    BY <1>1, <1>2, ReceiveInductive, PTL DEF Spec

(***************************************************************************)
(* Synchronisation: where the packets lie in the bytes to come.            *)
(***************************************************************************)

\* Everything the machine has not delivered yet.
Stream == storage \o (buffer \o line)

\* The packets of a sequence ps behind the first d lie one behind the other in
\* the bytes w, packet k from at[k] + 1 on, and whatever First is in w belongs
\* to one of them.
Laid(w, ps, d, at) ==
    /\ at \in [d + 1 .. Len(ps) -> Nat]
    /\ \A k \in d + 1 .. Len(ps) :
           /\ at[k] + Len(ps[k]) <= Len(w)
           /\ \A j \in 1 .. Len(ps[k]) : w[at[k] + j] = ps[k][j]
    /\ \A k, l \in d + 1 .. Len(ps) : k < l => at[k] + Len(ps[k]) <= at[l]
    /\ \A j \in 1 .. Len(w) :
           w[j] = First => \E k \in d + 1 .. Len(ps) :
                               at[k] < j /\ j <= at[k] + Len(ps[k])

Delivers ==
    /\ Len(delivered) <= Len(sent)
    /\ \A i \in DOMAIN delivered :
           delivered[i].data = sent[i] /\ Accepted(i)

\* In sync the machine has summed up what it stored, which is the beginning of
\* the next packet, and the rest of the packets are still to come.
SyncInv ==
    inSync =>
        /\ Delivers
        /\ crc = CalcChecksum(storage)
        /\ \E at : /\ Laid(Stream, sent, Len(delivered), at)
                   /\ storage # << >> => /\ Len(delivered) < Len(sent)
                                         /\ at[Len(delivered) + 1] = 0

LEMMA PacketFacts ==
    ASSUME NEW p \in Packets
    PROVE  /\ p \in Seq(Byte) /\ Len(p) \in Nat /\ Len(p) >= 11
           /\ p[1] = First /\ p[2] = Second
           /\ PacketLength(p) = Len(p) /\ Len(p) <= MaxLength
           /\ Last(p) = CalcChecksum(SubSeq(p, 1, Len(p) - 1))
  <1>1. p \in Seq(Byte) /\ Len(p) \in Nat
    BY PacketsAssumption, LenProperties
  <1> QED
    BY <1>1, PacketsFramed DEF MinLength

\* A First at the front is the first byte of the next packet,
LEMMA StartsPacket ==
    ASSUME NEW w \in Seq(Byte), NEW ps \in Seq(Packets), NEW d \in Nat, NEW at,
           Laid(w, ps, d, at), w # << >>, w[1] = First
    PROVE  d < Len(ps) /\ at[d + 1] = 0
  <1>1. Len(w) \in Nat /\ Len(w) >= 1 /\ Len(ps) \in Nat
    BY LenProperties, EmptySeq
  <1>2. 1 \in 1 .. Len(w)
    BY <1>1
  <1>3. PICK k \in d + 1 .. Len(ps) : at[k] < 1 /\ 1 <= at[k] + Len(ps[k])
    BY <1>2 DEF Laid
  <1>4. d + 1 \in d + 1 .. Len(ps) /\ k \in Nat /\ d < Len(ps)
    BY <1>1
  <1>5. at[k] = 0 /\ at[d + 1] \in Nat
    <2>1. at[k] \in Nat /\ at[d + 1] \in Nat
      BY <1>4 DEF Laid
    <2> QED
      BY <1>3, <2>1
  <1>6. Len(ps[d + 1]) \in Nat /\ Len(ps[d + 1]) >= 11
    <2>1. ps[d + 1] \in Packets
      BY <1>1, <1>4, ElementOfSeq
    <2> QED
      BY <2>1, PacketFacts
  <1>7. d + 1 < k => at[d + 1] + Len(ps[d + 1]) <= at[k]
    BY <1>3, <1>4 DEF Laid
  <1>8. ~(d + 1 < k)
    BY <1>5, <1>6, <1>7
  <1>9. k = d + 1
    BY <1>1, <1>8
  <1> QED
    BY <1>4, <1>5, <1>9

\* and no packet starts with anything else.
LEMMA StartsNothing ==
    ASSUME NEW w \in Seq(Byte), NEW ps \in Seq(Packets), NEW d \in Nat, NEW at,
           Laid(w, ps, d, at), w[1] # First
    PROVE  \A k \in d + 1 .. Len(ps) : at[k] >= 1
  <1> TAKE k \in d + 1 .. Len(ps)
  <1>1. Len(ps) \in Nat /\ k \in 1 .. Len(ps)
    BY LenProperties
  <1>2. ps[k] \in Packets
    BY <1>1, ElementOfSeq
  <1>3. Len(ps[k]) \in Nat /\ Len(ps[k]) >= 11 /\ ps[k][1] = First
    BY <1>2, PacketFacts
  <1>4. 1 \in 1 .. Len(ps[k])
    BY <1>3
  <1>5. at[k] \in Nat /\ w[at[k] + 1] = First
    BY <1>3, <1>4 DEF Laid
  <1>6. at[k] # 0
    BY <1>5
  <1> QED
    BY <1>5, <1>6

\* n bytes are done with, and with them the packets up to the e-th.
LEMMA LaidBehind ==
    ASSUME NEW w \in Seq(Byte), NEW ps \in Seq(Packets), NEW d \in Nat, NEW at,
           Laid(w, ps, d, at), NEW n \in 0 .. Len(w),
           NEW e \in d .. Len(ps),
           \A k \in d + 1 .. e : at[k] + Len(ps[k]) <= n,
           \A k \in e + 1 .. Len(ps) : n <= at[k]
    PROVE  Laid(SubSeq(w, n + 1, Len(w)), ps, e,
                [k \in e + 1 .. Len(ps) |-> at[k] - n])
  <1> DEFINE len == Len(w)
             v == SubSeq(w, n + 1, len)
             total == Len(ps)
             new == [k \in e + 1 .. total |-> at[k] - n]
             size == [k \in 1 .. total |-> Len(ps[k])]
  <1>1. len \in Nat /\ n \in Nat /\ n <= len /\ total \in Nat /\ e \in Nat
        /\ d <= e /\ e <= total
    BY LenProperties
  <1>2. \A i \in 1 .. len : w[i] \in Byte
    BY ElementOfSeq
  <1>3. Len(v) = len - n /\ \A i \in 1 .. len - n : v[i] = w[n + i]
    <2> HIDE DEF len
    <2>1. \A i \in n + 1 .. len : w[i] \in Byte
      BY <1>1, <1>2
    <2>2. /\ Len(v) = IF n + 1 <= len THEN len - (n + 1) + 1 ELSE 0
          /\ \A i \in 1 .. len - (n + 1) + 1 : v[i] = w[n + 1 + i - 1]
      BY <1>1, <2>1, SubSeqProperties
    <2>3. (IF n + 1 <= len THEN len - (n + 1) + 1 ELSE 0) = len - n
      BY <1>1
    <2>4. \A i \in 1 .. len - n : n + 1 + i - 1 = n + i
      BY <1>1
    <2>5. len - (n + 1) + 1 = len - n
      BY <1>1
    <2> HIDE DEF v
    <2> QED
      BY <2>2, <2>3, <2>4, <2>5
  <1>4. \A k \in d + 1 .. total : /\ k \in 1 .. total /\ size[k] = Len(ps[k])
                                  /\ size[k] \in Nat
    <2> TAKE k \in d + 1 .. total
    <2>1. k \in 1 .. total
      BY <1>1
    <2>2. ps[k] \in Packets
      BY <2>1, ElementOfSeq
    <2>3. Len(ps[k]) \in Nat
      BY <2>2, PacketFacts
    <2> QED
      BY <2>1, <2>3
  <1>5. /\ \A k \in d + 1 .. total :
               /\ at[k] \in Nat /\ at[k] + size[k] <= len
               /\ \A j \in 1 .. size[k] : w[at[k] + j] = ps[k][j]
        /\ \A k, l \in d + 1 .. total : k < l => at[k] + size[k] <= at[l]
        /\ \A j \in 1 .. len :
               w[j] = First => \E k \in d + 1 .. total :
                                   at[k] < j /\ j <= at[k] + size[k]
    BY <1>4 DEF Laid
  <1>6. /\ \A k \in d + 1 .. e : at[k] + size[k] <= n
        /\ \A k \in e + 1 .. total : n <= at[k]
    BY <1>1, <1>4
  <1> HIDE DEF len, total, size, v
  <1>7. \A k \in e + 1 .. total :
            /\ k \in d + 1 .. total /\ new[k] = at[k] - n /\ new[k] \in Nat
            /\ new[k] + n = at[k]
    BY <1>1, <1>5, <1>6
  <1>8. new \in [e + 1 .. total -> Nat]
    BY <1>7
  <1> HIDE DEF new
  <1>9. \A k \in e + 1 .. total :
            /\ new[k] + size[k] <= Len(v)
            /\ \A j \in 1 .. size[k] : v[new[k] + j] = ps[k][j]
    <2> TAKE k \in e + 1 .. total
    <2>1. new[k] \in Nat /\ size[k] \in Nat /\ new[k] + n = at[k]
          /\ k \in d + 1 .. total
      BY <1>4, <1>7
    <2>2. new[k] + size[k] <= len - n
      <3>1. at[k] + size[k] <= len
        BY <1>5, <2>1
      <3> QED
        BY <1>1, <2>1, <3>1
    <2>3. \A j \in 1 .. size[k] : v[new[k] + j] = ps[k][j]
      <3> TAKE j \in 1 .. size[k]
      <3>1. new[k] + j \in 1 .. len - n /\ n + (new[k] + j) = at[k] + j
        BY <1>1, <2>1, <2>2
      <3>2. v[new[k] + j] = w[n + (new[k] + j)]
        BY <1>3, <3>1
      <3>3. w[at[k] + j] = ps[k][j]
        BY <1>5, <2>1
      <3> QED
        BY <3>1, <3>2, <3>3
    <2> QED
      BY <1>3, <2>2, <2>3
  <1>10. \A k, l \in e + 1 .. total : k < l => new[k] + size[k] <= new[l]
    <2> TAKE k, l \in e + 1 .. total
    <2> HAVE k < l
    <2>1. at[k] + size[k] <= at[l] /\ at[k] \in Nat /\ at[l] \in Nat
      BY <1>5, <1>7
    <2>2. new[k] = at[k] - n /\ new[l] = at[l] - n /\ size[k] \in Nat
      BY <1>4, <1>7
    <2> QED
      BY <1>1, <2>1, <2>2, SMTT(40)
  <1>11. \A j \in 1 .. Len(v) :
             v[j] = First => \E k \in e + 1 .. total :
                                 new[k] < j /\ j <= new[k] + size[k]
    <2> TAKE j \in 1 .. Len(v)
    <2> HAVE v[j] = First
    <2>1. j \in 1 .. len - n /\ n + j \in 1 .. len /\ w[n + j] = First
      BY <1>1, <1>3
    <2>2. PICK k \in d + 1 .. total : at[k] < n + j /\ n + j <= at[k] + size[k]
      BY <1>5, <2>1
    <2>3. k \notin d + 1 .. e
      <3> SUFFICES ASSUME k \in d + 1 .. e
                   PROVE  FALSE
        OBVIOUS
      <3>1. at[k] + size[k] <= n /\ at[k] \in Nat /\ size[k] \in Nat
        BY <1>4, <1>5, <1>6
      <3> QED
        BY <1>1, <2>1, <2>2, <3>1, SMTT(40)
    <2>4. k \in e + 1 .. total
      BY <1>1, <2>3
    <2>5. new[k] + n = at[k] /\ new[k] \in Nat /\ size[k] \in Nat
      BY <1>4, <1>7, <2>4
    <2>6. new[k] < j /\ j <= new[k] + size[k]
      BY <1>1, <2>1, <2>2, <2>5
    <2> QED
      BY <2>4, <2>6
  <1>12. \A k \in e + 1 .. total : size[k] = Len(ps[k])
    BY <1>4, <1>7
  <1>13. /\ \A k \in e + 1 .. total :
                /\ new[k] + Len(ps[k]) <= Len(v)
                /\ \A j \in 1 .. Len(ps[k]) : v[new[k] + j] = ps[k][j]
         /\ \A k, l \in e + 1 .. total : k < l => new[k] + Len(ps[k]) <= new[l]
         /\ \A j \in 1 .. Len(v) :
                v[j] = First => \E k \in e + 1 .. total :
                                    new[k] < j /\ j <= new[k] + Len(ps[k])
    BY <1>9, <1>10, <1>11, <1>12
  <1>14. Laid(v, ps, e, new)
    BY <1>8, <1>13 DEF Laid, total
  <1> QED
    BY <1>14 DEF v, new, len, total

\* Bytes behind the packets, none of them a First.
LEMMA LaidBefore ==
    ASSUME NEW w \in Seq(Byte), NEW ps \in Seq(Packets), NEW d \in Nat, NEW at,
           Laid(w, ps, d, at), NEW q \in Seq(Byte),
           \A i \in DOMAIN q : q[i] # First
    PROVE  Laid(w \o q, ps, d, at)
  <1> DEFINE len == Len(w)
             more == Len(q)
             v == w \o q
  <1>1. /\ len \in Nat /\ more \in Nat /\ DOMAIN q = 1 .. more /\ Len(ps) \in Nat
        /\ Len(v) = len + more
        /\ \A i \in 1 .. len + more : v[i] = IF i <= len THEN w[i] ELSE q[i - len]
    BY LenProperties, ConcatProperties
  <1>2. \A i \in 1 .. len : v[i] = w[i]
    BY <1>1
  <1>3. /\ \A k \in d + 1 .. Len(ps) :
               /\ at[k] \in Nat /\ at[k] + Len(ps[k]) <= len
               /\ \A j \in 1 .. Len(ps[k]) : w[at[k] + j] = ps[k][j]
        /\ \A j \in 1 .. len :
               w[j] = First => \E k \in d + 1 .. Len(ps) :
                                   at[k] < j /\ j <= at[k] + Len(ps[k])
    BY DEF Laid
  <1> HIDE DEF len, more, v
  <1>4. ASSUME NEW k \in d + 1 .. Len(ps)
        PROVE  /\ at[k] + Len(ps[k]) <= Len(v)
               /\ \A j \in 1 .. Len(ps[k]) : v[at[k] + j] = ps[k][j]
    <2> DEFINE size == Len(ps[k])
    <2>1. size \in Nat
      <3>1. ps[k] \in Packets
        BY <1>1, ElementOfSeq
      <3> QED
        BY <3>1, PacketFacts
    <2>2. at[k] \in Nat /\ at[k] + size <= len
      BY <1>3
    <2> HIDE DEF size
    <2>3. at[k] + size <= len + more /\ \A j \in 1 .. size : at[k] + j \in 1 .. len
      BY <1>1, <2>1, <2>2
    <2>4. \A j \in 1 .. size : v[at[k] + j] = w[at[k] + j]
      BY <1>2, <2>3
    <2>5. \A j \in 1 .. size : w[at[k] + j] = ps[k][j]
      BY <1>3 DEF size
    <2> QED
      BY <1>1, <2>3, <2>4, <2>5 DEF size
  <1>5. ASSUME NEW j \in 1 .. Len(v), v[j] = First
        PROVE  \E k \in d + 1 .. Len(ps) : at[k] < j /\ j <= at[k] + Len(ps[k])
    <2>1. j \in 1 .. len
      <3> SUFFICES ASSUME j > len
                   PROVE  FALSE
        BY <1>1
      <3>1. j - len \in 1 .. more /\ v[j] = q[j - len]
        BY <1>1
      <3> QED
        BY <1>1, <1>5, <3>1
    <2> QED
      BY <1>2, <1>3, <1>5, <2>1
  <1> QED
    BY <1>4, <1>5 DEF Laid, v

\* Another packet behind them.
LEMMA LaidPacket ==
    ASSUME NEW w \in Seq(Byte), NEW ps \in Seq(Packets), NEW d \in Nat, NEW at,
           Laid(w, ps, d, at), d <= Len(ps), NEW p \in Packets
    PROVE  Laid(w \o p, Append(ps, p), d,
                [k \in d + 1 .. Len(ps) + 1 |->
                    IF k = Len(ps) + 1 THEN Len(w) ELSE at[k]])
  <1> DEFINE len == Len(w)
             more == Len(p)
             v == w \o p
             total == Len(ps)
             qs == Append(ps, p)
             new == [k \in d + 1 .. total + 1 |->
                        IF k = total + 1 THEN len ELSE at[k]]
             size == [k \in 1 .. total |-> Len(ps[k])]
  <1>1. /\ p \in Seq(Byte) /\ len \in Nat /\ more \in Nat /\ total \in Nat
        /\ Len(v) = len + more
        /\ \A i \in 1 .. len + more : v[i] = IF i <= len THEN w[i] ELSE p[i - len]
        /\ Len(qs) = total + 1 /\ qs[total + 1] = p
        /\ \A k \in 1 .. total : qs[k] = ps[k]
    BY LenProperties, ConcatProperties, PacketFacts, AppendProperties
  <1>2. \A k \in 1 .. total : size[k] = Len(ps[k]) /\ size[k] \in Nat
    <2> TAKE k \in 1 .. total
    <2>1. ps[k] \in Packets
      BY ElementOfSeq
    <2> QED
      BY <2>1, PacketFacts
  <1>3. \A k \in d + 1 .. total : k \in 1 .. total
    BY <1>1
  <1>4. /\ \A k \in d + 1 .. total :
               /\ at[k] \in Nat /\ at[k] + size[k] <= len
               /\ \A j \in 1 .. size[k] : w[at[k] + j] = ps[k][j]
        /\ \A k, l \in d + 1 .. total : k < l => at[k] + size[k] <= at[l]
        /\ \A j \in 1 .. len :
               w[j] = First => \E k \in d + 1 .. total :
                                   at[k] < j /\ j <= at[k] + size[k]
    BY <1>2, <1>3 DEF Laid
  <1>5. /\ new[total + 1] = len /\ total + 1 \in d + 1 .. total + 1
        /\ \A k \in d + 1 .. total :
               new[k] = at[k] /\ k \in d + 1 .. total + 1
        /\ \A k \in d + 1 .. total + 1 : k \in d + 1 .. total \/ k = total + 1
    BY <1>1
  <1>6. \A k \in d + 1 .. total :
            qs[k] = ps[k] /\ Len(qs[k]) = size[k] /\ size[k] \in Nat
    BY <1>1, <1>2, <1>3
  <1> HIDE DEF v, qs, size, len, more
  <1>7. new \in [d + 1 .. total + 1 -> Nat]
    BY <1>1, <1>4
  <1> HIDE DEF new, total
  <1>8. ASSUME NEW k \in d + 1 .. total + 1
        PROVE  /\ new[k] + Len(qs[k]) <= Len(v)
               /\ \A j \in 1 .. Len(qs[k]) : v[new[k] + j] = qs[k][j]
    <2>1. CASE k = total + 1
      <3>1. new[k] = len /\ qs[k] = p /\ Len(qs[k]) = more
        BY <1>1, <1>5, <2>1 DEF more
      <3>2. \A j \in 1 .. more : v[len + j] = p[j]
        <4> TAKE j \in 1 .. more
        <4>1. len + j \in 1 .. len + more /\ ~(len + j <= len)
              /\ len + j - len = j
          BY <1>1
        <4> QED
          BY <1>1, <4>1
      <3>3. len + more <= Len(v)
        BY <1>1
      <3> QED
        BY <3>1, <3>2, <3>3
    <2>2. CASE k \in d + 1 .. total
      <3> DEFINE a == at[k]
                 s == size[k]
      <3>1. new[k] = a /\ qs[k] = ps[k] /\ Len(qs[k]) = s /\ s \in Nat
            /\ a \in Nat /\ a + s <= len
            /\ \A j \in 1 .. s : w[a + j] = ps[k][j]
        BY <1>4, <1>5, <1>6, <2>2
      <3> HIDE DEF a, s
      <3>2. a + s <= len + more
            /\ \A j \in 1 .. s : a + j \in 1 .. len + more /\ a + j <= len
        BY <1>1, <3>1
      <3>3. \A j \in 1 .. s : v[a + j] = w[a + j]
        BY <1>1, <3>2
      <3> QED
        BY <1>1, <3>1, <3>2, <3>3
    <2> QED
      BY <1>5, <2>1, <2>2
  <1>9. ASSUME NEW k \in d + 1 .. total + 1, NEW l \in d + 1 .. total + 1, k < l
        PROVE  new[k] + Len(qs[k]) <= new[l]
    <2>1. k \in d + 1 .. total
      BY <1>1, <1>9
    <2>2. new[k] = at[k] /\ Len(qs[k]) = size[k]
      BY <1>5, <1>6, <2>1
    <2>3. CASE l = total + 1
      BY <1>4, <1>5, <2>1, <2>2, <2>3
    <2>4. CASE l \in d + 1 .. total
      BY <1>4, <1>5, <1>9, <2>1, <2>2, <2>4
    <2> QED
      BY <1>5, <2>3, <2>4
  <1>10. ASSUME NEW j \in 1 .. Len(v), v[j] = First
         PROVE  \E k \in d + 1 .. total + 1 :
                    new[k] < j /\ j <= new[k] + Len(qs[k])
    <2>1. CASE j <= len
      <3>1. j \in 1 .. len /\ w[j] = First
        BY <1>1, <1>10, <2>1
      <3>2. PICK k \in d + 1 .. total : at[k] < j /\ j <= at[k] + size[k]
        BY <1>4, <3>1
      <3>3. k \in d + 1 .. total + 1 /\ new[k] = at[k] /\ Len(qs[k]) = size[k]
        BY <1>5, <1>6
      <3> QED
        BY <3>2, <3>3
    <2>2. CASE ~(j <= len)
      <3>1. len < j /\ j <= len + more
        BY <1>1, <2>2
      <3>2. /\ total + 1 \in d + 1 .. total + 1
            /\ new[total + 1] = len /\ Len(qs[total + 1]) = more
        BY <1>1, <1>5 DEF more
      <3> QED
        BY <3>1, <3>2
    <2> QED
      BY <2>1, <2>2
  <1>11. Laid(v, qs, d, new)
    BY <1>1, <1>7, <1>8, <1>9, <1>10 DEF Laid
  <1> QED
    BY <1>11 DEF v, qs, new, len, total

(***************************************************************************)
(* The steps of the machine in sync.                                       *)
(***************************************************************************)

LEMMA BytesConcat ==
    ASSUME NEW s \in Seq(Byte), NEW t \in Seq(Byte)
    PROVE  /\ s \o t \in Seq(Byte)
           /\ Len(s \o t) = Len(s) + Len(t)
           /\ \A i \in 1 .. Len(s) + Len(t) :
                  (s \o t)[i] = IF i <= Len(s) THEN s[i] ELSE t[i - Len(s)]
  BY ConcatProperties

LEMMA BytesAssociate ==
    ASSUME NEW s \in Seq(Byte), NEW t \in Seq(Byte), NEW u \in Seq(Byte)
    PROVE  (s \o t) \o u = s \o (t \o u)
  BY ConcatAssociative

LEMMA StreamFacts ==
    ASSUME ReceiveTypeOK
    PROVE  /\ Stream \in Seq(Byte)
           /\ Len(storage) \in Nat /\ Len(buffer) \in Nat /\ Len(line) \in Nat
           /\ Len(Stream) = Len(storage) + (Len(buffer) + Len(line))
           /\ \A i \in 1 .. Len(storage) : Stream[i] = storage[i]
           /\ \A i \in 1 .. Len(buffer) : Stream[Len(storage) + i] = buffer[i]
  <1> DEFINE rest == buffer \o line
             a == Len(storage)
             b == Len(buffer)
             c == Len(line)
  <1>1. /\ storage \in Seq(Byte) /\ buffer \in Seq(Byte) /\ line \in Seq(Byte)
        /\ a \in Nat /\ b \in Nat /\ c \in Nat
    BY LenProperties DEF ReceiveTypeOK
  <1>2. /\ rest \in Seq(Byte) /\ Len(rest) = b + c
        /\ \A i \in 1 .. b + c : rest[i] = IF i <= b THEN buffer[i] ELSE line[i - b]
    BY <1>1, ConcatProperties
  <1> HIDE DEF rest
  <1>3. /\ storage \o rest \in Seq(Byte)
        /\ Len(storage \o rest) = a + Len(rest)
        /\ \A i \in 1 .. a + Len(rest) :
               (storage \o rest)[i] = IF i <= a THEN storage[i] ELSE rest[i - a]
    BY <1>1, <1>2, BytesConcat, Zenon
  <1>4. Stream = storage \o rest
    BY DEF Stream, rest
  <1> HIDE DEF a, b, c
  <1>5. /\ Stream \in Seq(Byte) /\ Len(Stream) = a + (b + c)
        /\ \A i \in 1 .. a + (b + c) :
               Stream[i] = IF i <= a THEN storage[i] ELSE rest[i - a]
    BY <1>2, <1>3, <1>4
  <1>6. \A i \in 1 .. a : Stream[i] = storage[i]
    BY <1>1, <1>5
  <1>7. ASSUME NEW i \in 1 .. b
        PROVE  Stream[a + i] = buffer[i]
    <2>1. /\ a + i \in 1 .. a + (b + c) /\ ~(a + i <= a) /\ a + i - a = i
          /\ i \in 1 .. b + c /\ i <= b
      BY <1>1
    <2> DEFINE j == a + i
    <2> HIDE DEF j
    <2>2. Stream[j] = rest[j - a]
      BY <1>5, <2>1 DEF j
    <2>3. j - a = i
      BY <1>1 DEF j
    <2>4. rest[i] = buffer[i]
      BY <1>2, <2>1
    <2> QED
      BY <2>2, <2>3, <2>4 DEF j
  <1> QED
    BY <1>1, <1>5, <1>6, <1>7 DEF a, b, c

\* The first byte of a buffer.
LEMMA OneByte ==
    ASSUME NEW s \in Seq(Byte), NEW b \in Seq(Byte), b # << >>
    PROVE  /\ Len(b) \in Nat /\ Len(b) >= 1 /\ Head(b) = b[1] /\ Head(b) \in Byte
           /\ Append(s, Head(b)) = s \o SubSeq(b, 1, 1)
           /\ CalcChecksum(SubSeq(b, 1, 1)) = Head(b)
  <1>1. Len(b) \in Nat /\ Len(b) >= 1
    BY EmptySeq, LenProperties
  <1>2. Head(b) = b[1] /\ Head(b) \in Byte
    BY HeadTailProperties
  <1>3. SubSeq(b, 1, 1) = <<Head(b)>>
    <2> DEFINE one == SubSeq(b, 1, 1)
               h == Head(b)
    <2>1. \A i \in 1 .. 1 : b[i] \in Byte
      BY <1>2
    <2>2. one \in Seq(Byte) /\ Len(one) = 1 /\ one[1] = b[1]
      BY <2>1, SubSeqProperties
    <2>3. <<h>> \in Seq(Byte) /\ Len(<<h>>) = 1 /\ <<h>>[1] = h
      BY <1>2
    <2> HIDE DEF one, h
    <2>4. \A i \in 1 .. Len(one) : one[i] = <<h>>[i]
      BY <1>2, <2>2, <2>3 DEF h
    <2>5. one = <<h>>
      BY <2>2, <2>3, <2>4, SeqEqual
    <2> QED
      BY <2>5 DEF one, h
  <1>4. Append(s, Head(b)) = s \o <<Head(b)>>
    BY <1>2, AppendIsConcat
  <1>5. CalcChecksum(<<Head(b)>>) = Head(b)
    BY <1>2, ChecksumOfByte
  <1> QED
    BY <1>1, <1>2, <1>3, <1>4, <1>5

\* Moving the front of one sequence to the end of the one before it.
LEMMA MoveFront ==
    ASSUME NEW s \in Seq(Byte), NEW b \in Seq(Byte), NEW l \in Seq(Byte),
           NEW n \in Nat, n <= Len(b)
    PROVE  (s \o SubSeq(b, 1, n)) \o (SubSeq(b, n + 1, Len(b)) \o l)
               = s \o (b \o l)
  <1> DEFINE x == SubSeq(b, 1, n)
             y == SubSeq(b, n + 1, Len(b))
  <1>1. x \in Seq(Byte) /\ y \in Seq(Byte)
    BY Parts
  <1>2. x \o y = b
    <2>1. Len(b) \in Nat
      BY LenProperties
    <2>2. /\ 1 \in 1 .. Len(b) + 1 /\ n \in 1 - 1 .. Len(b)
          /\ Len(b) \in n .. Len(b)
      BY <2>1
    <2>3. x \o y = SubSeq(b, 1, Len(b))
      BY <2>2, ConcatAdjacentSubSeq
    <2> QED
      BY <2>3, SubSeqFull
  <1> HIDE DEF x, y
  <1>3. y \o l \in Seq(Byte)
    BY <1>1, ConcatProperties
  <1>4. (s \o x) \o (y \o l) = s \o (x \o (y \o l))
    BY <1>1, <1>3, BytesAssociate, ZenonT(60)
  <1>5. (x \o y) \o l = x \o (y \o l)
    BY <1>1, BytesAssociate, ZenonT(60)
  <1>6. (s \o x) \o (y \o l) = s \o (b \o l)
    BY <1>2, <1>4, <1>5
  <1> QED
    BY <1>6 DEF x, y

\* In sync the machine takes n more bytes of a packet.
LEMMA TakeStep ==
    ASSUME ReceiveTypeOK, SyncInv, NEW n \in Nat, 1 <= n, n <= Len(buffer),
           storage' = storage \o SubSeq(buffer, 1, n),
           buffer' = SubSeq(buffer, n + 1, Len(buffer)),
           crc' = (crc + CalcChecksum(SubSeq(buffer, 1, n))) % 256,
           UNCHANGED <<line, history, delivered>>,
           storage # << >> \/ buffer[1] = First
    PROVE  SyncInv'
  <1> SUFFICES ASSUME inSync'
               PROVE  /\ Delivers'
                      /\ crc' = CalcChecksum(storage')
                      /\ \E at : /\ Laid(Stream', sent', Len(delivered'), at)
                                 /\ Len(delivered') < Len(sent')
                                 /\ at[Len(delivered') + 1] = 0
    BY DEF SyncInv
  <1>1. /\ sent' = sent /\ inSync /\ delivered' = delivered /\ line' = line
    BY DEF history
  <1>2. /\ Delivers /\ crc = CalcChecksum(storage)
        /\ \E at : /\ Laid(Stream, sent, Len(delivered), at)
                   /\ storage # << >> => /\ Len(delivered) < Len(sent)
                                         /\ at[Len(delivered) + 1] = 0
    BY <1>1 DEF SyncInv
  <1>3. /\ storage \in Seq(Byte) /\ buffer \in Seq(Byte) /\ line \in Seq(Byte)
        /\ sent \in Seq(Packets) /\ Len(delivered) \in Nat
    BY LenProperties DEF ReceiveTypeOK
  <1>4. PICK at : /\ Laid(Stream, sent, Len(delivered), at)
                  /\ storage # << >> => /\ Len(delivered) < Len(sent)
                                        /\ at[Len(delivered) + 1] = 0
    BY <1>2
  <1>5. Len(delivered) < Len(sent) /\ at[Len(delivered) + 1] = 0
    <2>1. CASE storage # << >>
      BY <1>4, <2>1
    <2>2. CASE storage = << >>
      <3>1. Len(storage) = 0 /\ buffer[1] = First /\ 1 \in 1 .. Len(buffer)
        BY <1>3, <2>2, LenProperties
      <3>2. Stream \in Seq(Byte) /\ Stream[1] = First
        BY <3>1, StreamFacts
      <3>3. Stream # << >>
        <4>1. Len(Stream) >= 1
          BY <3>1, StreamFacts
        <4> QED
          BY <4>1, EmptySeq
      <3> QED
        BY <1>3, <1>4, <3>2, <3>3, StartsPacket
    <2> QED
      BY <2>1, <2>2
  <1>6. Stream' = Stream
    <2>1. (storage \o SubSeq(buffer, 1, n))
              \o (SubSeq(buffer, n + 1, Len(buffer)) \o line)
              = storage \o (buffer \o line)
      BY <1>3, MoveFront, ZenonT(60)
    <2> QED
      BY <1>1, <2>1, Zenon DEF Stream
  <1>7. Delivers'
    BY <1>1, <1>2 DEF Delivers, Accepted
  <1>8. crc' = CalcChecksum(storage')
    <2>1. SubSeq(buffer, 1, n) \in Seq(Byte)
      BY <1>3, Parts
    <2> QED
      BY <1>2, <1>3, <2>1, ChecksumOfConcat, ZenonT(60)
  <1> QED
    BY <1>1, <1>4, <1>5, <1>6, <1>7, <1>8

\* The packet the machine has begun.
LEMMA BegunPacket ==
    ASSUME ReceiveTypeOK, SyncInv, inSync, storage # << >>
    PROVE  \E at : /\ Laid(Stream, sent, Len(delivered), at)
                   /\ Len(delivered) < Len(sent)
                   /\ at[Len(delivered) + 1] = 0
                   /\ sent[Len(delivered) + 1] \in Packets
                   /\ Len(sent[Len(delivered) + 1]) <= Len(Stream)
                   /\ \A i \in 1 .. Len(sent[Len(delivered) + 1]) :
                          Stream[i] = sent[Len(delivered) + 1][i]
  <1> DEFINE d == Len(delivered)
             p == sent[d + 1]
  <1>1. PICK at : /\ Laid(Stream, sent, d, at) /\ d < Len(sent)
                  /\ at[d + 1] = 0
    BY DEF SyncInv
  <1>2. d \in Nat /\ Len(sent) \in Nat /\ sent \in Seq(Packets)
    BY LenProperties DEF ReceiveTypeOK
  <1> HIDE DEF d
  <1>3. d + 1 \in 1 .. Len(sent) /\ d + 1 \in d + 1 .. Len(sent)
    BY <1>1, <1>2
  <1>4. p \in Packets
    BY <1>2, <1>3, ElementOfSeq
  <1>5. Len(p) \in Nat
    BY <1>4, PacketFacts
  <1>6. 0 + Len(p) <= Len(Stream) /\ \A j \in 1 .. Len(p) : Stream[0 + j] = p[j]
    BY <1>1, <1>3 DEF Laid
  <1>7. Len(p) <= Len(Stream) /\ \A j \in 1 .. Len(p) : Stream[j] = p[j]
    BY <1>5, <1>6
  <1> QED
    BY <1>1, <1>4, <1>7 DEF d

\* What an iteration of the loop leaves in the buffer.
LEMMA AdvanceByOne ==
    ASSUME Iteration("FirstByte") \/ Iteration("SecondByte") \/ Iteration("Crc")
    PROVE  /\ buffer' = SubSeq(buffer, 1 + 1, Len(buffer))
           /\ UNCHANGED <<line, history>> /\ buffer # << >>
  <1>1. BytesToAdvance = 1
    BY DEF Iteration, BytesToAdvance
  <1> QED
    BY <1>1 DEF Iteration

\* The bytes behind the first Len(x).
LEMMA WhatIsBehind ==
    ASSUME NEW x \in Seq(Byte), NEW z \in Seq(Byte)
    PROVE  SubSeq(x \o z, Len(x) + 1, Len(x \o z)) = z
  <1> DEFINE w == x \o z
             a == Len(x)
             c == Len(z)
             v == SubSeq(w, a + 1, a + c)
  <1>1. /\ w \in Seq(Byte) /\ Len(w) = a + c /\ a \in Nat /\ c \in Nat
        /\ \A i \in 1 .. a + c : w[i] = IF i <= a THEN x[i] ELSE z[i - a]
        /\ \A i \in 1 .. Len(w) : w[i] \in Byte
    BY BytesConcat, LenProperties, ElementOfSeq
  <1> HIDE DEF w, a, c
  <1>2. \A i \in a + 1 .. a + c : w[i] \in Byte
    BY <1>1
  <1>3. /\ v \in Seq(Byte)
        /\ Len(v) = IF a + 1 <= a + c THEN a + c - (a + 1) + 1 ELSE 0
        /\ \A i \in 1 .. a + c - (a + 1) + 1 : v[i] = w[a + 1 + i - 1]
    BY <1>1, <1>2, SubSeqProperties
  <1>4. a + c - (a + 1) + 1 = c
        /\ (IF a + 1 <= a + c THEN a + c - (a + 1) + 1 ELSE 0) = c
    BY <1>1
  <1> HIDE DEF v
  <1>5. ASSUME NEW i \in 1 .. c
        PROVE  v[i] = z[i]
    <2> DEFINE j == a + 1 + i - 1
    <2>1. j \in 1 .. a + c /\ ~(j <= a) /\ j - a = i
      BY <1>1
    <2>2. v[i] = w[j]
      BY <1>3, <1>4
    <2> HIDE DEF j
    <2>3. w[j] = z[j - a]
      BY <1>1, <2>1
    <2> QED
      BY <2>1, <2>2, <2>3
  <1>6. Len(v) = c
    BY <1>3, <1>4
  <1>7. v = z
    BY <1>3, <1>5, <1>6, SeqEqual DEF c
  <1> QED
    BY <1>1, <1>7 DEF v, w, a, c

LEMMA NothingBefore ==
    ASSUME NEW b \in Seq(Byte), NEW l \in Seq(Byte), NEW n \in Nat,
           n <= Len(b)
    PROVE  << >> \o (SubSeq(b, n + 1, Len(b)) \o l)
               = SubSeq(b, n + 1, Len(b)) \o l
  <1>1. SubSeq(b, n + 1, Len(b)) \in Seq(Byte)
    BY Parts
  <1>2. SubSeq(b, n + 1, Len(b)) \o l \in Seq(Byte)
    BY <1>1, BytesConcat
  <1> QED
    BY <1>2, ConcatEmptySeq

LEMMA MoveFirst ==
    ASSUME NEW s \in Seq(Byte), NEW b \in Seq(Byte), NEW l \in Seq(Byte),
           1 <= Len(b)
    PROVE  (s \o SubSeq(b, 1, 1)) \o (SubSeq(b, 1 + 1, Len(b)) \o l)
               = s \o (b \o l)
  <1> DEFINE n == 1
  <1>1. n \in Nat /\ n <= Len(b)
    OBVIOUS
  <1> HIDE DEF n
  <1>2. (s \o SubSeq(b, 1, n)) \o (SubSeq(b, n + 1, Len(b)) \o l) = s \o (b \o l)
    BY <1>1, MoveFront
  <1> QED
    BY <1>2 DEF n

LEMMA SyncFound ==
    ASSUME ReceiveTypeOK, ReceiveInv, SyncInv, FirstByteFound \/ SecondByteFound
    PROVE  SyncInv'
  <1>1. /\ buffer' = SubSeq(buffer, 1 + 1, Len(buffer))
        /\ UNCHANGED <<line, history, delivered>> /\ buffer # << >>
        /\ storage' = Append(storage, Head(buffer))
        /\ crc' = (crc + Head(buffer)) % 256
    BY AdvanceByOne DEF FirstByteFound, SecondByteFound
  <1>2. /\ storage \in Seq(Byte) /\ buffer \in Seq(Byte)
    BY DEF ReceiveTypeOK
  <1>3. /\ Len(buffer) \in Nat /\ 1 <= Len(buffer) /\ buffer[1] = Head(buffer)
        /\ storage' = storage \o SubSeq(buffer, 1, 1)
        /\ crc' = (crc + CalcChecksum(SubSeq(buffer, 1, 1))) % 256
    BY <1>1, <1>2, OneByte
  <1>4. storage # << >> \/ buffer[1] = First
    <2>1. CASE FirstByteFound
      BY <1>3, <2>1 DEF FirstByteFound
    <2>2. CASE SecondByteFound
      <3>1. Len(storage) = 1
        BY <2>2 DEF SecondByteFound, Iteration, ReceiveInv, StorageShape
      <3> QED
        BY <3>1, EmptySeq
    <2> QED
      BY <2>1, <2>2
  <1>5. 1 \in Nat /\ 1 <= 1
    OBVIOUS
  <1> QED
    BY <1>1, <1>3, <1>4, <1>5, TakeStep

LEMMA SyncSkipped ==
    ASSUME ReceiveTypeOK, ReceiveInv, SyncInv, FirstByteSkipped
    PROVE  SyncInv'
  <1> DEFINE d == Len(delivered)
             total == Len(sent)
  <1>1. /\ buffer' = SubSeq(buffer, 1 + 1, Len(buffer))
        /\ UNCHANGED <<line, sent, inSync, delivered, storage, crc>>
        /\ buffer # << >> /\ Head(buffer) # First
    BY AdvanceByOne DEF FirstByteSkipped, machine, history
  <1>2. storage = << >>
    BY DEF FirstByteSkipped, Iteration, ReceiveInv, StorageShape
  <1>3. /\ storage \in Seq(Byte) /\ buffer \in Seq(Byte) /\ line \in Seq(Byte)
        /\ sent \in Seq(Packets) /\ d \in Nat /\ total \in Nat
    BY LenProperties DEF ReceiveTypeOK
  <1> SUFFICES ASSUME inSync
               PROVE  SyncInv'
    BY <1>1 DEF SyncInv
  <1>4. Delivers /\ crc = CalcChecksum(storage)
    BY DEF SyncInv
  <1>5. PICK at : Laid(Stream, sent, d, at)
    BY DEF SyncInv
  <1>6. /\ Len(buffer) \in Nat /\ 1 <= Len(buffer) /\ buffer[1] = Head(buffer)
    BY <1>1, <1>3, OneByte
  <1>7. Len(storage) = 0 /\ Stream \in Seq(Byte) /\ Stream[1] # First
        /\ Len(Stream) \in Nat /\ 1 <= Len(Stream)
    <2>1. Len(storage) = 0 /\ 1 \in 1 .. Len(buffer) /\ 0 + 1 = 1
      BY <1>2, <1>6
    <2>2. Stream[1] = buffer[1]
      BY <2>1, StreamFacts
    <2>3. Stream \in Seq(Byte) /\ Len(line) \in Nat
          /\ Len(Stream) = 0 + (Len(buffer) + Len(line))
      BY <2>1, StreamFacts
    <2> QED
      BY <1>1, <1>6, <2>1, <2>2, <2>3
  <1> DEFINE new == [k \in d + 1 .. total |-> at[k] - 1]
  <1>8. Laid(SubSeq(Stream, 1 + 1, Len(Stream)), sent, d, new)
    <2>1. \A k \in d + 1 .. total : 1 <= at[k]
      <3>1. \A k \in d + 1 .. total : at[k] >= 1 /\ at[k] \in Nat
        BY <1>3, <1>5, <1>7, StartsNothing DEF Laid
      <3> QED
        BY <3>1
    <2>2. 1 \in 0 .. Len(Stream) /\ d \in d .. total
      <3>1. d <= total
        BY <1>4 DEF Delivers
      <3> QED
        BY <1>3, <1>7, <3>1
    <2>3. \A k \in d + 1 .. d : at[k] + Len(sent[k]) <= 1
      BY <1>3
    <2> HIDE DEF d, total
    <2> QED
      BY <1>3, <1>5, <1>7, <2>1, <2>2, <2>3, LaidBehind, ZenonT(60)
         DEF total
  <1>9. Stream' = SubSeq(Stream, 1 + 1, Len(Stream))
    <2> DEFINE x == storage \o SubSeq(buffer, 1, 1)
               z == SubSeq(buffer, 1 + 1, Len(buffer)) \o line
    <2>1. Stream = x \o z
      <3>1. (storage \o SubSeq(buffer, 1, 1))
                \o (SubSeq(buffer, 1 + 1, Len(buffer)) \o line)
                = storage \o (buffer \o line)
        BY <1>3, <1>6, MoveFirst, Zenon
      <3> QED
        BY <3>1 DEF Stream
    <2>2. Stream' = z
      BY <1>1, <1>2, <1>3, <1>6, NothingBefore DEF Stream
    <2>3. x \in Seq(Byte) /\ z \in Seq(Byte) /\ Len(x) = 1
      <3>1. /\ SubSeq(buffer, 1, 1) \in Seq(Byte)
            /\ Len(SubSeq(buffer, 1, 1)) = 1
            /\ SubSeq(buffer, 1 + 1, Len(buffer)) \in Seq(Byte)
        BY <1>3, <1>6, Parts
      <3> QED
        BY <1>3, <1>7, <3>1, BytesConcat
    <2> HIDE DEF x, z
    <2> QED
      BY <2>1, <2>2, <2>3, WhatIsBehind
  <1> QED
    BY <1>1, <1>2, <1>4, <1>8, <1>9 DEF SyncInv, Delivers, Accepted

\* The byte behind the First of a packet is its Second.
LEMMA SyncMissing ==
    ASSUME ReceiveTypeOK, ReceiveInv, SyncInv, SecondByteMissing
    PROVE  SyncInv'
  <1>1. inSync' = inSync /\ buffer # << >> /\ Head(buffer) # Second
    BY AdvanceByOne DEF SecondByteMissing, history
  <1> SUFFICES ASSUME inSync
               PROVE  FALSE
    BY <1>1 DEF SyncInv
  <1>2. Len(storage) = 1 /\ storage # << >>
    <2>1. Len(storage) = 1
      BY DEF SecondByteMissing, Iteration, ReceiveInv, StorageShape
    <2> QED
      BY <2>1, EmptySeq
  <1> DEFINE p == sent[Len(delivered) + 1]
  <1>3. /\ p \in Packets
        /\ \A i \in 1 .. Len(p) : Stream[i] = p[i]
    BY <1>2, BegunPacket
  <1>4. Len(p) \in Nat /\ Len(p) >= 11 /\ p[2] = Second
    BY <1>3, PacketFacts
  <1> HIDE DEF p
  <1>5. Stream[2] = Second
    BY <1>3, <1>4
  <1>6. Len(buffer) \in Nat /\ 1 <= Len(buffer) /\ Head(buffer) = buffer[1]
    BY <1>1, OneByte DEF ReceiveTypeOK
  <1>7. 1 \in 1 .. Len(buffer) /\ 1 + 1 = 2
    BY <1>6
  <1>8. Stream[2] = buffer[1]
    BY <1>2, <1>7, StreamFacts
  <1> QED
    BY <1>1, <1>5, <1>6, <1>8

\* A copy in the Header or the Payload case.
LEMMA SyncCopy ==
    ASSUME ReceiveTypeOK, ReceiveInv, SyncInv,
           Iteration("Header") \/ Iteration("Payload"), Copy,
           UNCHANGED delivered
    PROVE  SyncInv'
  <1>1. /\ state \in {"Header", "Payload"} /\ buffer # << >>
        /\ UNCHANGED <<line, history>>
        /\ buffer' = SubSeq(buffer, CanCopy + 1, Len(buffer))
    BY DEF Iteration, BytesToAdvance
  <1>2. CanCopy \in Nat /\ 1 <= CanCopy /\ CanCopy <= Len(buffer)
    <2>1. CanCopy \in Nat /\ CanCopy >= 1 /\ CanCopy <= Len(buffer)
      BY <1>1, CanCopyRange DEF ReceiveInv
    <2> QED
      BY <2>1
  <1>3. /\ storage' = storage \o SubSeq(buffer, 1, CanCopy)
        /\ crc' = (crc + CalcChecksum(SubSeq(buffer, 1, CanCopy))) % 256
    BY DEF Copy, AddToCrc, Copied
  <1>4. storage # << >>
    <2>1. Len(storage) >= 2
      <3>1. Len(storage) \in Nat /\ (2 <= Len(storage) \/ Len(storage) >= 10)
        BY <1>1, StreamFacts DEF ReceiveInv, StorageShape, HeaderSize
      <3> QED
        BY <3>1
    <2> QED
      BY <2>1, EmptySeq
  <1> HIDE DEF CanCopy
  <1> QED
    BY <1>1, <1>2, <1>3, <1>4, TakeStep

\* The length in the header of a packet is its own.
LEMMA SyncRefused ==
    ASSUME ReceiveTypeOK, ReceiveInv, SyncInv, HeaderRefused
    PROVE  SyncInv'
  <1> DEFINE new == storage \o Copied
             p == sent[Len(delivered) + 1]
  <1>1. /\ inSync' = inSync /\ buffer # << >> /\ state = "Header"
        /\ CanCopy = NumNeeded /\ ~LengthAccepted(PacketLength(new))
    BY DEF HeaderRefused, Iteration, history
  <1> SUFFICES ASSUME inSync
               PROVE  FALSE
    BY <1>1 DEF SyncInv
  <1>2. /\ 2 <= Len(storage) /\ Len(storage) < 10 /\ Len(storage) \in Nat
        /\ NumNeeded = 10 - Len(storage)
    BY <1>1, StreamFacts DEF ReceiveInv, StorageShape, HeaderSize, NumNeeded
  <1>3. storage # << >>
    BY <1>2, EmptySeq
  <1>4. /\ p \in Packets /\ \A i \in 1 .. Len(p) : Stream[i] = p[i]
    BY <1>3, BegunPacket
  <1>5. /\ Len(p) \in Nat /\ Len(p) >= 11 /\ Len(p) <= MaxLength
        /\ PacketLength(p) = Len(p)
    BY <1>4, PacketFacts
  <1> DEFINE n == CanCopy
             a == Len(storage)
  <1>6. /\ n \in Nat /\ n <= Len(buffer) /\ a + n = 10
        /\ a \in Nat /\ Len(buffer) \in Nat
    <2>1. CanCopy \in Nat /\ CanCopy <= Len(buffer)
      BY <1>1, CanCopyRange DEF ReceiveInv
    <2> QED
      BY <1>1, <1>2, <2>1, StreamFacts
  <1>7. \A i \in 1 .. 10 : new[i] = Stream[i]
    <2>1. storage \in Seq(Byte) /\ buffer \in Seq(Byte)
      BY DEF ReceiveTypeOK
    <2> DEFINE c == SubSeq(buffer, 1, n)
    <2>2. c \in Seq(Byte) /\ Len(c) = n
      <3> HIDE DEF n
      <3> QED
        BY <1>6, <2>1, Parts
    <2>3. \A i \in 1 .. n : c[i] = buffer[i]
      <3>1. \A i \in 1 .. n : buffer[i] \in Byte
        <4> HIDE DEF n
        <4> QED
          BY <1>6, <2>1, ElementOfSeq
      <3> HIDE DEF n
      <3>2. \A i \in 1 .. n - 1 + 1 : c[i] = buffer[1 + i - 1]
        BY <1>6, <3>1, SubSeqProperties
      <3>3. n - 1 + 1 = n /\ \A i \in 1 .. n : 1 + i - 1 = i
        BY <1>6
      <3> HIDE DEF c
      <3> QED
        BY <3>2, <3>3
    <2>4. new = storage \o c
      BY DEF Copied
    <2> HIDE DEF c, n
    <2>5. \A i \in 1 .. a + n : new[i] = IF i <= a THEN storage[i] ELSE c[i - a]
      BY <2>1, <2>2, <2>4, BytesConcat
    <2>6. /\ \A i \in 1 .. a : Stream[i] = storage[i]
          /\ \A i \in 1 .. Len(buffer) : Stream[a + i] = buffer[i]
      BY StreamFacts
    <2> HIDE DEF new, a
    <2> TAKE i \in 1 .. 10
    <2>7. CASE i <= a
      BY <1>6, <2>5, <2>6, <2>7
    <2>8. CASE ~(i <= a)
      <3> DEFINE j == i - a
      <3>1. j \in 1 .. n /\ j \in 1 .. Len(buffer) /\ a + j = i
            /\ i \in 1 .. a + n
        BY <1>6, <2>8
      <3>2. new[i] = c[j]
        BY <2>5, <2>8, <3>1
      <3> HIDE DEF j
      <3>3. Stream[a + j] = buffer[j] /\ c[j] = buffer[j]
        BY <2>3, <2>6, <3>1
      <3> QED
        BY <3>1, <3>2, <3>3
    <2> QED
      BY <2>7, <2>8
  <1> HIDE DEF new, p
  <1>8. new[3] = p[3] /\ new[4] = p[4]
    BY <1>4, <1>5, <1>7
  <1>9. PacketLength(new) = Len(p)
    BY <1>5, <1>8 DEF PacketLength
  <1> QED
    BY <1>1, <1>5, <1>9 DEF LengthAccepted, MinLength

\* The last byte of a packet: what is stored is all the rest of it, and what
\* was summed up its checksum.
LEMMA SyncCrc ==
    ASSUME ReceiveTypeOK, ReceiveInv, SyncInv, Crc
    PROVE  SyncInv'
  <1> DEFINE d == Len(delivered)
             total == Len(sent)
             p == sent[d + 1]
             n == Len(p)
             a == Len(storage)
             data == Append(storage, Head(buffer))
             call == [data |-> data, crc |-> crc]
  <1>1. /\ buffer' = SubSeq(buffer, 1 + 1, Len(buffer)) /\ buffer # << >>
        /\ UNCHANGED <<line, sent, inSync>>
        /\ delivered' = Append(delivered, call)
        /\ storage' = << >> /\ crc' = 0 /\ state = "Crc"
    BY AdvanceByOne DEF Crc, Iteration, history
  <1> SUFFICES ASSUME inSync
               PROVE  SyncInv'
    BY <1>1 DEF SyncInv
  <1>2. /\ storage \in Seq(Byte) /\ buffer \in Seq(Byte) /\ line \in Seq(Byte)
        /\ sent \in Seq(Packets) /\ d \in Nat /\ total \in Nat /\ a \in Nat
        /\ delivered \in Seq(Deliveries) /\ crc \in Byte
    BY LenProperties DEF ReceiveTypeOK, Deliveries
  <1>3. a >= 10 /\ PacketLength(storage) = a + 1
    BY <1>1 DEF ReceiveInv, StorageShape, HeaderSize
  <1>4. storage # << >>
    BY <1>2, <1>3, EmptySeq
  <1>5. PICK at : /\ Laid(Stream, sent, d, at) /\ d < total /\ at[d + 1] = 0
                  /\ p \in Packets /\ n <= Len(Stream)
                  /\ \A i \in 1 .. n : Stream[i] = p[i]
    BY <1>4, BegunPacket
  <1>6. /\ p \in Seq(Byte) /\ n \in Nat /\ n >= 11 /\ PacketLength(p) = n
        /\ Last(p) = CalcChecksum(SubSeq(p, 1, n - 1))
    BY <1>5, PacketFacts
  <1>7. /\ Stream \in Seq(Byte) /\ Len(Stream) \in Nat
        /\ \A i \in 1 .. a : Stream[i] = storage[i]
        /\ \A i \in 1 .. Len(buffer) : Stream[a + i] = buffer[i]
    BY StreamFacts, LenProperties
  <1>8. /\ Len(buffer) \in Nat /\ 1 <= Len(buffer) /\ Head(buffer) = buffer[1]
        /\ Head(buffer) \in Byte /\ data = storage \o SubSeq(buffer, 1, 1)
    BY <1>1, <1>2, OneByte
  <1> HIDE DEF p, n, a, d, total
  <1>9. n = a + 1
    <2>1. storage[3] = p[3] /\ storage[4] = p[4]
      BY <1>2, <1>3, <1>5, <1>6, <1>7
    <2>2. PacketLength(storage) = PacketLength(p)
      BY <2>1 DEF PacketLength
    <2> QED
      BY <1>3, <1>6, <2>2
  <1>10. /\ data \in Seq(Byte) /\ Len(data) = a + 1
         /\ \A i \in 1 .. a : data[i] = storage[i]
         /\ data[a + 1] = Head(buffer)
    BY <1>2, <1>8, AppendProperties DEF a
  <1> HIDE DEF data
  <1>11. data = p
    <2>1. \A i \in 1 .. a : data[i] = p[i]
      BY <1>2, <1>5, <1>7, <1>9, <1>10
    <2>2. 1 \in 1 .. Len(buffer) /\ a + 1 \in 1 .. n
      BY <1>2, <1>8, <1>9
    <2>3. data[a + 1] = p[a + 1]
      BY <1>5, <1>7, <1>8, <1>10, <2>2
    <2>4. \A i \in 1 .. a + 1 : i \in 1 .. a \/ i = a + 1
      BY <1>2
    <2>5. \A i \in 1 .. Len(data) : data[i] = p[i]
      BY <1>10, <2>1, <2>3, <2>4
    <2> QED
      BY <1>6, <1>9, <1>10, <2>5, SeqEqual DEF n
  <1>12. Last(data) = crc
    <2> DEFINE q == SubSeq(p, 1, n - 1)
    <2>1. n - 1 = a /\ a \in Nat /\ a <= Len(p)
      BY <1>2, <1>6, <1>9 DEF n
    <2>2. q \in Seq(Byte) /\ Len(q) = a
      BY <1>6, <2>1, Parts
    <2>3. \A i \in 1 .. a : p[i] \in Byte
      BY <1>6, <2>1, ElementOfSeq
    <2>4. \A i \in 1 .. a - 1 + 1 : SubSeq(p, 1, a)[i] = p[1 + i - 1]
      BY <2>1, <2>3, SubSeqProperties
    <2>5. a - 1 + 1 = a /\ \A i \in 1 .. a : 1 + i - 1 = i
      BY <2>1
    <2>6. \A i \in 1 .. a : q[i] = p[i]
      BY <2>1, <2>4, <2>5
    <2> HIDE DEF q
    <2>7. \A i \in 1 .. a : p[i] = storage[i]
      BY <1>10, <1>11
    <2>8. q = storage
      BY <1>2, <2>2, <2>6, <2>7, SeqEqual DEF a
    <2>9. crc = CalcChecksum(storage)
      BY DEF SyncInv
    <2> QED
      BY <1>6, <1>11, <2>8, <2>9 DEF q
  <1>13. call \in Deliveries /\ call.data = data /\ call.crc = crc
    BY <1>2, <1>10 DEF Deliveries
  <1> HIDE DEF call
  <1>14. /\ delivered' \in Seq(Deliveries) /\ Len(delivered') = d + 1
         /\ \A i \in 1 .. d : delivered'[i] = delivered[i]
         /\ delivered'[d + 1] = call
         /\ DOMAIN delivered = 1 .. d /\ DOMAIN delivered' = 1 .. d + 1
    <2>1. /\ delivered' \in Seq(Deliveries) /\ Len(delivered') = d + 1
          /\ \A i \in 1 .. d : delivered'[i] = delivered[i]
          /\ delivered'[d + 1] = call
      BY <1>1, <1>2, <1>13, AppendProperties DEF d
    <2> QED
      BY <1>2, <2>1, LenProperties DEF d
  <1>15. Delivers'
    <2>1. Len(delivered') <= Len(sent')
      BY <1>1, <1>2, <1>5, <1>14 DEF total
    <2>2. ASSUME NEW i \in 1 .. d + 1
          PROVE  delivered'[i].data = sent[i]
                 /\ delivered'[i].crc = Last(delivered'[i].data)
      <3>1. CASE i \in 1 .. d
        <4>1. delivered[i].data = sent[i] /\ delivered[i].crc = Last(delivered[i].data)
          BY <1>14, <3>1 DEF SyncInv, Delivers, Accepted
        <4> QED
          BY <1>14, <3>1, <4>1
      <3>2. CASE i = d + 1
        BY <1>11, <1>12, <1>13, <1>14, <3>2 DEF p
      <3> QED
        BY <1>2, <3>1, <3>2
    <2> QED
      BY <1>1, <1>14, <2>1, <2>2 DEF Delivers, Accepted
  <1>16. Laid(SubSeq(Stream, n + 1, Len(Stream)), sent, d + 1,
              [k \in d + 1 + 1 .. total |-> at[k] - n])
    <2>1. n \in 0 .. Len(Stream) /\ d + 1 \in d .. total
      BY <1>2, <1>5, <1>6, <1>7
    <2>2. \A k \in d + 1 .. d + 1 : at[k] + Len(sent[k]) <= n
      <3> TAKE k \in d + 1 .. d + 1
      <3>1. k = d + 1
        BY <1>2
      <3>2. at[k] = 0 /\ Len(sent[k]) = n
        BY <1>5, <3>1 DEF p, n
      <3> QED
        BY <1>6, <3>2
    <2>3. \A k \in d + 1 + 1 .. total : n <= at[k]
      <3> TAKE k \in d + 1 + 1 .. total
      <3>1. d + 1 \in d + 1 .. total /\ k \in d + 1 .. total /\ d + 1 < k
        BY <1>2
      <3>2. at[d + 1] + Len(sent[d + 1]) <= at[k]
        BY <1>5, <3>1 DEF Laid, total
      <3>3. 0 + n <= at[k]
        BY <1>5, <3>2 DEF p, n
      <3> QED
        BY <1>6, <3>3
    <2> DEFINE e == d + 1
    <2>4. /\ e \in d .. total
          /\ \A k \in d + 1 .. e : at[k] + Len(sent[k]) <= n
          /\ \A k \in e + 1 .. total : n <= at[k]
      BY <2>1, <2>2, <2>3
    <2> HIDE DEF e
    <2>5. Laid(SubSeq(Stream, n + 1, Len(Stream)), sent, e,
               [k \in e + 1 .. total |-> at[k] - n])
      <3>1. /\ Stream \in Seq(Byte) /\ sent \in Seq(Packets) /\ d \in Nat
            /\ Laid(Stream, sent, d, at) /\ n \in 0 .. Len(Stream)
        BY <1>2, <1>5, <1>7, <2>1
      <3> QED
        BY <2>4, <3>1, LaidBehind, Zenon DEF total
    <2> QED
      BY <2>5 DEF e
  <1>17. Stream' = SubSeq(Stream, n + 1, Len(Stream))
    <2> DEFINE x == storage \o SubSeq(buffer, 1, 1)
               z == SubSeq(buffer, 1 + 1, Len(buffer)) \o line
    <2>1. Stream = x \o z
      <3>1. (storage \o SubSeq(buffer, 1, 1))
                \o (SubSeq(buffer, 1 + 1, Len(buffer)) \o line)
                = storage \o (buffer \o line)
        BY <1>2, <1>8, MoveFirst, Zenon
      <3> QED
        BY <3>1 DEF Stream
    <2>2. Stream' = z
      BY <1>1, <1>2, <1>8, NothingBefore DEF Stream
    <2>3. x \in Seq(Byte) /\ z \in Seq(Byte) /\ Len(x) = n
      <3>1. SubSeq(buffer, 1 + 1, Len(buffer)) \in Seq(Byte)
        BY <1>2, <1>8, Parts
      <3>2. z \in Seq(Byte)
        BY <1>2, <3>1, BytesConcat
      <3>3. x = data
        BY <1>8
      <3> HIDE DEF x, z
      <3> QED
        BY <1>9, <1>10, <3>2, <3>3
    <2> HIDE DEF x, z
    <2> QED
      BY <2>1, <2>2, <2>3, WhatIsBehind
  <1>18. crc' = CalcChecksum(storage')
    BY <1>1, ChecksumOfNothing
  <1> QED
    BY <1>1, <1>14, <1>15, <1>16, <1>17, <1>18 DEF SyncInv

\* The callbacks and the line.
LEMMA SyncOutside ==
    ASSUME ReceiveTypeOK, ReceiveInv, SyncInv,
           DoRead \/ Recover \/ SendPacket \/ SendNoise
    PROVE  SyncInv'
  <1> DEFINE d == Len(delivered)
  <1>1. /\ storage \in Seq(Byte) /\ buffer \in Seq(Byte) /\ line \in Seq(Byte)
        /\ sent \in Seq(Packets) /\ d \in Nat /\ Stream \in Seq(Byte)
        /\ inSync \in BOOLEAN
    BY LenProperties, StreamFacts DEF ReceiveTypeOK
  <1>2. CASE DoRead
    <2>1. PICK n \in 1 .. MaxRead : /\ n <= Len(line)
                                   /\ buffer' = SubSeq(line, 1, n)
                                   /\ line' = SubSeq(line, n + 1, Len(line))
      BY <1>2 DEF DoRead
    <2>2. buffer = << >> /\ UNCHANGED <<storage, crc, delivered, sent, inSync>>
      BY <1>2 DEF DoRead, machine, history
    <2>3. n \in Nat
      BY ReceiveBoundsAssumption
    <2>4. Stream' = Stream
      <3>1. buffer' \o line' = line
        <4>1. Len(line) \in Nat
          BY <1>1, LenProperties
        <4>2. /\ 1 \in 1 .. Len(line) + 1 /\ n \in 1 - 1 .. Len(line)
              /\ Len(line) \in n .. Len(line)
          BY <2>1, <2>3, <4>1
        <4>3. SubSeq(line, 1, n) \o SubSeq(line, n + 1, Len(line))
                  = SubSeq(line, 1, Len(line))
          BY <1>1, <4>2, ConcatAdjacentSubSeq
        <4> QED
          BY <1>1, <2>1, <4>3, SubSeqFull
      <3>2. buffer \o line = line
        BY <1>1, <2>2, ConcatEmptySeq
      <3> QED
        BY <2>2, <3>1, <3>2 DEF Stream
    <2> QED
      BY <2>2, <2>4 DEF SyncInv, Delivers, Accepted
  <1>3. CASE Recover
    <2> SUFFICES ASSUME inSync'
                 PROVE  SyncInv'
      BY DEF SyncInv
    <2>1. /\ storage' = << >> /\ crc' = 0 /\ sent' = << >> /\ delivered' = << >>
          /\ buffer' = << >> /\ line' = << >>
      BY <1>3 DEF Recover, Reset
    <2>2. Stream' = << >> /\ Len(<< >>) = 0
      BY <2>1 DEF Stream
    <2>3. Delivers'
      BY <2>1 DEF Delivers
    <2>4. crc' = CalcChecksum(storage')
      BY <2>1, ChecksumOfNothing
    <2>5. Laid(<< >>, << >>, 0, [k \in 0 + 1 .. 0 |-> 0])
      BY DEF Laid
    <2>6. Laid(Stream', sent', Len(delivered'), [k \in 0 + 1 .. 0 |-> 0])
      BY <2>1, <2>2, <2>5
    <2> QED
      BY <2>1, <2>3, <2>4, <2>6 DEF SyncInv
  <1>4. ASSUME NEW q \in Seq(Byte), Send(q)
        PROVE  Stream' = Stream \o q /\ UNCHANGED <<storage, crc, delivered>>
    <2>1. line' = line \o q /\ UNCHANGED <<storage, crc, buffer, delivered>>
      BY <1>4 DEF Send, machine
    <2>2. (buffer \o line) \o q = buffer \o (line \o q)
      BY <1>1, BytesAssociate, SMTT(40)
    <2> DEFINE rest == buffer \o line
    <2>3. rest \in Seq(Byte)
      BY <1>1, BytesConcat
    <2>4. (storage \o rest) \o q = storage \o (rest \o q)
      <3> HIDE DEF rest
      <3> QED
        BY <1>1, <2>3, BytesAssociate, ZenonT(60)
    <2> QED
      BY <2>1, <2>2, <2>4 DEF Stream
  <1>5. CASE SendPacket
    <2>1. PICK p \in Packets : /\ Send(p) /\ sent' = Append(sent, p)
                              /\ inSync' = inSync
      BY <1>5 DEF SendPacket
    <2> SUFFICES ASSUME inSync
                 PROVE  SyncInv'
      BY <2>1 DEF SyncInv
    <2>2. Stream' = Stream \o p /\ UNCHANGED <<storage, crc, delivered>>
      BY <1>4, <2>1, PacketFacts
    <2>3. /\ Delivers /\ crc = CalcChecksum(storage)
          /\ \E at : /\ Laid(Stream, sent, d, at)
                     /\ storage # << >> => d < Len(sent) /\ at[d + 1] = 0
      BY DEF SyncInv
    <2>4. PICK at : /\ Laid(Stream, sent, d, at)
                    /\ storage # << >> => d < Len(sent) /\ at[d + 1] = 0
      BY <2>3
    <2>5. /\ Len(sent) \in Nat /\ Len(sent') = Len(sent) + 1
          /\ \A i \in 1 .. Len(sent) : sent'[i] = sent[i]
          /\ d <= Len(sent)
      BY <1>1, <2>1, <2>3, AppendProperties, LenProperties DEF Delivers
    <2> DEFINE new == [k \in d + 1 .. Len(sent) + 1 |->
                          IF k = Len(sent) + 1 THEN Len(Stream) ELSE at[k]]
    <2>6. Laid(Stream', sent', d, new)
      <3> HIDE DEF d
      <3> QED
        BY <1>1, <2>1, <2>2, <2>4, <2>5, LaidPacket
    <2>7. storage # << >> => d < Len(sent') /\ new[d + 1] = 0
      BY <1>1, <2>4, <2>5
    <2>8. Delivers'
      <3>1. DOMAIN delivered = 1 .. d
        BY LenProperties DEF ReceiveTypeOK
      <3>2. \A i \in 1 .. d : sent'[i] = sent[i]
        BY <1>1, <2>5
      <3>3. Len(delivered') <= Len(sent')
        BY <1>1, <2>2, <2>5
      <3> QED
        BY <2>2, <2>3, <3>1, <3>2, <3>3 DEF Delivers, Accepted
    <2> HIDE DEF new
    <2> QED
      BY <2>2, <2>3, <2>6, <2>7, <2>8 DEF SyncInv
  <1>6. CASE SendNoise
    <2>1. PICK q \in Noise :
              /\ Send(q) /\ sent' = sent
              /\ inSync' = (inSync /\ \A i \in DOMAIN q : q[i] # First)
      BY <1>6 DEF SendNoise
    <2> SUFFICES ASSUME inSync, \A i \in DOMAIN q : q[i] # First
                 PROVE  SyncInv'
      BY <2>1 DEF SyncInv
    <2>2. q \in Seq(Byte)
      BY NoiseAssumption
    <2>3. Stream' = Stream \o q /\ UNCHANGED <<storage, crc, delivered>>
      BY <1>4, <2>1, <2>2
    <2>4. PICK at : /\ Laid(Stream, sent, d, at)
                    /\ storage # << >> => d < Len(sent) /\ at[d + 1] = 0
      BY DEF SyncInv
    <2>5. Laid(Stream', sent', d, at)
      BY <1>1, <2>1, <2>2, <2>3, <2>4, LaidBefore
    <2>6. Delivers'
      BY <2>1, <2>3 DEF SyncInv, Delivers, Accepted
    <2> QED
      BY <2>1, <2>3, <2>4, <2>5, <2>6 DEF SyncInv
  <1> QED
    BY <1>2, <1>3, <1>5, <1>6

(***************************************************************************)
(* Synchronised.                                                           *)
(***************************************************************************)

\* What is stored is less than a packet.
LEMMA InvSynchronised ==
    ASSUME ReceiveTypeOK, ReceiveInv, SyncInv
    PROVE  Synchronised
  <1> SUFFICES ASSUME inSync, line = << >>, buffer = << >>
               PROVE  Len(delivered) = Len(sent)
    BY DEF SyncInv, Delivers, Synchronised
  <1> DEFINE d == Len(delivered)
             p == sent[d + 1]
  <1>1. d \in Nat /\ Len(sent) \in Nat /\ d <= Len(sent) /\ sent \in Seq(Packets)
    BY LenProperties DEF ReceiveTypeOK, SyncInv, Delivers
  <1>2. Len(Stream) = Len(storage) /\ Len(storage) \in Nat
        /\ \A i \in 1 .. Len(storage) : Stream[i] = storage[i]
    <2>1. Len(line) = 0 /\ Len(buffer) = 0
      OBVIOUS
    <2> QED
      BY <2>1, StreamFacts
  <1> SUFFICES ASSUME d < Len(sent)
               PROVE  FALSE
    BY <1>1
  <1>3. CASE storage = << >>
    <2>1. PICK at : Laid(Stream, sent, d, at)
      BY DEF SyncInv
    <2>2. d + 1 \in d + 1 .. Len(sent) /\ d + 1 \in 1 .. Len(sent)
      BY <1>1
    <2>3. p \in Packets
      BY <1>1, <2>2, ElementOfSeq
    <2>4. Len(p) \in Nat /\ Len(p) >= 11
      BY <2>3, PacketFacts
    <2>5. at[d + 1] \in Nat /\ at[d + 1] + Len(p) <= Len(Stream)
      BY <2>1, <2>2 DEF Laid
    <2>6. Len(Stream) = 0
      BY <1>2, <1>3
    <2> HIDE DEF p
    <2> QED
      BY <2>4, <2>5, <2>6
  <1>4. CASE storage # << >>
    <2>1. /\ p \in Packets /\ Len(p) <= Len(storage)
          /\ \A i \in 1 .. Len(p) : Stream[i] = p[i]
      BY <1>2, <1>4, BegunPacket
    <2>2. Len(p) \in Nat /\ Len(p) >= 11 /\ PacketLength(p) = Len(p)
      BY <2>1, PacketFacts
    <2> HIDE DEF p
    <2>3. storage[3] = p[3] /\ storage[4] = p[4] /\ Len(storage) >= 11
      BY <1>2, <2>1, <2>2
    <2>4. PacketLength(storage) = Len(p)
      BY <2>2, <2>3 DEF PacketLength
    <2>5. state \in {"Payload", "Crc"}
      BY <1>2, <1>4, <2>3
         DEF ReceiveInv, StorageTypes, States, StorageShape, HeaderSize
    <2>6. CASE state = "Payload"
      <3>1. /\ Len(storage) - 10 < bytesToReceive /\ bytesToReceive \in Nat
            /\ Len(p) = bytesToReceive + 11
        BY <2>4, <2>6 DEF ReceiveInv, StorageTypes, StorageShape, HeaderSize,
                          MinLength
      <3> QED
        BY <1>2, <2>1, <2>2, <3>1
    <2>7. CASE state = "Crc"
      <3>1. Len(p) = Len(storage) + 1
        BY <2>4, <2>7 DEF ReceiveInv, StorageShape
      <3> QED
        BY <1>2, <2>1, <2>2, <3>1
    <2> QED
      BY <2>5, <2>6, <2>7
  <1> QED
    BY <1>3, <1>4

\* Every packet is delivered once, in order, with the right checksum, however
\* read() cuts the bytes and whatever harmless bytes are in between, from the
\* beginning and again after every Recover with an empty line.
THEOREM StaysSynchronised == Spec => []Synchronised
  <1>1. Init => SyncInv
    <2> SUFFICES ASSUME Init
                 PROVE  SyncInv
      OBVIOUS
    <2>1. /\ storage = << >> /\ crc = 0 /\ sent = << >> /\ delivered = << >>
          /\ buffer = << >> /\ line = << >>
      BY DEF Init
    <2>2. Stream = << >> /\ Len(<< >>) = 0
      BY <2>1 DEF Stream
    <2>3. Delivers
      BY <2>1 DEF Delivers
    <2>4. crc = CalcChecksum(storage)
      BY <2>1, ChecksumOfNothing
    <2>5. Laid(<< >>, << >>, 0, [k \in 0 + 1 .. 0 |-> 0])
      BY DEF Laid
    <2>6. Laid(Stream, sent, Len(delivered), [k \in 0 + 1 .. 0 |-> 0])
      BY <2>1, <2>2, <2>5
    <2> QED
      BY <2>1, <2>3, <2>4, <2>6 DEF SyncInv
  <1>2. ReceiveTypeOK /\ ReceiveInv /\ SyncInv /\ [Next]_vars => SyncInv'
    <2> SUFFICES ASSUME ReceiveTypeOK, ReceiveInv, SyncInv, [Next]_vars
                 PROVE  SyncInv'
      OBVIOUS
    <2>1. CASE HandleBytes
      <3>1. CASE HeaderPart \/ HeaderDone \/ Payload
        BY <3>1, SyncCopy DEF HeaderPart, HeaderDone, Payload
      <3> QED
        BY <2>1, <3>1, SyncFound, SyncSkipped, SyncMissing, SyncRefused, SyncCrc
           DEF HandleBytes
    <2>2. CASE DoRead \/ Recover \/ SendPacket \/ SendNoise
      BY <2>2, SyncOutside
    <2>3. CASE UNCHANGED vars
      <3>1. Stream' = Stream
        BY <2>3 DEF vars, Stream
      <3> QED
        BY <2>3, <3>1 DEF vars, SyncInv, Delivers, Accepted
    <2> QED
      BY <2>1, <2>2, <2>3 DEF Next
  <1>3. ReceiveTypeOK /\ ReceiveInv /\ SyncInv => Synchronised
    BY InvSynchronised
  <1> QED
    BY <1>1, <1>2, <1>3, ReceiveInductive, ReceiveTypes, PTL DEF Spec
=============================================================================
