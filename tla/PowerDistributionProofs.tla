----------------------- MODULE PowerDistributionProofs -----------------------
(***************************************************************************)
(* Proofs about PowerDistribution, for all frames and any number of them:  *)
(* the masks and ranges of the code pick exactly the classic frames with a *)
(* status identifier of the two manufacturers, remote frames included,     *)
(* each topic holds the last frame of its own kind, and the service runs   *)
(* with all its buses.                                                     *)
(***************************************************************************)
EXTENDS PowerDistribution, TLAPS

\* The arithmetic on the number gives back the fields it was made of.
LEMMA Fields ==
    ASSUME NEW f \in AllFrames
    PROVE  /\ CanId(f) \in Nat
           /\ CanId(f) \div 16777216 = f.fields.type
           /\ CanId(f) \div 65536 = f.fields.type * 256 + f.fields.manufacturer
           /\ ApiId(f) = f.fields.api
           /\ CanId(f) % 64 = f.fields.device
<1> DEFINE t == f.fields.type
           m == f.fields.manufacturer
           a == f.fields.api
           d == f.fields.device
<1>1. t \in 0 .. 31 /\ m \in 0 .. 255 /\ a \in 0 .. 1023 /\ d \in 0 .. 63
  BY DEF AllFrames, Ids
<1>2. CanId(f) = t * 16777216 + m * 65536 + a * 64 + d
  BY DEF CanId
<1> HIDE DEF t, m, a, d
<1>3. CanId(f) \in Nat
  BY <1>1, <1>2
<1>4. CanId(f) \div 16777216 = t
  BY <1>1, <1>2
<1>5. CanId(f) \div 65536 = t * 256 + m
  BY <1>1, <1>2
<1>6. CanId(f) \div 64 = t * 262144 + m * 1024 + a
  BY <1>1, <1>2
<1>7. (CanId(f) \div 64) % 1024 = a
  BY <1>1, <1>6
<1>8. CanId(f) % 64 = d
  BY <1>1, <1>2
<1> QED
  BY <1>3, <1>4, <1>5, <1>7, <1>8 DEF ApiId, t, m, a, d

\* The mask of the device id cuts the API out of the identifier.
LEMMA DeviceIdKept ==
    ASSUME NEW f \in AllFrames
    PROVE  /\ DeviceId(f) \in Int
           /\ DeviceId(f) = CanId([f EXCEPT !.fields.api = 0])
<1> DEFINE c == CanId(f)
           g == [f EXCEPT !.fields.api = 0]
           t == f.fields.type
           m == f.fields.manufacturer
           d == f.fields.device
<1>1. t \in 0 .. 31 /\ m \in 0 .. 255 /\ d \in 0 .. 63
  BY DEF AllFrames, Ids
<1>2. c \div 65536 = t * 256 + m /\ c % 64 = d
  BY Fields
<1>3. /\ g.fields.type = t /\ g.fields.manufacturer = m /\ g.fields.api = 0
      /\ g.fields.device = d
  BY DEF AllFrames, Ids
<1>4. CanId(g) = t * 16777216 + m * 65536 + 0 * 64 + d
  BY <1>3 DEF CanId
<1>5. DeviceId(f) = (t * 256 + m) * 65536 + d
  BY <1>2 DEF DeviceId
<1> HIDE DEF c, g, t, m, d
<1>6. DeviceId(f) \in Int /\ DeviceId(f) = CanId(g)
  BY <1>1, <1>4, <1>5
<1> QED BY <1>6 DEF g

\* What the kernel's filter, handleCanFrame and handlePowerFrame let through
\* together are the frames with a status identifier, and each gets the topic of
\* its kind.  AllFrames has every combination of the flags: a remote frame with
\* such an identifier is picked, too.
THEOREM StatusFramesPicked ==
    ASSUME NEW f \in AllFrames
    PROVE  /\ StatusSlot(f) \in Slots <=> Filter(f) /\ Handled(f) /\ IsValid(f)
           /\ StatusSlot(f) \in Slots => FrameNum(f) = StatusSlot(f)
<1> DEFINE t == f.fields.type
           m == f.fields.manufacturer
           a == f.fields.api
<1>1. t \in 0 .. 31 /\ m \in 0 .. 255 /\ a \in 0 .. 1023
  BY DEF AllFrames, Ids
<1>2. CanId(f) \in Nat /\ CanId(f) \div 65536 = t * 256 + m
  BY Fields
<1>3. CanId(f) \div 131072 = 1026 <=> t = 8 /\ m \in {4, 5}
  <2> HIDE DEF t, m
  <2> QED BY <1>1, <1>2
<1>4. IsRev(f) <=> m % 2 = 1
  <2> HIDE DEF t, m
  <2> QED BY <1>1, <1>2 DEF IsRev
<1>5. ApiId(f) = a
  BY Fields
<1>6. Handled(f) <=> f.size = "CAN_MTU" /\ ~f.err /\ t = 8
  BY Fields DEF Handled, IsPowerDistribution
<1>7. Filter(f) <=> f.eff /\ t = 8 /\ m \in {4, 5}
  BY <1>3 DEF Filter
<1>8. ASSUME f.eff, ~f.err, f.size = "CAN_MTU", t = 8, m \in {4, 5}
      PROVE  /\ StatusSlot(f) \in Slots <=> IsValid(f)
             /\ StatusSlot(f) \in Slots => FrameNum(f) = StatusSlot(f)
  <2>1. CASE m = 5
    <3>1. IsRev(f)
      BY <1>4, <2>1
    <3> QED BY <1>1, <1>5, <1>8, <2>1, <3>1 DEF StatusSlot, IsValid, FrameNum, Slots
  <2>2. CASE m = 4
    <3>1. ~IsRev(f)
      BY <1>4, <2>2
    <3> QED BY <1>1, <1>5, <1>8, <2>2, <3>1 DEF StatusSlot, IsValid, FrameNum, Slots
  <2> QED BY <1>8, <2>1, <2>2
<1>9. ASSUME ~(f.eff /\ ~f.err /\ f.size = "CAN_MTU" /\ t = 8 /\ m \in {4, 5})
      PROVE  StatusSlot(f) = -1
  BY <1>9 DEF StatusSlot
<1>10. -1 \notin Slots
  BY DEF Slots
<1> QED BY <1>6, <1>7, <1>8, <1>9, <1>10

(***************************************************************************)
(* The inductive invariant.                                                *)
(***************************************************************************)

\* The socket's queue holds filtered frames only.
QueueFiltered ==
    \A b \in CanBuses : \A i \in 1 .. Len(queue[b]) : Filter(queue[b][i])

\* Buses are started in their order.
BusOrder ==
    /\ socket[1] # "none" => socket[0] = "polled"
    /\ phase = "down" => socket[0] = "none" /\ socket[1] = "none"
    /\ ServesAllBuses

PdInv == PdTypeOK /\ QueueFiltered /\ BusOrder /\ SlotsHoldTheirKind

\* Nothing is bound, queued or published before the service starts.
LEMMA PdInit == Init => PdInv
  BY PdBounds DEF Init, PdInv, PdTypeOK, QueueFiltered, BusOrder, ServesAllBuses,
     SlotsHoldTheirKind, CanBuses, Slots

\* Every step of the service and every frame on a bus keeps the invariant.
LEMMA PdNext == PdInv /\ [Next]_vars => PdInv'
<1> SUFFICES ASSUME PdInv, [Next]_vars PROVE PdInv'
  OBVIOUS
<1> USE PdBounds DEF PdInv
<1>1. CASE UNCHANGED vars
  BY <1>1 DEF vars, PdTypeOK, QueueFiltered, BusOrder, ServesAllBuses,
     SlotsHoldTheirKind
<1>2. CASE ServiceStarts
  BY <1>2 DEF ServiceStarts, NewTopics, PdTypeOK, QueueFiltered, BusOrder,
     ServesAllBuses, SlotsHoldTheirKind, CanBuses, Slots
<1>3. CASE ServiceEnds
  BY <1>3 DEF ServiceEnds, PdTypeOK, QueueFiltered, BusOrder, ServesAllBuses,
     SlotsHoldTheirKind, CanBuses
<1>4. ASSUME NEW b \in CanBuses, BindSocket(b) PROVE PdInv'
  BY <1>4 DEF BindSocket, NextBus, PdTypeOK, QueueFiltered, BusOrder,
     ServesAllBuses, SlotsHoldTheirKind, CanBuses
<1>5. ASSUME NEW b \in CanBuses, CreatePoll(b) PROVE PdInv'
  BY <1>5 DEF CreatePoll, PdTypeOK, QueueFiltered, BusOrder, ServesAllBuses,
     SlotsHoldTheirKind, CanBuses
<1>6. ASSUME NEW b \in CanBuses, PollReadable(b) PROVE PdInv'
  <2> DEFINE f == Head(queue[b])
  <2>1. queue[b] \in Seq(AllFrames) /\ queue[b] # << >>
    BY <1>6 DEF PollReadable, PdTypeOK
  <2>2. f \in AllFrames /\ f = queue[b][1] /\ Tail(queue[b]) \in Seq(AllFrames)
    BY <2>1
  <2>3. Filter(f)
    BY <2>1, <2>2 DEF QueueFiltered
  <2>4. \A i \in 1 .. Len(Tail(queue[b])) : Filter(Tail(queue[b])[i])
    <3> SUFFICES ASSUME NEW i \in 1 .. Len(Tail(queue[b]))
                 PROVE  Filter(Tail(queue[b])[i])
      OBVIOUS
    <3>1. i + 1 \in 1 .. Len(queue[b]) /\ Tail(queue[b])[i] = queue[b][i + 1]
      BY <2>1
    <3> QED BY <3>1 DEF QueueFiltered
  <2>5. queue' = [queue EXCEPT ![b] = Tail(queue[b])]
    BY <1>6 DEF PollReadable
  <2>6. QueueFiltered'
    BY <2>4, <2>5 DEF QueueFiltered, PdTypeOK
  <2>7. BusOrder'
    BY <1>6 DEF PollReadable, BusOrder, ServesAllBuses
  <2>8. CASE Handled(f) /\ IsValid(f)
    <3>1. FrameNum(f) \in Slots /\ StatusSlot(f) = FrameNum(f)
      BY <2>2, <2>3, <2>8, StatusFramesPicked
    <3>2. frame' = [frame EXCEPT ![b][FrameNum(f)] = <<f>>]
      BY <1>6, <2>8, <3>1 DEF PollReadable
    <3>3. deviceId' = [deviceId EXCEPT ![b] = {DeviceId(f)}] /\ DeviceId(f) \in Int
      <4>1. deviceId' = [deviceId EXCEPT ![b] = {DeviceId(f)}]
        BY <1>6, <2>8 DEF PollReadable
      <4>2. DeviceId(f) \in Int
        BY <2>2, DeviceIdKept
      <4> QED BY <4>1, <4>2
    <3>4. <<f>> \in Seq(AllFrames) /\ <<f>>[1] = f
      BY <2>2
    <3>5. PdTypeOK'
      BY <1>6, <2>2, <2>5, <3>1, <3>2, <3>3, <3>4 DEF PollReadable, PdTypeOK
    <3>6. SlotsHoldTheirKind'
      BY <3>1, <3>2, <3>4 DEF SlotsHoldTheirKind, PdTypeOK
    <3> QED BY <2>6, <2>7, <3>5, <3>6
  <2>9. CASE ~(Handled(f) /\ IsValid(f))
    <3>1. UNCHANGED <<frame, deviceId>>
      BY <1>6, <2>9 DEF PollReadable
    <3>2. PdTypeOK'
      BY <1>6, <2>2, <2>5, <3>1 DEF PollReadable, PdTypeOK
    <3> QED BY <2>6, <2>7, <3>1, <3>2 DEF SlotsHoldTheirKind
  <2> QED BY <2>8, <2>9
<1>7. ASSUME NEW b \in CanBuses, NEW f \in Frames, Transmit(b, f) PROVE PdInv'
  <2>1. f \in AllFrames
    BY FramesAssumption
  <2>2. /\ wire' = [wire EXCEPT ![b] = Append(wire[b], f)]
        /\ queue' = [queue EXCEPT ![b] = IF Filter(f) THEN Append(queue[b], f)
                                                      ELSE queue[b]]
    BY <1>7 DEF Transmit
  <2>3. PdTypeOK'
    BY <1>7, <2>1, <2>2 DEF Transmit, PdTypeOK
  <2>4. QueueFiltered'
    <3>1. ASSUME Filter(f)
          PROVE  \A i \in 1 .. Len(Append(queue[b], f)) : Filter(Append(queue[b], f)[i])
      BY <2>1, <3>1 DEF QueueFiltered, PdTypeOK
    <3> QED BY <2>2, <3>1 DEF QueueFiltered, PdTypeOK
  <2>5. BusOrder' /\ SlotsHoldTheirKind'
    BY <1>7 DEF Transmit, BusOrder, ServesAllBuses, SlotsHoldTheirKind
  <2> QED BY <2>3, <2>4, <2>5
<1> QED
  BY <1>1, <1>2, <1>3, <1>4, <1>5, <1>6, <1>7 DEF Next

\* Type correctness, for every set of frames and every bound.
THEOREM PdTypeCorrect == Spec => []PdTypeOK
<1>1. PdInv => PdTypeOK
  BY DEF PdInv
<1> QED BY PdInit, PdNext, <1>1, PTL DEF Spec

\* Each frame topic holds frames with a status identifier of its own kind only,
\* whatever the flags, sizes and identifiers of the frames on the bus.
THEOREM SlotsSorted == Spec => []SlotsHoldTheirKind
<1>1. PdInv => SlotsHoldTheirKind
  BY DEF PdInv
<1> QED BY PdInit, PdNext, <1>1, PTL DEF Spec

\* The "BUGBUG logic error" of handlePowerFrame cannot happen.
THEOREM LogicErrorUnreachable == Spec => []NoLogicError
<1>1. PdInv => NoLogicError
  <2> SUFFICES ASSUME PdInv, NEW b \in CanBuses, NEW i \in 1 .. MaxFrames,
                      i \in DOMAIN queue[b], Handled(queue[b][i]),
                      IsValid(queue[b][i])
               PROVE  FrameNum(queue[b][i]) \in Slots
    BY DEF NoLogicError
  <2>1. queue[b] \in Seq(AllFrames)
    BY DEF PdInv, PdTypeOK
  <2>2. i \in 1 .. Len(queue[b]) /\ queue[b][i] \in AllFrames
    BY <2>1
  <2>3. Filter(queue[b][i])
    BY <2>2 DEF PdInv, QueueFiltered
  <2> QED BY <2>2, <2>3, StatusFramesPicked
<1> QED BY PdInit, PdNext, <1>1, PTL DEF Spec

\* A running service serves both buses, whatever failed before.
THEOREM AllBusesServed == Spec => []ServesAllBuses
<1>1. PdInv => ServesAllBuses
  BY DEF PdInv, BusOrder
<1> QED BY PdInit, PdNext, <1>1, PTL DEF Spec

(***************************************************************************)
(* The frames of a bus that were read are its first n, apart from the ones *)
(* the filter holds back; the queue holds the others.                      *)
(***************************************************************************)

\* x holds the last of the first n frames that belong to one of some topics.
IsLast(w, n, slots, x) ==
    \/ x = << >> /\ \A i \in 1 .. n : StatusSlot(w[i]) \notin slots
    \/ \E i \in 1 .. n :
           /\ x = <<w[i]>> /\ StatusSlot(w[i]) \in slots
           /\ \A j \in i + 1 .. n : StatusSlot(w[j]) \notin slots

\* p gives the places on the wire of the frames in the queue.
Unread(w, q, n, p) ==
    /\ p \in [1 .. Len(q) -> n + 1 .. Len(w)]
    /\ \A i, j \in 1 .. Len(q) : i < j => p[i] < p[j]
    /\ \A i \in 1 .. Len(q) : q[i] = w[p[i]]
    /\ \A j \in n + 1 .. Len(w) :
           Filter(w[j]) => \E i \in 1 .. Len(q) : p[i] = j

\* The topics of a bus show what its first n frames left there.
Shown(w, n, fr, dev) ==
    /\ \A k \in Slots : IsLast(w, n, {k}, fr[k])
    /\ \/ dev = {} /\ IsLast(w, n, Slots, << >>)
       \/ \E i \in 1 .. n : /\ IsLast(w, n, Slots, <<w[i]>>)
                            /\ dev = {DeviceId(w[i])}

BusRead(w, q, fr, dev) ==
    \E n \in 0 .. Len(w) :
        /\ Shown(w, n, fr, dev)
        /\ \E p \in [1 .. Len(q) -> n + 1 .. Len(w)] : Unread(w, q, n, p)

ReadInOrder ==
    \A b \in CanBuses : BusRead(wire[b], queue[b], frame[b], deviceId[b])

\* Frames that come later change nothing for the first n.
LEMMA LastOfPrefix ==
    ASSUME NEW w, NEW v, NEW n \in Nat, NEW slots, NEW x,
           \A i \in 1 .. n : v[i] = w[i], IsLast(w, n, slots, x)
    PROVE  IsLast(v, n, slots, x)
<1>1. CASE x = << >> /\ \A i \in 1 .. n : StatusSlot(w[i]) \notin slots
  BY <1>1 DEF IsLast
<1>2. ASSUME NEW i \in 1 .. n, x = <<w[i]>>, StatusSlot(w[i]) \in slots,
             \A j \in i + 1 .. n : StatusSlot(w[j]) \notin slots
      PROVE  IsLast(v, n, slots, x)
  <2>1. v[i] = w[i] /\ \A j \in i + 1 .. n : v[j] = w[j]
    BY <1>2
  <2>2. /\ x = <<v[i]>> /\ StatusSlot(v[i]) \in slots
        /\ \A j \in i + 1 .. n : StatusSlot(v[j]) \notin slots
    BY <1>2, <2>1
  <2> QED BY <2>2 DEF IsLast
<1> QED BY <1>1, <1>2 DEF IsLast

\* Frames that belong to none of the topics change nothing, too.
LEMMA LastOfLonger ==
    ASSUME NEW w, NEW n \in Nat, NEW m \in Nat, n <= m, NEW slots, NEW x,
           \A j \in n + 1 .. m : StatusSlot(w[j]) \notin slots,
           IsLast(w, n, slots, x)
    PROVE  IsLast(w, m, slots, x)
<1>0. \A i \in 1 .. m : i \in 1 .. n \/ i \in n + 1 .. m
  OBVIOUS
<1>1. CASE x = << >> /\ \A i \in 1 .. n : StatusSlot(w[i]) \notin slots
  BY <1>0, <1>1 DEF IsLast
<1>2. ASSUME NEW i \in 1 .. n, x = <<w[i]>>, StatusSlot(w[i]) \in slots,
             \A j \in i + 1 .. n : StatusSlot(w[j]) \notin slots
      PROVE  IsLast(w, m, slots, x)
  <2>1. i \in 1 .. m
    OBVIOUS
  <2>2. \A j \in i + 1 .. m : j \in i + 1 .. n \/ j \in n + 1 .. m
    OBVIOUS
  <2> QED BY <1>2, <2>1, <2>2 DEF IsLast
<1> QED BY <1>1, <1>2 DEF IsLast

\* A frame of the topics is the last of them when it comes.
LEMMA LastIsNew ==
    ASSUME NEW w, NEW m \in Nat \ {0}, NEW slots, StatusSlot(w[m]) \in slots
    PROVE  IsLast(w, m, slots, <<w[m]>>)
<1>1. m \in 1 .. m /\ \A j \in m + 1 .. m : FALSE
  OBVIOUS
<1> QED BY <1>1 DEF IsLast

\* A frame on the bus goes to the end of the queue or not at all.
LEMMA FrameQueued ==
    ASSUME NEW w \in Seq(AllFrames), NEW q \in Seq(AllFrames),
           NEW f \in AllFrames, NEW fr, NEW dev, BusRead(w, q, fr, dev)
    PROVE  BusRead(Append(w, f), IF Filter(f) THEN Append(q, f) ELSE q, fr, dev)
<1> DEFINE v == Append(w, f)
           r == IF Filter(f) THEN Append(q, f) ELSE q
           L == Len(w)
           M == Len(q)
<1>1. PICK n \in 0 .. Len(w) :
          /\ Shown(w, n, fr, dev)
          /\ \E p \in [1 .. Len(q) -> n + 1 .. Len(w)] : Unread(w, q, n, p)
  BY DEF BusRead
<1>2. PICK p \in [1 .. Len(q) -> n + 1 .. Len(w)] : Unread(w, q, n, p)
  BY <1>1
<1>3. /\ L \in Nat /\ Len(v) = L + 1 /\ v[L + 1] = f
      /\ \A i \in 1 .. L : v[i] = w[i]
  OBVIOUS
<1>4. M \in Nat /\ (Filter(f) => /\ Len(r) = M + 1 /\ r[M + 1] = f
                                 /\ \A i \in 1 .. M : r[i] = q[i])
  OBVIOUS
<1>5. ~Filter(f) => r = q
  OBVIOUS
<1>6. n \in 0 .. L /\ Unread(w, q, n, p) /\ Len(w) = L /\ Len(q) = M
  BY <1>2
<1> HIDE DEF v, r, L, M
<1>7. Shown(v, n, fr, dev)
  <2>1. n \in Nat /\ \A i \in 1 .. n : v[i] = w[i]
    BY <1>3, <1>6
  <2>2. \A k \in Slots : IsLast(v, n, {k}, fr[k])
    BY <1>1, <2>1, LastOfPrefix DEF Shown
  <2>3. CASE dev = {} /\ IsLast(w, n, Slots, << >>)
    BY <2>1, <2>2, <2>3, LastOfPrefix DEF Shown
  <2>4. ASSUME NEW i \in 1 .. n, IsLast(w, n, Slots, <<w[i]>>),
               dev = {DeviceId(w[i])}
        PROVE  Shown(v, n, fr, dev)
    <3>1. v[i] = w[i] /\ IsLast(v, n, Slots, <<w[i]>>)
      BY <2>1, <2>4, LastOfPrefix
    <3> QED BY <2>2, <2>4, <3>1 DEF Shown
  <2> QED BY <1>1, <2>3, <2>4 DEF Shown
<1>8. CASE ~Filter(f)
  <2>1. /\ p \in [1 .. M -> n + 1 .. L + 1]
        /\ \A i, j \in 1 .. M : i < j => p[i] < p[j]
        /\ \A i \in 1 .. M : q[i] = v[p[i]]
        /\ \A j \in n + 1 .. L + 1 : Filter(v[j]) => \E i \in 1 .. M : p[i] = j
    <3>1. \A i \in 1 .. M : p[i] \in n + 1 .. L /\ q[i] = w[p[i]]
      BY <1>6 DEF Unread
    <3>2. \A j \in n + 1 .. L + 1 : j = L + 1 \/ j \in n + 1 .. L
      BY <1>3, <1>6
    <3>3. \A j \in n + 1 .. L : j \in 1 .. L /\ j \in n + 1 .. L + 1
      BY <1>3, <1>6
    <3>4. p \in [1 .. M -> n + 1 .. L + 1]
      BY <1>2, <1>6, <3>1, <3>3
    <3>5. \A i \in 1 .. M : q[i] = v[p[i]]
      BY <1>3, <3>1, <3>3
    <3>6. \A j \in n + 1 .. L + 1 : Filter(v[j]) => \E i \in 1 .. M : p[i] = j
      BY <1>3, <1>6, <1>8, <3>2, <3>3 DEF Unread
    <3> QED BY <1>6, <3>4, <3>5, <3>6 DEF Unread
  <2>2. Unread(v, q, n, p) /\ p \in [1 .. Len(q) -> n + 1 .. Len(v)]
    BY <1>3, <1>6, <2>1 DEF Unread
  <2>3. n \in 0 .. Len(v)
    BY <1>3, <1>6
  <2>4. BusRead(v, q, fr, dev)
    BY <1>7, <2>2, <2>3 DEF BusRead
  <2> QED BY <1>5, <1>8, <2>4 DEF v, r
<1>9. CASE Filter(f)
  <2> DEFINE s == [i \in 1 .. M + 1 |-> IF i = M + 1 THEN L + 1 ELSE p[i]]
  <2>1. \A i \in 1 .. M : p[i] \in n + 1 .. L /\ q[i] = w[p[i]]
    BY <1>6 DEF Unread
  <2>2. \A j \in n + 1 .. L + 1 : j = L + 1 \/ j \in n + 1 .. L
    BY <1>3, <1>6
  <2>3. \A j \in n + 1 .. L : j \in 1 .. L /\ j \in n + 1 .. L + 1 /\ j < L + 1
    BY <1>3, <1>6
  <2>4. L + 1 \in n + 1 .. L + 1 /\ M + 1 \in 1 .. M + 1
    BY <1>3, <1>4, <1>6
  <2>5. \A i \in 1 .. M + 1 : i = M + 1 \/ i \in 1 .. M
    BY <1>4
  <2>6. s[M + 1] = L + 1
        /\ \A i \in 1 .. M : s[i] = p[i] /\ i \in 1 .. M + 1 /\ i < M + 1
    BY <1>4, <2>4
  <2>7. s \in [1 .. M + 1 -> n + 1 .. L + 1]
    BY <2>1, <2>3, <2>4, <2>5, <2>6
  <2> HIDE DEF s
  <2>8. \A i, j \in 1 .. M + 1 : i < j => s[i] < s[j]
    <3> SUFFICES ASSUME NEW i \in 1 .. M + 1, NEW j \in 1 .. M + 1, i < j
                 PROVE  s[i] < s[j]
      OBVIOUS
    <3>1. i \in 1 .. M
      BY <1>4
    <3>2. CASE j = M + 1
      BY <2>1, <2>3, <2>6, <3>1, <3>2
    <3>3. CASE j \in 1 .. M
      BY <1>6, <2>6, <3>1, <3>3 DEF Unread
    <3> QED BY <2>5, <3>2, <3>3
  <2>9. \A i \in 1 .. M + 1 : r[i] = v[s[i]]
    BY <1>3, <1>4, <1>9, <2>1, <2>3, <2>5, <2>6, ZenonT(60)
  <2>10. \A j \in n + 1 .. L + 1 :
             Filter(v[j]) => \E i \in 1 .. M + 1 : s[i] = j
    <3> SUFFICES ASSUME NEW j \in n + 1 .. L + 1, Filter(v[j])
                 PROVE  \E i \in 1 .. M + 1 : s[i] = j
      OBVIOUS
    <3>1. CASE j = L + 1
      BY <2>4, <2>6, <3>1
    <3>2. CASE j \in n + 1 .. L
      <4>1. PICK i \in 1 .. M : p[i] = j
        BY <1>3, <1>6, <2>3, <3>2 DEF Unread
      <4> QED BY <2>6, <4>1
    <3> QED BY <2>2, <3>1, <3>2
  <2>11. Unread(v, r, n, s) /\ s \in [1 .. Len(r) -> n + 1 .. Len(v)]
    BY <1>3, <1>4, <1>9, <2>7, <2>8, <2>9, <2>10 DEF Unread
  <2>12. n \in 0 .. Len(v)
    BY <1>3, <1>6
  <2>13. BusRead(v, r, fr, dev)
    BY <1>7, <2>11, <2>12 DEF BusRead
  <2> QED BY <2>13 DEF v, r
<1> QED BY <1>8, <1>9

\* The next frame in the queue is the next one that can be a status frame.
LEMMA FrameRead ==
    ASSUME NEW w \in Seq(AllFrames), NEW q \in Seq(AllFrames), q # << >>,
           NEW fr \in [Slots -> Seq(AllFrames)], NEW dev, NEW gr, NEW gdev,
           Filter(Head(q)), BusRead(w, q, fr, dev),
           IF Handled(Head(q)) /\ IsValid(Head(q))
           THEN /\ gdev = {DeviceId(Head(q))}
                /\ gr = IF FrameNum(Head(q)) \in Slots
                        THEN [fr EXCEPT ![FrameNum(Head(q))] = <<Head(q)>>]
                        ELSE fr
           ELSE gr = fr /\ gdev = dev
    PROVE  BusRead(w, Tail(q), gr, gdev)
<1> DEFINE f == Head(q)
           r == Tail(q)
           L == Len(w)
           M == Len(r)
<1>1. PICK n \in 0 .. Len(w) :
          /\ Shown(w, n, fr, dev)
          /\ \E p \in [1 .. Len(q) -> n + 1 .. Len(w)] : Unread(w, q, n, p)
  BY DEF BusRead
<1>2. PICK p \in [1 .. Len(q) -> n + 1 .. Len(w)] : Unread(w, q, n, p)
  BY <1>1
<1>3. /\ L \in Nat /\ M \in Nat /\ Len(q) = M + 1 /\ f = q[1]
      /\ \A i \in 1 .. M : r[i] = q[i + 1]
      /\ \A i \in 1 .. L : w[i] \in AllFrames
  OBVIOUS
<1>4. n \in 0 .. L /\ Unread(w, q, n, p) /\ Len(w) = L /\ Len(r) = M
  BY <1>2
<1> DEFINE m == p[1]
<1>5. Filter(f)
  OBVIOUS
<1>6. IF Handled(f) /\ IsValid(f)
      THEN /\ gdev = {DeviceId(f)}
           /\ gr = IF FrameNum(f) \in Slots
                   THEN [fr EXCEPT ![FrameNum(f)] = <<f>>] ELSE fr
      ELSE gr = fr /\ gdev = dev
  OBVIOUS
<1> HIDE DEF f, r, L, M
<1>7. 1 \in 1 .. M + 1 /\ \A i \in 1 .. M : i + 1 \in 1 .. M + 1 /\ 1 < i + 1
  BY <1>3
<1>8. m \in n + 1 .. L /\ f = w[m]
  BY <1>3, <1>4, <1>7 DEF Unread
<1>9. \A j \in n + 1 .. L : j < m => ~Filter(w[j])
  <2> SUFFICES ASSUME NEW j \in n + 1 .. L, j < m, Filter(w[j]) PROVE FALSE
    OBVIOUS
  <2>1. PICK i \in 1 .. M + 1 : p[i] = j
    BY <1>3, <1>4 DEF Unread
  <2>2. i = 1 \/ 1 < i
    BY <1>3
  <2>3. i = 1 \/ m < p[i]
    BY <1>3, <1>4, <1>7, <2>1, <2>2 DEF Unread
  <2> QED BY <1>8, <2>1, <2>3
<1> HIDE DEF m
<1>10. /\ m \in Nat \ {0} /\ n \in Nat /\ m - 1 \in Nat /\ n <= m - 1
       /\ n <= m /\ m \in 1 .. L /\ m \in 1 .. m
  BY <1>3, <1>4, <1>8
<1>11. \A j \in n + 1 .. m - 1 : StatusSlot(w[j]) \notin Slots
  <2> TAKE j \in n + 1 .. m - 1
  <2>1. j \in n + 1 .. L /\ j < m /\ j \in 1 .. L
    BY <1>3, <1>4, <1>8
  <2> QED BY <1>3, <1>9, <2>1, StatusFramesPicked
<1>12. \A j \in n + 1 .. m : j = m \/ j \in n + 1 .. m - 1
  BY <1>10
<1>13. f \in AllFrames
  BY <1>3, <1>8, <1>10
<1>14. Shown(w, m, gr, gdev)
  <2>1. CASE StatusSlot(f) \notin Slots
    <3>1. gr = fr /\ gdev = dev
      BY <1>5, <1>6, <1>13, <2>1, StatusFramesPicked
    <3>2. \A j \in n + 1 .. m : StatusSlot(w[j]) \notin Slots
      BY <1>8, <1>11, <1>12, <2>1
    <3>3. \A k \in Slots : IsLast(w, m, {k}, gr[k])
      <4> TAKE k \in Slots
      <4>1. \A j \in n + 1 .. m : StatusSlot(w[j]) \notin {k}
        BY <3>2
      <4>2. IsLast(w, n, {k}, gr[k])
        BY <1>1, <3>1 DEF Shown
      <4> QED BY <1>10, <4>1, <4>2, LastOfLonger
    <3>4. CASE dev = {} /\ IsLast(w, n, Slots, << >>)
      BY <1>10, <3>1, <3>2, <3>3, <3>4, LastOfLonger DEF Shown
    <3>5. ASSUME NEW i \in 1 .. n, IsLast(w, n, Slots, <<w[i]>>),
                 dev = {DeviceId(w[i])}
          PROVE  Shown(w, m, gr, gdev)
      <4>1. i \in 1 .. m
        BY <1>10
      <4>2. IsLast(w, m, Slots, <<w[i]>>)
        BY <1>10, <3>2, <3>5, LastOfLonger
      <4> QED BY <3>1, <3>3, <3>5, <4>1, <4>2 DEF Shown
    <3> QED BY <1>1, <3>4, <3>5 DEF Shown
  <2>2. CASE StatusSlot(f) \in Slots
    <3> DEFINE c == FrameNum(f)
    <3>1. c \in Slots /\ StatusSlot(f) = c /\ Handled(f) /\ IsValid(f)
      BY <1>13, <2>2, StatusFramesPicked
    <3>2. gdev = {DeviceId(f)} /\ gr = [fr EXCEPT ![c] = <<f>>]
      BY <1>6, <3>1
    <3> HIDE DEF c
    <3>3. gr[c] = <<f>> /\ \A k \in Slots : k # c => gr[k] = fr[k]
      BY <3>1, <3>2
    <3>4. IsLast(w, m, {c}, gr[c])
      BY <1>8, <1>10, <3>1, <3>3, LastIsNew
    <3>5. ASSUME NEW k \in Slots, k # c PROVE IsLast(w, m, {k}, gr[k])
      <4>1. \A j \in n + 1 .. m : StatusSlot(w[j]) \notin {k}
        BY <1>8, <1>11, <1>12, <3>1, <3>5
      <4>2. IsLast(w, n, {k}, gr[k])
        BY <1>1, <3>3, <3>5 DEF Shown
      <4> QED BY <1>10, <4>1, <4>2, LastOfLonger
    <3>6. IsLast(w, m, Slots, <<w[m]>>) /\ gdev = {DeviceId(w[m])}
      BY <1>8, <1>10, <2>2, <3>2, LastIsNew
    <3> QED BY <1>10, <3>4, <3>5, <3>6 DEF Shown
  <2> QED BY <2>1, <2>2
<1>15. \E s \in [1 .. Len(r) -> m + 1 .. Len(w)] : Unread(w, r, m, s)
  <2> DEFINE s == [i \in 1 .. M |-> p[i + 1]]
  <2>1. \A i \in 1 .. M : /\ p[i + 1] \in n + 1 .. L /\ m < p[i + 1]
                          /\ r[i] = w[p[i + 1]]
    BY <1>3, <1>4, <1>7 DEF Unread, m
  <2>2. s \in [1 .. M -> m + 1 .. L]
    <3>1. ASSUME NEW i \in 1 .. M PROVE p[i + 1] \in m + 1 .. L
      <4> DEFINE e == p[i + 1]
      <4>1. e \in n + 1 .. L /\ m < e
        BY <2>1
      <4> HIDE DEF e
      <4>2. e \in m + 1 .. L
        BY <1>3, <1>10, <4>1
      <4> QED BY <4>2 DEF e
    <3> QED BY <3>1
  <2>3. \A i, j \in 1 .. M : i < j => s[i] < s[j]
    <3> SUFFICES ASSUME NEW i \in 1 .. M, NEW j \in 1 .. M, i < j
                 PROVE  p[i + 1] < p[j + 1]
      OBVIOUS
    <3>1. i + 1 < j + 1
      BY <1>3
    <3> QED BY <1>3, <1>4, <1>7, <3>1 DEF Unread
  <2>4. \A i \in 1 .. M : r[i] = w[s[i]]
    BY <2>1
  <2>5. ASSUME NEW j \in m + 1 .. L, Filter(w[j])
        PROVE  \E i \in 1 .. M : s[i] = j
    <3>1. j \in n + 1 .. L /\ j # m
      BY <1>10
    <3>2. PICK i \in 1 .. M + 1 : p[i] = j
      BY <1>3, <1>4, <2>5, <3>1 DEF Unread
    <3>3. i # 1
      BY <3>1, <3>2 DEF m
    <3>4. i - 1 \in 1 .. M /\ (i - 1) + 1 = i
      BY <1>3, <3>3
    <3> QED BY <3>2, <3>4
  <2> HIDE DEF s
  <2>6. Unread(w, r, m, s) /\ s \in [1 .. Len(r) -> m + 1 .. Len(w)]
    BY <1>4, <2>2, <2>3, <2>4, <2>5 DEF Unread
  <2> QED BY <2>6
<1>16. m \in 0 .. Len(w)
  BY <1>4, <1>10
<1>17. BusRead(w, r, gr, gdev)
  BY <1>14, <1>15, <1>16 DEF BusRead
<1> QED BY <1>17 DEF r

\* With nothing in the queue, the topics show what the whole bus left there.
LEMMA NothingUnread ==
    ASSUME NEW w \in Seq(AllFrames), NEW fr, NEW dev,
           BusRead(w, << >>, fr, dev)
    PROVE  Shown(w, Len(w), fr, dev)
<1> DEFINE L == Len(w)
<1>1. PICK n \in 0 .. L : /\ Shown(w, n, fr, dev)
                          /\ \E p \in [1 .. Len(<< >>) -> n + 1 .. L] :
                                 Unread(w, << >>, n, p)
  BY DEF BusRead
<1>2. L \in Nat /\ \A i \in 1 .. L : w[i] \in AllFrames
  OBVIOUS
<1>3. Len(<< >>) = 0 /\ Len(w) = L
  OBVIOUS
<1> HIDE DEF L
<1>4. \A j \in n + 1 .. L : ~Filter(w[j])
  BY <1>1, <1>3 DEF Unread
<1>5. \A j \in n + 1 .. L : StatusSlot(w[j]) \notin Slots
  <2> TAKE j \in n + 1 .. L
  <2>1. j \in 1 .. L
    BY <1>2
  <2> QED BY <1>2, <1>4, <2>1, StatusFramesPicked
<1>6. n \in Nat /\ n <= L
  BY <1>2
<1>7. \A k \in Slots : IsLast(w, L, {k}, fr[k])
  <2> TAKE k \in Slots
  <2>1. \A j \in n + 1 .. L : StatusSlot(w[j]) \notin {k}
    BY <1>5
  <2>2. IsLast(w, n, {k}, fr[k])
    BY <1>1 DEF Shown
  <2> QED BY <1>2, <1>6, <2>1, <2>2, LastOfLonger
<1>8. CASE dev = {} /\ IsLast(w, n, Slots, << >>)
  BY <1>2, <1>3, <1>5, <1>6, <1>7, <1>8, LastOfLonger DEF Shown
<1>9. ASSUME NEW i \in 1 .. n, IsLast(w, n, Slots, <<w[i]>>),
             dev = {DeviceId(w[i])}
      PROVE  Shown(w, L, fr, dev)
  <2>1. i \in 1 .. L
    BY <1>2, <1>6
  <2>2. IsLast(w, L, Slots, <<w[i]>>)
    BY <1>2, <1>5, <1>6, <1>9, LastOfLonger
  <2> QED BY <1>7, <1>9, <2>1, <2>2 DEF Shown
<1> QED BY <1>1, <1>3, <1>8, <1>9 DEF Shown

\* What the topics hold is what the search through the history finds.
LEMMA LastFound ==
    ASSUME NEW b \in CanBuses, wire[b] \in Seq(AllFrames), NEW slots, NEW x,
           IsLast(wire[b], Len(wire[b]), slots, x)
    PROVE  x = LastOnWire(b, slots)
<1> DEFINE w == wire[b]
           L == Len(w)
           I == {i \in DOMAIN w : StatusSlot(w[i]) \in slots}
           c == CHOOSE i \in I : \A j \in I : j <= i
<1>1. DOMAIN w = 1 .. L /\ L \in Nat
  OBVIOUS
<1>2. LastOnWire(b, slots) = IF I = {} THEN << >> ELSE <<w[c]>>
  BY DEF LastOnWire
<1>3. IsLast(w, L, slots, x)
  OBVIOUS
<1> HIDE DEF w, L
<1>4. CASE x = << >> /\ \A i \in 1 .. L : StatusSlot(w[i]) \notin slots
  <2>1. I = {}
    BY <1>1, <1>4
  <2> QED BY <1>2, <1>4, <2>1
<1>5. ASSUME NEW i \in 1 .. L, x = <<w[i]>>, StatusSlot(w[i]) \in slots,
             \A j \in i + 1 .. L : StatusSlot(w[j]) \notin slots
      PROVE  x = LastOnWire(b, slots)
  <2>1. i \in I /\ I \subseteq 1 .. L
    BY <1>1, <1>5
  <2>2. \A j \in I : j <= i
    <3> SUFFICES ASSUME NEW j \in I, ~(j <= i) PROVE FALSE
      OBVIOUS
    <3>1. j \in i + 1 .. L
      BY <1>1, <2>1
    <3> QED BY <1>5, <3>1
  <2>3. \A k \in I : (\A j \in I : j <= k) => k = i
    <3> SUFFICES ASSUME NEW k \in I, \A j \in I : j <= k PROVE k = i
      OBVIOUS
    <3>1. i <= k /\ k <= i /\ k \in 1 .. L
      BY <2>1, <2>2
    <3> QED BY <1>1, <3>1
  <2>4. c \in I /\ \A j \in I : j <= c
    BY <2>1, <2>2
  <2>5. c = i
    BY <2>3, <2>4
  <2> HIDE DEF I, c
  <2>6. I # {}
    BY <2>1
  <2> QED BY <1>2, <1>5, <2>5, <2>6
<1> QED BY <1>3, <1>4, <1>5 DEF IsLast

(***************************************************************************)
(* Every step keeps the order.                                             *)
(***************************************************************************)

\* A bus without frames.
LEMMA NothingOnBus == BusRead(<< >>, << >>, [k \in Slots |-> << >>], {})
<1>1. Len(<< >>) = 0 /\ 0 \in 0 .. Len(<< >>)
  OBVIOUS
<1>2. \A slots : IsLast(<< >>, 0, slots, << >>)
  BY DEF IsLast
<1>3. Shown(<< >>, 0, [k \in Slots |-> << >>], {})
  BY <1>2 DEF Shown
<1>4. << >> \in [1 .. 0 -> 0 + 1 .. 0] /\ \A i \in 1 .. 0 : FALSE
  OBVIOUS
<1>5. \A j \in 0 + 1 .. 0 : FALSE
  OBVIOUS
<1>6. Unread(<< >>, << >>, 0, << >>)
  BY <1>1, <1>4, <1>5 DEF Unread
<1> QED BY <1>1, <1>3, <1>4, <1>6 DEF BusRead

LEMMA ReadInit == Init => ReadInOrder
  BY NothingOnBus DEF Init, ReadInOrder

LEMMA ReadNext == PdInv /\ ReadInOrder /\ [Next]_vars => ReadInOrder'
<1> SUFFICES ASSUME PdInv, ReadInOrder, [Next]_vars PROVE ReadInOrder'
  OBVIOUS
<1>0. /\ wire \in [CanBuses -> Seq(AllFrames)]
      /\ queue \in [CanBuses -> Seq(AllFrames)]
      /\ frame \in [CanBuses -> [Slots -> Seq(AllFrames)]]
      /\ deviceId \in [CanBuses -> SUBSET Int]
  BY DEF PdInv, PdTypeOK
<1>1. CASE UNCHANGED <<wire, queue, frame, deviceId>>
  BY <1>1 DEF ReadInOrder
<1>2. CASE ServiceStarts
  BY <1>2, NothingOnBus DEF ServiceStarts, NewTopics, ReadInOrder
<1>3. ASSUME NEW b \in CanBuses, PollReadable(b) PROVE ReadInOrder'
  <2> DEFINE f == Head(queue[b])
  <2>1. queue[b] \in Seq(AllFrames) /\ queue[b] # << >>
    BY <1>0, <1>3 DEF PollReadable
  <2>2. Filter(f)
    <3>1. 1 \in 1 .. Len(queue[b]) /\ f = queue[b][1]
      BY <2>1
    <3> QED BY <3>1 DEF PdInv, QueueFiltered
  <2>3. wire' = wire /\ queue' = [queue EXCEPT ![b] = Tail(queue[b])]
    BY <1>3 DEF PollReadable
  <2>4. /\ \A c \in CanBuses \ {b} : /\ frame'[c] = frame[c]
                                     /\ deviceId'[c] = deviceId[c]
                                     /\ queue'[c] = queue[c]
        /\ queue'[b] = Tail(queue[b])
        /\ IF Handled(f) /\ IsValid(f)
           THEN /\ deviceId'[b] = {DeviceId(f)}
                /\ frame'[b] = IF FrameNum(f) \in Slots
                               THEN [frame[b] EXCEPT ![FrameNum(f)] = <<f>>]
                               ELSE frame[b]
           ELSE frame'[b] = frame[b] /\ deviceId'[b] = deviceId[b]
    <3>1. CASE Handled(f) /\ IsValid(f)
      <4>1. deviceId' = [deviceId EXCEPT ![b] = {DeviceId(f)}]
        BY <1>3, <3>1 DEF PollReadable
      <4>2. frame' = IF FrameNum(f) \in Slots
                     THEN [frame EXCEPT ![b][FrameNum(f)] = <<f>>] ELSE frame
        BY <1>3, <3>1 DEF PollReadable
      <4> HIDE DEF f
      <4> QED BY <1>0, <2>3, <3>1, <4>1, <4>2
    <3>2. CASE ~(Handled(f) /\ IsValid(f))
      <4>1. UNCHANGED <<frame, deviceId>>
        BY <1>3, <3>2 DEF PollReadable
      <4> HIDE DEF f
      <4> QED BY <1>0, <2>3, <3>2, <4>1
    <3> QED BY <3>1, <3>2
  <2>5. BusRead(wire[b], Tail(queue[b]), frame'[b], deviceId'[b])
    <3>1. wire[b] \in Seq(AllFrames) /\ frame[b] \in [Slots -> Seq(AllFrames)]
          /\ BusRead(wire[b], queue[b], frame[b], deviceId[b])
      BY <1>0 DEF ReadInOrder
    <3> QED BY <2>1, <2>2, <2>4, <3>1, FrameRead
  <2>6. ASSUME NEW c \in CanBuses, c # b
        PROVE  BusRead(wire'[c], queue'[c], frame'[c], deviceId'[c])
    BY <2>3, <2>4, <2>6 DEF ReadInOrder
  <2> QED BY <2>3, <2>4, <2>5, <2>6 DEF ReadInOrder
<1>4. ASSUME NEW b \in CanBuses, NEW f \in Frames, Transmit(b, f)
      PROVE  ReadInOrder'
  <2> DEFINE v == Append(wire[b], f)
             r == IF Filter(f) THEN Append(queue[b], f) ELSE queue[b]
  <2>1. f \in AllFrames
    BY FramesAssumption
  <2>2. /\ wire' = [wire EXCEPT ![b] = v] /\ queue' = [queue EXCEPT ![b] = r]
        /\ UNCHANGED <<frame, deviceId>>
    BY <1>4 DEF Transmit
  <2>3. BusRead(v, r, frame[b], deviceId[b])
    <3>1. wire[b] \in Seq(AllFrames) /\ queue[b] \in Seq(AllFrames)
          /\ BusRead(wire[b], queue[b], frame[b], deviceId[b])
      BY <1>0 DEF ReadInOrder
    <3> QED BY <2>1, <3>1, FrameQueued
  <2> HIDE DEF v, r
  <2> QED BY <1>0, <2>2, <2>3 DEF ReadInOrder
<1>5. CASE ServiceEnds \/ (\E b \in CanBuses : BindSocket(b) \/ CreatePoll(b))
  BY <1>1, <1>5 DEF ServiceEnds, BindSocket, CreatePoll
<1>6. CASE UNCHANGED vars
  BY <1>1, <1>6 DEF vars
<1> QED BY <1>2, <1>3, <1>4, <1>5, <1>6 DEF Next

LEMMA ReadInductive == Spec => [](PdInv /\ ReadInOrder)
  BY PdInit, PdNext, ReadInit, ReadNext, PTL DEF Spec

\* Once the frames in its queue are read, every frame topic holds the last
\* status frame of its kind that was on its bus, for any frames in any order:
\* handlePowerFrame misses none, and none overtakes another.
THEOREM SlotsFollowBus == Spec => []SlotsCurrent
<1>1. PdInv /\ ReadInOrder => SlotsCurrent
  <2> SUFFICES ASSUME PdInv, ReadInOrder, NEW b \in CanBuses, NEW k \in Slots,
                      CaughtUp(b)
               PROVE  frame[b][k] = LastOnWire(b, {k})
    BY DEF SlotsCurrent
  <2>1. wire[b] \in Seq(AllFrames) /\ queue[b] = << >>
    BY DEF PdInv, PdTypeOK, CaughtUp
  <2>2. Shown(wire[b], Len(wire[b]), frame[b], deviceId[b])
    BY <2>1, NothingUnread DEF ReadInOrder
  <2>3. IsLast(wire[b], Len(wire[b]), {k}, frame[b][k])
    BY <2>2 DEF Shown
  <2> QED BY <2>1, <2>3, LastFound
<1> QED BY <1>1, ReadInductive, PTL

\* deviceid then names the sender of the last status frame on the bus.
THEOREM DeviceIdFollowsBus == Spec => []DeviceIdCurrent
<1>1. PdInv /\ ReadInOrder => DeviceIdCurrent
  <2> SUFFICES ASSUME PdInv, ReadInOrder, NEW b \in CanBuses, CaughtUp(b)
               PROVE  IF LastOnWire(b, Slots) = << >> THEN deviceId[b] = {}
                      ELSE deviceId[b] = {CanId([LastOnWire(b, Slots)[1]
                                                     EXCEPT !.fields.api = 0])}
    BY DEF DeviceIdCurrent
  <2>1. wire[b] \in Seq(AllFrames) /\ queue[b] = << >>
    BY DEF PdInv, PdTypeOK, CaughtUp
  <2>2. Shown(wire[b], Len(wire[b]), frame[b], deviceId[b])
    BY <2>1, NothingUnread DEF ReadInOrder
  <2>3. CASE deviceId[b] = {}
             /\ IsLast(wire[b], Len(wire[b]), Slots, << >>)
    <3>1. LastOnWire(b, Slots) = << >>
      BY <2>1, <2>3, LastFound
    <3> QED BY <2>3, <3>1
  <2>4. ASSUME NEW i \in 1 .. Len(wire[b]),
               IsLast(wire[b], Len(wire[b]), Slots, <<wire[b][i]>>),
               deviceId[b] = {DeviceId(wire[b][i])}
        PROVE  /\ LastOnWire(b, Slots) # << >>
               /\ deviceId[b] = {CanId([LastOnWire(b, Slots)[1]
                                            EXCEPT !.fields.api = 0])}
    <3> DEFINE f == wire[b][i]
    <3>1. <<f>> = LastOnWire(b, Slots)
      BY <2>1, <2>4, LastFound
    <3>2. f \in AllFrames
      BY <2>1
    <3>3. DeviceId(f) = CanId([f EXCEPT !.fields.api = 0])
      BY <3>2, DeviceIdKept
    <3>4. deviceId[b] = {DeviceId(f)}
      BY <2>4
    <3> HIDE DEF f
    <3>5. LastOnWire(b, Slots) # << >> /\ LastOnWire(b, Slots)[1] = f
      BY <3>1
    <3> QED BY <3>3, <3>4, <3>5
  <2> QED BY <2>2, <2>3, <2>4 DEF Shown
<1> QED BY <1>1, ReadInductive, PTL
=============================================================================
