--------------------------- MODULE H2NRing_proofs ---------------------------
(***************************************************************************)
(* For every ring size, every number of senders and every set of packets:  *)
(* no descriptor the NSS has yet to read is overwritten, the ring is a     *)
(* first-in first-out channel of whole packets, the opaque pointer of each *)
(* packet is with the NSS once; and, but for the unwinding of a failed     *)
(* send, the mappings follow the packets.                                  *)
(***************************************************************************)
EXTENDS H2NRing, SequenceTheorems, FiniteSetTheorems, TLAPS

(***************************************************************************)
(* Index arithmetic.                                                       *)
(***************************************************************************)

\* "& mask" on a sum or difference of two indices.
LEMMA Wrap ==
    ASSUME NEW x \in Nat, x < 2 * Size
    PROVE  x % Size = IF x < Size THEN x ELSE x - Size
<1>1. Size \in Nat /\ Size > 0
    BY SizeAssumption
<1>2. CASE x < Size
    BY <1>1, <1>2
<1>3. CASE x >= Size
    BY <1>1, <1>3
<1> QED  BY <1>1, <1>2, <1>3

\* How far slot a lies behind slot b.
LEMMA Distance ==
    ASSUME NEW a \in Slots, NEW b \in Slots
    PROVE  ((a - b) + Size) % Size = IF a >= b THEN a - b ELSE (a - b) + Size
<1>1. (a - b) + Size \in Nat /\ (a - b) + Size < 2 * Size
    BY SizeAssumption DEF Slots
<1> QED  BY <1>1, Wrap, SizeAssumption DEF Slots
\* Slots up to the end of the free room are not in flight: the k-th slot
\* from the host index on, when k and the slots in flight fit in the ring.
LEMMA FreeSlot ==
    ASSUME NEW nss \in Slots, NEW hlos \in Slots, NEW k \in Nat,
           (((hlos - nss) + Size) % Size) + k < Size
    PROVE  /\ Advance(hlos, k) \in Slots
           /\ ((Advance(hlos, k) - nss) + Size) % Size
                    = (((hlos - nss) + Size) % Size) + k
<1> DEFINE d == ((hlos - nss) + Size) % Size
<1>1. d = IF hlos >= nss THEN hlos - nss ELSE (hlos - nss) + Size
    BY Distance
<1>2. hlos + k \in Nat /\ hlos + k < 2 * Size
    BY <1>1, SizeAssumption DEF Slots
<1>3. Advance(hlos, k) = IF hlos + k < Size THEN hlos + k ELSE (hlos + k) - Size
    BY <1>2, Wrap DEF Advance
<1>4. Advance(hlos, k) \in Slots
    BY <1>2, <1>3, SizeAssumption DEF Slots
<1>5. ((Advance(hlos, k) - nss) + Size) % Size
        = IF Advance(hlos, k) >= nss THEN Advance(hlos, k) - nss
                                     ELSE (Advance(hlos, k) - nss) + Size
    BY <1>4, Distance
<1> QED  BY <1>1, <1>3, <1>4, <1>5, SizeAssumption DEF Slots

\* The room a sender computes leaves one slot empty.
LEMMA Room ==
    ASSUME NEW nss \in Slots, NEW hlos \in Slots
    PROVE  FreeDescs(nss, hlos) + (((hlos - nss) + Size) % Size) = Size - 1
<1>1. ((hlos - nss) + Size) % Size
        = IF hlos >= nss THEN hlos - nss ELSE (hlos - nss) + Size
    BY Distance
<1>2. (nss - hlos - 1) + Size \in Nat /\ (nss - hlos - 1) + Size < 2 * Size
    BY SizeAssumption DEF Slots
<1>3. FreeDescs(nss, hlos)
        = IF (nss - hlos - 1) + Size < Size THEN (nss - hlos - 1) + Size
                                            ELSE nss - hlos - 1
    BY <1>2, Wrap, SizeAssumption DEF FreeDescs, Slots
<1> QED  BY <1>1, <1>3, SizeAssumption DEF Slots

\* The NSS moving on by one takes one slot out of flight.
LEMMA TakeOne ==
    ASSUME NEW nss \in Slots, NEW hlos \in Slots, nss # hlos
    PROVE  /\ Advance(nss, 1) \in Slots
           /\ ((hlos - Advance(nss, 1)) + Size) % Size
                    = (((hlos - nss) + Size) % Size) - 1
<1>1. ((hlos - nss) + Size) % Size
        = IF hlos >= nss THEN hlos - nss ELSE (hlos - nss) + Size
    BY Distance
<1>2. Advance(nss, 1) = IF nss + 1 < Size THEN nss + 1 ELSE (nss + 1) - Size
    BY Wrap, SizeAssumption DEF Advance, Slots
<1>3. Advance(nss, 1) \in Slots
    BY <1>2, SizeAssumption DEF Slots
<1>4. ((hlos - Advance(nss, 1)) + Size) % Size
        = IF hlos >= Advance(nss, 1) THEN hlos - Advance(nss, 1)
                                     ELSE (hlos - Advance(nss, 1)) + Size
    BY <1>3, Distance
<1> QED  BY <1>1, <1>2, <1>3, <1>4, SizeAssumption DEF Slots

(***************************************************************************)
(* The inductive invariant.                                                *)
(***************************************************************************)
Holding(s) == pc[s] \in {"map", "publish"}

\* The lock is held exactly by the sender that fills descriptors, and
\* outside a critical section the private and the shared index agree.
LockInv ==
    /\ hlos_index = h2n_hlos_index
    /\ \A s \in Senders : Holding(s) <=> lock = s

\* A call in progress has a packet, and counts its descriptors.
CallInv ==
    \A s \in Senders :
        /\ pc[s] # "idle" => nbuf[s] \in Packets
        /\ pc[s] \in {"idle", "lock", "full"} => written[s] = 0
        /\ pc[s] = "map" => written[s] < DescCount(nbuf[s])

\* The holder of the lock has room for its packet, and one slot to spare,
\* whatever the NSS has taken since the room was computed.
RoomInv ==
    \A s \in Senders :
        Holding(s) => InFlightCount + Needed(nbuf[s]) <= Size - 1

IInv == TypeOK /\ LockInv /\ CallInv /\ RoomInv
\* A packet needs at least the descriptors it is written to.
LEMMA PacketRoom ==
    ASSUME NEW p \in Packets
    PROVE  /\ Needed(p) \in Nat /\ DescCount(p) \in Nat
           /\ 0 < DescCount(p) /\ DescCount(p) <= Needed(p)
    BY PacketAssumption DEF Needed, DescCount, Scattered

\* The number of slots in flight, as the senders and the NSS see it.
LEMMA CountType ==
    ASSUME TypeOK
    PROVE  InFlightCount \in 0..(Size - 1)
    BY Distance, SizeAssumption DEF TypeOK, InFlightCount, Slots

\* The rings start empty, with all the senders outside.
LEMMA InitInv == Init => IInv
<1> SUFFICES ASSUME Init PROVE IInv
    OBVIOUS
<1>0. tx_stopped \in BOOLEAN /\ unblock_irq \in BOOLEAN
    BY Zenon DEF Init
<1>1. TypeOK
    BY <1>0 DEF Init, TypeOK
<1>2. LockInv
    BY NullAssumption DEF Init, LockInv, Holding
<1>3. CallInv /\ RoomInv
    BY DEF Init, CallInv, RoomInv, Holding
<1> QED  BY <1>1, <1>2, <1>3 DEF IInv

\* Every step of a sender and of the NSS keeps the invariant.
LEMMA NextInv == IInv /\ [Next]_vars => IInv'
<1> SUFFICES ASSUME IInv, [Next]_vars PROVE IInv'
    OBVIOUS
<1> USE DEF IInv
<1>1. ASSUME NEW s \in Senders, NEW p \in Packets, Call(s, p)
      PROVE  IInv'
  <2>1. TypeOK'
    BY <1>1 DEF Call, TypeOK
  <2>2. LockInv'
    BY <1>1 DEF Call, TypeOK, LockInv, Holding
  <2>3. CallInv'
    BY <1>1 DEF Call, TypeOK, CallInv
  <2>4. RoomInv'
    BY <1>1 DEF Call, TypeOK, RoomInv, Holding, InFlightCount
  <2> QED  BY <2>1, <2>2, <2>3, <2>4
<1>2. ASSUME NEW s \in Senders, LockAndFit(s)
      PROVE  IInv'
  <2>1. TypeOK'
    BY <1>2 DEF LockAndFit, TypeOK
  <2>2. LockInv'
    BY <1>2, NullAssumption DEF LockAndFit, TypeOK, LockInv, Holding
  <2>3. CallInv'
    BY <1>2, PacketRoom DEF LockAndFit, TypeOK, CallInv
  <2>4. RoomInv'
    <3>1. InFlightCount' = InFlightCount
      BY <1>2 DEF LockAndFit, InFlightCount
    <3>2. FreeDescs(h2n_nss_index, hlos_index) + InFlightCount = Size - 1
      BY Room DEF TypeOK, LockInv, InFlightCount
    <3>3. \A r \in Senders : Holding(r)' => r = s
      BY <1>2, NullAssumption DEF LockAndFit, TypeOK, LockInv, Holding
    <3>4. Needed(nbuf[s]) \in Nat /\ InFlightCount \in Nat
      BY <1>2, PacketRoom, CountType, SizeAssumption DEF LockAndFit, CallInv
    <3>5. FreeDescs(h2n_nss_index, hlos_index) \in Int
      BY SizeAssumption DEF FreeDescs, TypeOK, Slots
    <3>6. InFlightCount + Needed(nbuf[s]) <= Size - 1
      BY <1>2, <3>2, <3>4, <3>5, SizeAssumption DEF LockAndFit
    <3> QED  BY <1>2, <3>1, <3>3, <3>6 DEF LockAndFit, RoomInv
  <2> QED  BY <2>1, <2>2, <2>3, <2>4
<1>3. ASSUME NEW s \in Senders, LockAndFull(s)
      PROVE  IInv'
  <2>0. tx_stopped' \in BOOLEAN
    BY <1>3, Zenon DEF LockAndFull
  <2>1. TypeOK'
    BY <1>3, <2>0 DEF LockAndFull, TypeOK
  <2>2. LockInv'
    BY <1>3 DEF LockAndFull, TypeOK, LockInv, Holding
  <2>3. CallInv'
    BY <1>3 DEF LockAndFull, TypeOK, CallInv
  <2>4. RoomInv'
    BY <1>3 DEF LockAndFull, TypeOK, RoomInv, Holding, InFlightCount
  <2> QED  BY <2>1, <2>2, <2>3, <2>4
<1>4. ASSUME NEW s \in Senders, QueueFull(s)
      PROVE  IInv'
  <2>0. unblock_irq' \in BOOLEAN
    BY <1>4, Zenon DEF QueueFull
  <2>1. TypeOK'
    BY <1>4, <2>0 DEF QueueFull, Return, TypeOK
  <2>2. LockInv'
    BY <1>4 DEF QueueFull, Return, TypeOK, LockInv, Holding
  <2>3. CallInv'
    BY <1>4 DEF QueueFull, Return, TypeOK, CallInv
  <2>4. RoomInv'
    BY <1>4 DEF QueueFull, Return, TypeOK, RoomInv, Holding, InFlightCount
  <2> QED  BY <2>1, <2>2, <2>3, <2>4
<1>5. ASSUME NEW s \in Senders, MapSegment(s)
      PROVE  IInv'
  <2>1. TypeOK'
    BY <1>5 DEF MapSegment, TypeOK
  <2>2. LockInv'
    BY <1>5 DEF MapSegment, TypeOK, LockInv, Holding
  <2>3. CallInv'
    BY <1>5, PacketRoom DEF MapSegment, TypeOK, CallInv
  <2>4. RoomInv'
    BY <1>5 DEF MapSegment, TypeOK, RoomInv, Holding, InFlightCount
  <2> QED  BY <2>1, <2>2, <2>3, <2>4
<1>6. ASSUME NEW s \in Senders, MapFailure(s)
      PROVE  IInv'
  <2>1. TypeOK'
    BY <1>6 DEF MapFailure, Return, TypeOK
  <2>2. LockInv'
    BY <1>6, NullAssumption DEF MapFailure, Return, TypeOK, LockInv, Holding
  <2>3. CallInv'
    BY <1>6 DEF MapFailure, Return, TypeOK, CallInv
  <2>4. RoomInv'
    BY <1>6 DEF MapFailure, Return, TypeOK, RoomInv, Holding, InFlightCount
  <2> QED  BY <2>1, <2>2, <2>3, <2>4
<1>7. ASSUME NEW s \in Senders, Publish(s)
      PROVE  IInv'
  <2>0. Advance(hlos_index, DescCount(nbuf[s])) \in Slots
    BY <1>7, PacketRoom, SizeAssumption DEF Publish, CallInv, TypeOK, Advance, Slots
  <2>1. TypeOK'
    BY <1>7, <2>0 DEF Publish, Return, TypeOK
  <2>2. LockInv'
    BY <1>7, NullAssumption DEF Publish, Return, TypeOK, LockInv, Holding
  <2>3. CallInv'
    BY <1>7 DEF Publish, Return, TypeOK, CallInv
  <2>4. RoomInv'
    <3>1. \A r \in Senders : ~ Holding(r)'
      BY <1>7, NullAssumption DEF Publish, Return, TypeOK, LockInv, Holding
    <3> QED  BY <3>1 DEF RoomInv
  <2> QED  BY <2>1, <2>2, <2>3, <2>4
<1>8. CASE FirmwareTake
  <2>0. Advance(h2n_nss_index, 1) \in Slots /\ InFlightCount' = InFlightCount - 1
    BY <1>8, TakeOne DEF FirmwareTake, TypeOK, InFlightCount
  <2>1. TypeOK'
    BY <1>8, <2>0 DEF FirmwareTake, TypeOK
  <2>2. LockInv'
    BY <1>8 DEF FirmwareTake, LockInv, Holding
  <2>3. CallInv'
    BY <1>8 DEF FirmwareTake, CallInv
  <2>4. RoomInv'
    BY <1>8, <2>0, CountType, PacketRoom, SizeAssumption
    DEF FirmwareTake, CallInv, RoomInv, Holding
  <2> QED  BY <2>1, <2>2, <2>3, <2>4
<1>9. CASE TxUnblocked
  <2>0. tx_stopped' \in BOOLEAN /\ unblock_irq' \in BOOLEAN
    BY <1>9, Zenon DEF TxUnblocked
  <2> QED  BY <1>9, <2>0 DEF TxUnblocked, TypeOK, LockInv, CallInv, RoomInv,
                             Holding, InFlightCount
<1>10. CASE UNCHANGED vars
    BY <1>10 DEF vars, TypeOK, LockInv, CallInv, RoomInv, Holding, InFlightCount
<1> QED
    BY <1>1, <1>2, <1>3, <1>4, <1>5, <1>6, <1>7, <1>8, <1>9, <1>10 DEF Next, Send

(***************************************************************************)
(* The theorems.                                                           *)
(***************************************************************************)

\* Type correctness of the ring.
THEOREM TypeCorrect == Spec => []TypeOK
<1>1. IInv => TypeOK
    BY DEF IInv
<1> QED  BY <1>1, InitInv, NextInv, PTL DEF Spec

\* The slot a holder of the lock writes to is not in flight.
LEMMA WritesOutside ==
    ASSUME IInv, NEW s \in Senders, Holding(s),
           NEW k \in Nat, k < DescCount(nbuf[s])
    PROVE  Advance(hlos_index, k) \in Slots /\ ~ InFlight(Advance(hlos_index, k))
<1>1. InFlightCount + k < Size /\ InFlightCount \in Nat
    BY PacketRoom, CountType, SizeAssumption
    DEF IInv, CallInv, RoomInv, Holding
<1>2. hlos_index \in Slots /\ h2n_nss_index \in Slots /\ hlos_index = h2n_hlos_index
    BY DEF IInv, TypeOK, LockInv
<1>3. /\ Advance(hlos_index, k) \in Slots
      /\ ((Advance(hlos_index, k) - h2n_nss_index) + Size) % Size = InFlightCount + k
    BY <1>1, <1>2, FreeSlot DEF InFlightCount
<1> QED  BY <1>1, <1>3 DEF InFlight

\* No descriptor between the NSS index and the published host index is
\* written by nss_core_send_buffer() or nss_core_send_crypto(): the room they
\* compute from an NSS index that keeps moving is never an overestimate.
THEOREM Overwriting == Spec => NeverOverwritten
<1> DEFINE Kept == \A i \in Slots : InFlight(i) /\ InFlight(i)' => desc'[i] = desc[i]
<1>1. IInv /\ [Next]_vars => [Kept]_vars
  <2> SUFFICES ASSUME IInv, Next PROVE Kept
    BY DEF vars
  <2>d. DOMAIN desc = Slots
    BY DEF IInv, TypeOK
  <2>1. ASSUME NEW s \in Senders, MapSegment(s) PROVE Kept
    <3>1. Holding(s) /\ written[s] \in Nat /\ written[s] < DescCount(nbuf[s])
      BY <2>1 DEF MapSegment, Holding, IInv, TypeOK, CallInv
    <3>2. ~ InFlight(Advance(hlos_index, written[s]))
      BY <3>1, WritesOutside
    <3> QED  BY <2>1, <2>d, <3>2 DEF MapSegment
  <2>2. ASSUME NEW s \in Senders, Publish(s) PROVE Kept
    <3>1. nbuf[s] \in Packets /\ Holding(s)
      BY <2>2 DEF Publish, Holding, IInv, CallInv
    <3>2. ~ InFlight(Advance(hlos_index, DescCount(nbuf[s]) - 1))
      BY <3>1, PacketRoom, WritesOutside
    <3> QED  BY <2>2, <2>d, <3>2 DEF Publish
  <2>3. ASSUME UNCHANGED desc PROVE Kept
    BY <2>3
  <2> QED
    BY <2>1, <2>2, <2>3 DEF Next, Send, Call, LockAndFit, LockAndFull, QueueFull,
                            MapFailure, FirmwareTake, TxUnblocked
<1> QED  BY <1>1, InitInv, NextInv, PTL DEF Spec, NeverOverwritten

(***************************************************************************)
(* The ring implements DescFifo.                                           *)
(***************************************************************************)

\* What is in flight, slot by slot.
ContentsSeq ==
    /\ InFlightCount \in 0..(Size - 1)
    /\ Contents \in Seq({desc[i] : i \in Slots})
    /\ Len(Contents) = InFlightCount
    /\ \A i \in 1..InFlightCount :
            /\ Advance(h2n_nss_index, i - 1) \in Slots
            /\ Contents[i] = desc[Advance(h2n_nss_index, i - 1)]

LEMMA ContentsAre == TypeOK => ContentsSeq
<1> SUFFICES ASSUME TypeOK PROVE ContentsSeq
    OBVIOUS
<1>1. InFlightCount \in 0..(Size - 1)
    BY CountType
<1>2. \A i \in 1..InFlightCount : Advance(h2n_nss_index, i - 1) \in Slots
    BY <1>1, SizeAssumption DEF Advance, Slots, TypeOK
<1>3. \A i \in 1..InFlightCount :
            Contents[i] = desc[Advance(h2n_nss_index, i - 1)]
    BY DEF Contents
<1>4. Contents \in [1..InFlightCount -> {desc[i] : i \in Slots}]
    BY <1>2 DEF Contents
<1>5. Contents \in Seq({desc[i] : i \in Slots}) /\ Len(Contents) = InFlightCount
    BY <1>1, <1>4
<1> QED  BY <1>1, <1>2, <1>3, <1>5 DEF ContentsSeq

\* The k-th slot in flight, counted from the NSS index, and the slots behind.
LEMMA InFlightSlot ==
    ASSUME NEW nss \in Slots, NEW k \in Nat, k < Size
    PROVE  /\ Advance(nss, k) \in Slots
           /\ ((Advance(nss, k) - nss) + Size) % Size = k
           /\ Advance(nss, k) = IF nss + k < Size THEN nss + k ELSE (nss + k) - Size
<1>1. nss + k \in Nat /\ nss + k < 2 * Size
    BY SizeAssumption DEF Slots
<1>2. Advance(nss, k) = IF nss + k < Size THEN nss + k ELSE (nss + k) - Size
    BY <1>1, Wrap DEF Advance
<1>3. Advance(nss, k) \in Slots
    BY <1>1, <1>2, SizeAssumption DEF Slots
<1>4. ((Advance(nss, k) - nss) + Size) % Size
        = IF Advance(nss, k) >= nss THEN Advance(nss, k) - nss
                                    ELSE (Advance(nss, k) - nss) + Size
    BY <1>3, Distance
<1> QED  BY <1>2, <1>3, <1>4, SizeAssumption DEF Slots

\* Two steps on the ring are one longer step.
LEMMA AdvanceTwice ==
    ASSUME NEW nss \in Slots, NEW j \in Nat, NEW k \in Nat, j + k < Size
    PROVE  Advance(Advance(nss, j), k) = Advance(nss, j + k)
<1> DEFINE a == Advance(nss, j)
<1>0. j < Size /\ k < Size /\ j + k \in Nat
    BY SizeAssumption
<1>1. /\ a \in Slots
      /\ a = IF nss + j < Size THEN nss + j ELSE (nss + j) - Size
    BY <1>0, InFlightSlot
<1>2. Advance(a, k) = IF a + k < Size THEN a + k ELSE (a + k) - Size
    BY <1>0, <1>1, InFlightSlot
<1>3. Advance(nss, j + k)
        = IF nss + (j + k) < Size THEN nss + (j + k) ELSE (nss + (j + k)) - Size
    BY <1>0, InFlightSlot
<1> HIDE DEF a
<1>4. Advance(a, k) = Advance(nss, j + k)
    BY <1>0, <1>1, <1>2, <1>3, SizeAssumption DEF Slots
<1> QED  BY <1>4 DEF a

\* A step that leaves the indices and the slots in flight alone leaves the
\* contents alone.
LEMMA ContentsKept ==
    ASSUME TypeOK, TypeOK', UNCHANGED << h2n_hlos_index, h2n_nss_index >>,
           \A i \in Slots : InFlight(i) => desc'[i] = desc[i]
    PROVE  Contents' = Contents
<1>1. InFlightCount' = InFlightCount /\ InFlightCount \in 0..(Size - 1)
    BY CountType DEF InFlightCount
<1>2. ASSUME NEW i \in 1..InFlightCount
      PROVE  desc'[Advance(h2n_nss_index, i - 1)] = desc[Advance(h2n_nss_index, i - 1)]
  <2>1. i - 1 \in Nat /\ i - 1 < InFlightCount /\ i - 1 < Size /\ h2n_nss_index \in Slots
      BY <1>1, SizeAssumption DEF TypeOK
  <2>2. /\ Advance(h2n_nss_index, i - 1) \in Slots
        /\ ((Advance(h2n_nss_index, i - 1) - h2n_nss_index) + Size) % Size = i - 1
      BY <2>1, InFlightSlot
  <2> QED  BY <2>1, <2>2 DEF InFlight
<1>3. Contents' = [i \in 1..InFlightCount |-> desc'[Advance(h2n_nss_index, i - 1)]]
    BY <1>1 DEF Contents, Advance
<1> QED  BY <1>2, <1>3 DEF Contents

\* The NSS takes what has been in flight for longest.
LEMMA ContentsTaken ==
    ASSUME IInv, IInv', FirmwareTake
    PROVE  /\ Contents # << >> /\ Contents[1] = desc[h2n_nss_index]
           /\ Contents' = Tail(Contents)
<1> DEFINE D == {desc[i] : i \in Slots}
           n == InFlightCount
<1>0. TypeOK /\ TypeOK'
    BY DEF IInv
<1>1. /\ n \in 0..(Size - 1) /\ Contents \in Seq(D) /\ Len(Contents) = n
      /\ \A i \in 1..n : Contents[i] = desc[Advance(h2n_nss_index, i - 1)]
    BY <1>0, ContentsAre DEF ContentsSeq
<1>2. TypeOK' => ContentsSeq'
    BY ContentsAre, PTL
<1>3. Contents' \in Seq(D) /\ Len(Contents') = InFlightCount'
    BY <1>0, <1>2 DEF FirmwareTake, ContentsSeq
<1>4. h2n_nss_index \in Slots /\ h2n_hlos_index \in Slots
    BY <1>0 DEF TypeOK
<1>5. InFlightCount' = n - 1 /\ n \in Nat /\ n # 0
  <2>1. InFlightCount' = n - 1
      BY <1>4, TakeOne DEF FirmwareTake, InFlightCount
  <2>2. n # 0
      BY <1>4, Distance, SizeAssumption DEF FirmwareTake, InFlightCount, Slots
  <2> QED  BY <1>1, <2>1, <2>2
<1>6. h2n_nss_index' = Advance(h2n_nss_index, 1) /\ desc' = desc
    BY DEF FirmwareTake
<1>7. ASSUME NEW i \in 1..(n - 1)
      PROVE  Contents'[i] = Contents[i + 1]
  <2>1. Contents'[i] = desc[Advance(Advance(h2n_nss_index, 1), i - 1)]
      BY <1>0, <1>2, <1>5, <1>6 DEF Advance, ContentsSeq
  <2>2. i - 1 \in Nat /\ 1 + (i - 1) = i /\ i < Size /\ i + 1 \in 1..n /\ (i + 1) - 1 = i
      BY <1>1, <1>5, SizeAssumption
  <2>3. Advance(Advance(h2n_nss_index, 1), i - 1) = Advance(h2n_nss_index, i)
      BY <1>4, <2>2, AdvanceTwice
  <2>4. Contents[i + 1] = desc[Advance(h2n_nss_index, i)]
      BY <1>1, <2>2
  <2> QED  BY <2>1, <2>3, <2>4
<1>8. Contents # << >>
    BY <1>1, <1>5
<1>9. Contents[1] = desc[h2n_nss_index]
  <2>1. Advance(h2n_nss_index, 0) = h2n_nss_index
      BY <1>4, InFlightSlot, SizeAssumption DEF Slots
  <2> QED  BY <1>1, <1>5, <2>1
<1>10. Contents' = Tail(Contents)
  <2> HIDE DEF D, n
  <2>1. /\ Tail(Contents) \in Seq(D) /\ Len(Tail(Contents)) = n - 1
        /\ \A i \in 1..(n - 1) : Tail(Contents)[i] = Contents[i + 1]
      BY <1>1, <1>8, HeadTailProperties
  <2> QED  BY <1>3, <1>5, <1>7, <2>1, SeqEqual
<1> QED  BY <1>8, <1>9, <1>10

\* The descriptors of the packet being sent stand behind those in flight.
FilledInv ==
    \A s \in Senders :
        Holding(s) =>
            /\ pc[s] = "publish" => written[s] = DescCount(nbuf[s])
            /\ \A k \in 0..(written[s] - 1) :
                    desc[Advance(hlos_index, k)] = SegmentDesc(nbuf[s], k)

\* The packet of a call in progress is the driver's, and that call's alone.
OwnerInv ==
    \A s \in Senders :
        pc[s] # "idle" =>
            /\ owner[nbuf[s]] = "driver"
            /\ \A r \in Senders : pc[r] # "idle" /\ nbuf[r] = nbuf[s] => r = s

\* Descriptors of one packet, whatever they are, make a sequence.
LEMMA DescsAre ==
    ASSUME NEW p \in Packets, NEW D, \A j \in 1..DescCount(p) : DescsOf(p)[j] \in D
    PROVE  DescsOf(p) \in Seq(D) /\ Len(DescsOf(p)) = DescCount(p)
<1>1. DescCount(p) \in Nat
    BY PacketRoom
<1>2. DescsOf(p) \in [1..DescCount(p) -> D]
    BY DEF DescsOf
<1> QED  BY <1>1, <1>2

\* Two slots within one round of the ring are different slots.
LEMMA DifferentSlots ==
    ASSUME NEW nss \in Slots, NEW j \in Nat, NEW k \in Nat, j < Size, k < Size,
           Advance(nss, j) = Advance(nss, k)
    PROVE  j = k
<1>1. ((Advance(nss, j) - nss) + Size) % Size = j
    BY InFlightSlot
<1>2. ((Advance(nss, k) - nss) + Size) % Size = k
    BY InFlightSlot
<1> QED  BY <1>1, <1>2

\* The host index is behind all that is in flight.
LEMMA HostIndex ==
    ASSUME NEW nss \in Slots, NEW hlos \in Slots
    PROVE  Advance(nss, ((hlos - nss) + Size) % Size) = hlos
<1> DEFINE d == ((hlos - nss) + Size) % Size
<1>1. d = IF hlos >= nss THEN hlos - nss ELSE (hlos - nss) + Size
    BY Distance
<1>2. d \in Nat /\ d < Size
    BY <1>1, SizeAssumption DEF Slots
<1>3. Advance(nss, d) = IF nss + d < Size THEN nss + d ELSE (nss + d) - Size
    BY <1>2, InFlightSlot
<1> HIDE DEF d
<1>4. Advance(nss, d) = hlos
    BY <1>1, <1>2, <1>3, SizeAssumption DEF Slots
<1> QED  BY <1>4 DEF d

\* A packet is published whole, behind what is in flight.
LEMMA ContentsPublished ==
    ASSUME IInv, IInv', FilledInv, NEW s \in Senders, Publish(s)
    PROVE  /\ Len(Contents) + DescCount(nbuf[s]) <= Size - 1
           /\ Contents' = Contents \o DescsOf(nbuf[s])
<1> DEFINE p == nbuf[s]
           m == DescCount(p)
           n == InFlightCount
           last == Advance(hlos_index, m - 1)
           D == {desc[i] : i \in Slots} \cup {desc'[i] : i \in Slots}
                    \cup {DescsOf(p)[j] : j \in 1..m}
<1>0. /\ TypeOK /\ TypeOK' /\ Holding(s) /\ p \in Packets
      /\ hlos_index = h2n_hlos_index /\ DOMAIN desc = Slots
      /\ h2n_nss_index \in Slots /\ hlos_index \in Slots
    BY DEF IInv, TypeOK, LockInv, CallInv, Publish, Holding
<1>1. /\ n \in Nat /\ m \in Nat /\ 0 < m /\ n + m <= Size - 1
      /\ m - 1 \in Nat /\ m - 1 < m /\ Size \in Nat
    BY <1>0, PacketRoom, CountType, SizeAssumption DEF IInv, RoomInv
<1>2. /\ h2n_nss_index' = h2n_nss_index
      /\ h2n_hlos_index' = Advance(hlos_index, m)
      /\ desc' = [desc EXCEPT ![last] = LastDesc(p, @)]
    BY DEF Publish
<1>3. InFlightCount' = n + m
  <2>1. n + m < Size
      BY <1>1
  <2> QED  BY <1>0, <1>1, <1>2, <2>1, FreeSlot DEF InFlightCount
<1>4. last \in Slots /\ ~ InFlight(last)
    BY <1>0, <1>1, WritesOutside
<1>5. ContentsSeq
    BY <1>0, ContentsAre
<1>6. TypeOK' => ContentsSeq'
    BY ContentsAre, PTL
<1>7. Contents' \in Seq(D) /\ Len(Contents') = n + m
  <2>1. Contents' \in Seq({desc'[i] : i \in Slots}) /\ Len(Contents') = n + m
      BY <1>0, <1>3, <1>6 DEF ContentsSeq
  <2> QED  BY <2>1, SeqMonotonic
<1>8. Contents \in Seq(D) /\ Len(Contents) = n
  <2>1. Contents \in Seq({desc[i] : i \in Slots}) /\ Len(Contents) = n
      BY <1>5 DEF ContentsSeq
  <2> QED  BY <2>1, SeqMonotonic
<1>9. DescsOf(p) \in Seq(D) /\ Len(DescsOf(p)) = m
  <2>1. \A j \in 1..m : DescsOf(p)[j] \in D
      OBVIOUS
  <2> HIDE DEF D
  <2> QED  BY <1>0, <2>1, DescsAre
<1>10. ASSUME NEW i \in 1..(n + m)
       PROVE  Contents'[i] = desc'[Advance(h2n_nss_index, i - 1)]
    BY <1>0, <1>2, <1>3, <1>6 DEF ContentsSeq, Advance
<1>11. ASSUME NEW i \in 1..n
       PROVE  Contents'[i] = Contents[i]
  <2>1. i - 1 \in Nat /\ i - 1 < n /\ i - 1 < Size /\ i \in 1..(n + m)
      BY <1>1
  <2>2. /\ Advance(h2n_nss_index, i - 1) \in Slots
        /\ InFlight(Advance(h2n_nss_index, i - 1))
      BY <1>0, <2>1, InFlightSlot DEF InFlight
  <2>3. desc'[Advance(h2n_nss_index, i - 1)] = desc[Advance(h2n_nss_index, i - 1)]
      BY <1>0, <1>2, <1>4, <2>2
  <2> QED  BY <1>5, <1>10, <2>1, <2>3 DEF ContentsSeq
<1>12. ASSUME NEW j \in 1..m
       PROVE  Contents'[n + j] = DescsOf(p)[j]
  <2>1. /\ j - 1 \in Nat /\ n + (j - 1) < Size /\ (n + j) - 1 = n + (j - 1)
        /\ n + j \in 1..(n + m) /\ j - 1 < Size /\ m - 1 < Size
      BY <1>1
  <2>2. Advance(h2n_nss_index, n) = hlos_index
      BY <1>0, HostIndex DEF InFlightCount
  <2>3. Advance(h2n_nss_index, (n + j) - 1) = Advance(hlos_index, j - 1)
      BY <1>0, <1>1, <2>1, <2>2, AdvanceTwice
  <2>4. Contents'[n + j] = desc'[Advance(hlos_index, j - 1)]
      BY <1>10, <2>1, <2>3
  <2>5. Advance(hlos_index, j - 1) \in Slots
      BY <1>0, <2>1, InFlightSlot
  <2>6. desc[Advance(hlos_index, j - 1)] = SegmentDesc(p, j - 1)
    <3>1. written[s] = m
        BY <1>0 DEF FilledInv, Publish
    <3>2. j - 1 \in 0..(m - 1)
        BY <1>1
    <3> QED  BY <1>0, <3>1, <3>2 DEF FilledInv
  <2>7. CASE j = m
      BY <1>0, <1>2, <2>4, <2>5, <2>6, <2>7 DEF DescsOf
  <2>8. CASE j # m
    <3>1. Advance(hlos_index, j - 1) # last
        BY <1>0, <1>1, <2>1, <2>8, DifferentSlots
    <3> QED  BY <1>0, <1>2, <2>4, <2>5, <2>6, <2>8, <3>1 DEF DescsOf
  <2> QED  BY <2>7, <2>8
<1> HIDE DEF n, m, D, last
<1>13. Contents' = Contents \o DescsOf(p)
  <2> DEFINE t == Contents \o DescsOf(p)
  <2>1. /\ t \in Seq(D) /\ Len(t) = n + m
        /\ \A i \in 1..(n + m) : t[i] = IF i <= n THEN Contents[i]
                                                  ELSE DescsOf(p)[i - n]
      BY <1>8, <1>9, ConcatProperties
  <2> HIDE DEF t
  <2>2. ASSUME NEW i \in 1..(n + m)
        PROVE  Contents'[i] = t[i]
    <3>1. CASE i <= n
        BY <1>1, <1>11, <2>1, <3>1
    <3>2. CASE ~ i <= n
      <4>1. i - n \in 1..m /\ i = n + (i - n)
          BY <1>1, <3>2
      <4> QED  BY <1>12, <2>1, <3>2, <4>1
    <3> QED  BY <3>1, <3>2
  <2>3. Contents' = t
      BY <1>7, <2>1, <2>2, SeqEqual
  <2> QED  BY <2>3 DEF t
<1> QED  BY <1>1, <1>8, <1>13 DEF m

\* What the steps that write no descriptor leave of FilledInv and OwnerInv.
LEMMA FilledKept ==
    ASSUME TypeOK, LockInv, FilledInv, OwnerInv,
           NEW s \in Senders,
           \/ \E p \in Packets : Call(s, p)
           \/ LockAndFit(s) \/ LockAndFull(s) \/ QueueFull(s) \/ MapFailure(s),
           CallInv
    PROVE  FilledInv' /\ OwnerInv'
<1>1. ASSUME NEW p \in Packets, Call(s, p)
      PROVE  FilledInv' /\ OwnerInv'
  <2>1. FilledInv'
      BY <1>1 DEF Call, FilledInv, Holding, TypeOK, Advance
  <2>2. OwnerInv'
      BY <1>1 DEF Call, OwnerInv, TypeOK
  <2> QED  BY <2>1, <2>2
<1>2. CASE LockAndFit(s)
  <2>1. written[s] = 0 /\ pc'[s] = "map" /\ \A r \in Senders : r # s => pc'[r] = pc[r]
      BY <1>2 DEF LockAndFit, CallInv, TypeOK
  <2>2. FilledInv'
      BY <1>2, <2>1 DEF LockAndFit, FilledInv, Holding, TypeOK, Advance
  <2>3. OwnerInv'
      BY <1>2 DEF LockAndFit, OwnerInv, TypeOK
  <2> QED  BY <2>2, <2>3
<1>3. CASE LockAndFull(s)
  <2>1. FilledInv'
      BY <1>3 DEF LockAndFull, FilledInv, Holding, TypeOK, Advance
  <2>2. OwnerInv'
      BY <1>3 DEF LockAndFull, OwnerInv, TypeOK
  <2> QED  BY <2>1, <2>2
<1>4. CASE QueueFull(s)
  <2>1. FilledInv'
      BY <1>4 DEF QueueFull, Return, FilledInv, Holding, TypeOK, Advance
  <2>2. OwnerInv'
      BY <1>4 DEF QueueFull, Return, OwnerInv, TypeOK, CallInv
  <2> QED  BY <2>1, <2>2
<1>5. CASE MapFailure(s)
  <2>1. FilledInv'
      BY <1>5 DEF MapFailure, Return, FilledInv, Holding, TypeOK, Advance
  <2>2. OwnerInv'
      BY <1>5 DEF MapFailure, Return, OwnerInv, TypeOK, CallInv
  <2> QED  BY <2>1, <2>2
<1> QED  BY <1>1, <1>2, <1>3, <1>4, <1>5

\* What the descriptors of a packet say, on each of the send paths.
LEMMA DescsSay ==
    ASSUME NEW p \in Packets, NEW i \in 1..DescCount(p)
    PROVE  /\ DescsOf(p)[i].buffer = << p, i - 1 >>
           /\ DescsOf(p)[i].last <=> i = DescCount(p)
           /\ DescsOf(p)[i].opaque =
                IF i = (IF p.kind = "nr_frags" THEN DescCount(p) ELSE 1)
                THEN p ELSE NoBuf
<1>1. DescCount(p) \in Nat /\ DescCount(p) > 0 /\ i \in Nat
    BY PacketRoom
<1>2. DescsOf(p)[i] = IF i = DescCount(p) THEN LastDesc(p, SegmentDesc(p, i - 1))
                                          ELSE SegmentDesc(p, i - 1)
    BY DEF DescsOf
<1>3. p.kind \in Kinds /\ p.segs \in Nat /\ (Scattered(p) => p.segs > 0)
    BY PacketAssumption DEF Scattered
<1>4. CASE p.kind = "nr_frags"
  <2>1. SegmentDesc(p, i - 1)
            = [buffer |-> << p, i - 1 >>, opaque |-> NoBuf,
               first |-> i - 1 = 0, last |-> FALSE, discard |-> TRUE]
      BY <1>4 DEF SegmentDesc, NrFragsDesc, nss_core_write_one_descriptor
  <2> DEFINE d == SegmentDesc(p, i - 1)
  <2>2. /\ d.buffer = << p, i - 1 >> /\ d.opaque = NoBuf /\ d.last = FALSE
        /\ DOMAIN d = {"buffer", "opaque", "first", "last", "discard"}
      BY <2>1
  <2> HIDE DEF d
  <2>3. LastDesc(p, d) = [d EXCEPT !.last = TRUE, !.discard = FALSE, !.opaque = p]
      BY <1>4 DEF LastDesc
  <2>4. /\ LastDesc(p, d).buffer = << p, i - 1 >>
        /\ LastDesc(p, d).opaque = p /\ LastDesc(p, d).last = TRUE
      BY <2>2, <2>3
  <2> QED  BY <1>1, <1>2, <1>4, <2>2, <2>4 DEF d
<1>5. CASE p.kind = "fraglist"
  <2>1. SegmentDesc(p, i - 1)
            = [buffer |-> << p, i - 1 >>, opaque |-> IF i - 1 = 0 THEN p ELSE NoBuf,
               first |-> i - 1 = 0, last |-> FALSE, discard |-> i - 1 > 0]
      BY <1>5 DEF SegmentDesc, FraglistDesc, nss_core_write_one_descriptor
  <2>2. i - 1 = 0 <=> i = 1
      BY <1>1
  <2> QED  BY <1>1, <1>2, <1>5, <2>1, <2>2 DEF LastDesc
<1>6. CASE p.kind \notin {"nr_frags", "fraglist"}
  <2>1. DescCount(p) = 1 /\ i = 1
      BY <1>1, <1>6 DEF DescCount, Scattered
  <2>2. SegmentDesc(p, 0)
            = [buffer |-> << p, 0 >>, opaque |-> p,
               first |-> TRUE, last |-> TRUE, discard |-> FALSE]
      BY <1>6 DEF SegmentDesc, CryptoDesc, SimpleDesc, nss_core_write_one_descriptor
  <2> QED  BY <1>2, <1>6, <2>1, <2>2 DEF LastDesc
<1> QED  BY <1>4, <1>5, <1>6

\* The place of the opaque pointer among the descriptors of a packet.
OpaqueAt(p) == IF p.kind = "nr_frags" THEN DescCount(p) ELSE 1

LEMMA OnePointer ==
    ASSUME NEW p \in Packets
    PROVE  /\ OpaqueAt(p) \in 1..DescCount(p)
           /\ DescsOf(p)[OpaqueAt(p)].opaque = p
           /\ \A i \in 1..DescCount(p) :
                /\ DescsOf(p)[i].opaque \in {p, NoBuf}
                /\ DescsOf(p)[i].opaque = p => i = OpaqueAt(p)
<1>1. OpaqueAt(p) \in 1..DescCount(p)
    BY PacketRoom DEF OpaqueAt
<1> QED  BY <1>1, DescsSay, NullAssumption DEF OpaqueAt

\* The NSS collects the descriptors of a packet in a sequence.
TakenSeq ==
    /\ taken \in Seq({taken[i] : i \in DOMAIN taken})
    /\ \A i \in 1..Len(taken) : ~ taken[i].last

\* What the NSS holds, one by one.
HeldSeq ==
    /\ Len(taken) \in Nat
    /\ Held \in Seq({taken[i] : i \in DOMAIN taken} \cup {desc[i] : i \in Slots})
    /\ Len(Held) = Len(taken) + InFlightCount
    /\ \A i \in 1..Len(taken) : Held[i] = taken[i]
    /\ \A i \in 1..InFlightCount : Held[Len(taken) + i] = Contents[i]

LEMMA HeldAre == TypeOK /\ TakenSeq => HeldSeq
<1> SUFFICES ASSUME TypeOK, TakenSeq PROVE HeldSeq
    OBVIOUS
<1> DEFINE A == {taken[i] : i \in DOMAIN taken}
           B == {desc[i] : i \in Slots}
<1>1. /\ taken \in Seq(A) /\ Contents \in Seq(B)
      /\ Len(Contents) = InFlightCount /\ InFlightCount \in Nat
    BY ContentsAre, SizeAssumption DEF ContentsSeq, TakenSeq
<1> HIDE DEF A, B
<1>2. taken \in Seq(A \cup B) /\ Contents \in Seq(A \cup B) /\ Len(taken) \in Nat
    BY <1>1, SeqMonotonic
<1>3. /\ Held \in Seq(A \cup B) /\ Len(Held) = Len(taken) + InFlightCount
      /\ \A i \in 1..(Len(taken) + InFlightCount) :
            Held[i] = IF i <= Len(taken) THEN taken[i] ELSE Contents[i - Len(taken)]
    BY <1>1, <1>2, ConcatProperties DEF Held
<1>4. ASSUME NEW i \in 1..Len(taken)
      PROVE  Held[i] = taken[i]
  <2>1. i \in 1..(Len(taken) + InFlightCount) /\ i <= Len(taken)
      BY <1>1, <1>2
  <2> QED  BY <1>3, <2>1
<1>5. ASSUME NEW i \in 1..InFlightCount
      PROVE  Held[Len(taken) + i] = Contents[i]
  <2>1. /\ Len(taken) + i \in 1..(Len(taken) + InFlightCount)
        /\ ~ (Len(taken) + i <= Len(taken)) /\ (Len(taken) + i) - Len(taken) = i
      BY <1>1, <1>2
  <2> QED  BY <1>3, <2>1
<1> QED  BY <1>2, <1>3, <1>4, <1>5 DEF HeldSeq, A, B

\* The NSS takes one descriptor more: within a packet it still holds the same
\* descriptors, at the end of one it holds those behind.
LEMMA HeldTaken ==
    ASSUME IInv, IInv', TakenSeq, FirmwareTake
    PROVE  LET m == Len(taken) + 1
           IN  /\ TakenSeq'
               /\ m \in 1..Len(Held) /\ Len(Held) \in Nat
               /\ Held[m] = desc[h2n_nss_index]
               /\ ~ Held[m].last =>
                    /\ Len(Held') = Len(Held)
                    /\ \A i \in 1..Len(Held) : Held'[i] = Held[i]
                    /\ UNCHANGED << owner, mapped >>
               /\ Held[m].last =>
                    /\ Len(Held') = Len(Held) - m
                    /\ \A i \in 1..Len(Held') : Held'[i] = Held[m + i]
                    /\ LET done == {Held[i].opaque : i \in 1..m} \ {NoBuf}
                       IN  /\ owner' = [p \in Packets |->
                                            IF p \in done THEN "host" ELSE owner[p]]
                           /\ mapped' = {b \in mapped : b[1] \notin done}
<1> DEFINE A == {taken[i] : i \in DOMAIN taken}
           B == {desc[i] : i \in Slots}
           d == desc[h2n_nss_index]
           all == Append(taken, d)
           n == InFlightCount
           m == Len(taken) + 1
<1>0. TypeOK /\ TypeOK' /\ ContentsSeq /\ HeldSeq
    BY ContentsAre, HeldAre DEF IInv
<1>1. /\ taken \in Seq(A) /\ Contents \in Seq(B) /\ Contents # << >>
      /\ Contents[1] = d /\ Contents' = Tail(Contents) /\ d \in B
      /\ Len(Contents) = n /\ n \in Nat
    BY <1>0, ContentsTaken, SizeAssumption DEF TakenSeq, ContentsSeq, TypeOK
<1>2. /\ taken \in Seq(A \cup B) /\ Contents \in Seq(A \cup B) /\ d \in A \cup B
  <2> HIDE DEF A, B, d
  <2> QED  BY <1>1, SeqMonotonic
<1>3. /\ all \in Seq(A \cup B) /\ Len(all) = m /\ m \in Nat /\ m > 0
      /\ \A i \in 1..Len(taken) : all[i] = taken[i]
      /\ all[m] = d
  <2> HIDE DEF A, B, d
  <2> QED  BY <1>2, AppendProperties
<1>4. /\ Tail(Contents) \in Seq(A \cup B) /\ Len(Tail(Contents)) = n - 1
      /\ \A i \in 1..(n - 1) : Tail(Contents)[i] = Contents[i + 1]
      /\ n > 0
  <2> HIDE DEF A, B, d
  <2>1. n > 0
      BY <1>1
  <2> QED  BY <1>1, <1>2, <2>1, HeadTailProperties
<1>5. /\ Len(Held) = Len(taken) + n /\ Len(taken) \in Nat
      /\ \A i \in 1..Len(taken) : Held[i] = taken[i]
      /\ \A i \in 1..n : Held[Len(taken) + i] = Contents[i]
    BY <1>0 DEF HeldSeq
<1>6. m \in 1..Len(Held) /\ Len(Held) \in Nat /\ Held[m] = d
  <2>1. 1 \in 1..n
      BY <1>1, <1>4
  <2> QED  BY <1>1, <1>4, <1>5, <2>1
<1>7. ASSUME NEW i \in 1..m
      PROVE  all[i] = Held[i]
    BY <1>3, <1>5, <1>6
<1>8. /\ d.last => taken' = << >>
      /\ ~ d.last => taken' = all /\ UNCHANGED << owner, mapped >>
      /\ d.last => LET done == {all[i].opaque : i \in DOMAIN all} \ {NoBuf}
                   IN  /\ owner' = [p \in Packets |->
                                        IF p \in done THEN "host" ELSE owner[p]]
                       /\ mapped' = {b \in mapped : b[1] \notin done}
    BY DEF FirmwareTake
<1>9. {all[i].opaque : i \in DOMAIN all} = {Held[i].opaque : i \in 1..m}
  <2>1. DOMAIN all = 1..m
    <3> HIDE DEF A, B, d, all
    <3> QED  BY <1>3
  <2> HIDE DEF A, B, d, all
  <2> QED  BY <1>7, <2>1
<1> HIDE DEF d
<1>10. CASE ~ d.last
  <2>1. taken' = all /\ Contents' = Tail(Contents)
      BY <1>1, <1>8, <1>10
  <2> HIDE DEF A, B, all
  <2>2. /\ Held' \in Seq(A \cup B) /\ Len(Held') = m + (n - 1)
        /\ \A i \in 1..(m + (n - 1)) :
              Held'[i] = IF i <= m THEN all[i] ELSE Tail(Contents)[i - m]
    <3> DEFINE t == Tail(Contents)
    <3>1. /\ all \in Seq(A \cup B) /\ t \in Seq(A \cup B)
          /\ Len(all) = m /\ Len(t) = n - 1
        BY <1>3, <1>4
    <3>2. Held' = all \o t
        BY <2>1 DEF Held
    <3> HIDE DEF t
    <3>3. /\ all \o t \in Seq(A \cup B) /\ Len(all \o t) = Len(all) + Len(t)
          /\ \A i \in 1..(Len(all) + Len(t)) :
                (all \o t)[i] = IF i <= Len(all) THEN all[i] ELSE t[i - Len(all)]
        BY <3>1, ConcatProperties
    <3> QED  BY <3>1, <3>2, <3>3 DEF t
  <2>3. ASSUME NEW i \in 1..Len(Held)
        PROVE  Held'[i] = Held[i]
    <3>1. CASE i <= m
      <4>1. i \in 1..m /\ i \in 1..(m + (n - 1))
          BY <1>1, <1>4, <1>5, <3>1
      <4> QED  BY <1>7, <2>2, <3>1, <4>1
    <3>2. CASE ~ i <= m
      <4>1. /\ i - m \in 1..(n - 1) /\ (i - m) + 1 \in 1..n
            /\ Len(taken) + ((i - m) + 1) = i /\ i \in 1..(m + (n - 1))
          BY <1>1, <1>5, <3>2
      <4>2. Held'[i] = Contents[(i - m) + 1]
          BY <1>4, <2>2, <3>2, <4>1
      <4>3. Held[Len(taken) + ((i - m) + 1)] = Contents[(i - m) + 1]
          BY <1>5, <4>1
      <4> QED  BY <4>1, <4>2, <4>3
    <3> QED  BY <3>1, <3>2
  <2>4. TakenSeq'
    <3>1. DOMAIN all = 1..m /\ all \in [1..m -> A \cup B]
        BY <1>3
    <3>2. all \in [1..m -> {all[i] : i \in DOMAIN all}]
        BY <3>1
    <3>3. all \in Seq({all[i] : i \in DOMAIN all})
      <4> DEFINE S == {all[i] : i \in DOMAIN all}
      <4>1. m \in Nat /\ all \in [1..m -> S]
          BY <1>3, <3>2
      <4> HIDE DEF S
      <4>2. all \in Seq(S)
          BY <4>1
      <4> QED  BY <4>2 DEF S
    <3>4. \A i \in 1..m : ~ all[i].last
        BY <1>3, <1>10 DEF TakenSeq
    <3> QED  BY <1>3, <2>1, <3>3, <3>4 DEF TakenSeq
  <2>5. Len(Held') = Len(Held)
      BY <1>1, <1>5, <2>2
  <2> QED  BY <1>6, <1>8, <1>10, <2>3, <2>4, <2>5 DEF d
<1>11. CASE d.last
  <2>1. taken' = << >> /\ Contents' = Tail(Contents)
      BY <1>1, <1>8, <1>11
  <2>2. Held' = Tail(Contents)
    <3>1. << >> \o Tail(Contents) = Tail(Contents)
        BY <1>4, ConcatEmptySeq
    <3> QED  BY <2>1, <3>1 DEF Held
  <2>3. ASSUME NEW i \in 1..(n - 1)
        PROVE  Held'[i] = Held[m + i]
    <3>1. i + 1 \in 1..n /\ m + i = Len(taken) + (i + 1)
        BY <1>1, <1>5
    <3>2. Held[Len(taken) + (i + 1)] = Contents[i + 1]
        BY <1>5, <3>1
    <3> QED  BY <1>4, <2>2, <3>1, <3>2
  <2>4. TakenSeq'
    <3>1. << >> \in Seq({taken'[i] : i \in DOMAIN taken'})
        OBVIOUS
    <3> QED  BY <2>1, <3>1 DEF TakenSeq
  <2>5. Len(Held') = n - 1 /\ n - 1 = Len(Held) - m
      BY <1>1, <1>4, <1>5, <2>2
  <2> QED  BY <1>6, <1>8, <1>9, <1>11, <2>3, <2>4, <2>5 DEF d
<1> QED  BY <1>10, <1>11

\* A packet published is held behind all the others.
LEMMA HeldPublished ==
    ASSUME IInv, IInv', FilledInv, TakenSeq, NEW s \in Senders, Publish(s)
    PROVE  /\ TakenSeq' /\ Len(Held) \in Nat
           /\ Len(Held') = Len(Held) + DescCount(nbuf[s])
           /\ \A i \in 1..Len(Held) : Held'[i] = Held[i]
           /\ \A j \in 1..DescCount(nbuf[s]) :
                    Held'[Len(Held) + j] = DescsOf(nbuf[s])[j]
<1> DEFINE p == nbuf[s]
           m == DescCount(p)
           D == {taken[i] : i \in DOMAIN taken} \cup {desc[i] : i \in Slots}
                    \cup {DescsOf(p)[j] : j \in 1..m}
           ds == DescsOf(p)
<1>0. /\ TypeOK /\ ContentsSeq /\ HeldSeq /\ p \in Packets /\ taken' = taken
      /\ m \in Nat /\ InFlightCount \in Nat
    BY ContentsAre, HeldAre, PacketRoom, SizeAssumption
    DEF IInv, CallInv, Publish, ContentsSeq
<1>1. \A j \in 1..m : ds[j] \in D
    OBVIOUS
<1>2. /\ taken \in Seq({taken[i] : i \in DOMAIN taken})
      /\ Contents \in Seq({desc[i] : i \in Slots})
      /\ Len(Held) \in Nat
    BY <1>0 DEF TakenSeq, ContentsSeq, HeldSeq
<1>3. /\ {taken[i] : i \in DOMAIN taken} \subseteq D
      /\ {desc[i] : i \in Slots} \subseteq D
    OBVIOUS
<1> HIDE DEF D, ds
<1>4. taken \in Seq(D) /\ Contents \in Seq(D)
    BY <1>2, <1>3, SeqMonotonic
<1>5. ds \in Seq(D) /\ Len(ds) = m
    BY <1>0, <1>1, DescsAre DEF ds
<1>6. Held' = Held \o ds
  <2>1. Contents' = Contents \o ds
      BY ContentsPublished DEF ds
  <2>2. Held' = taken \o (Contents \o ds) /\ Held = taken \o Contents
      BY <1>0, <2>1 DEF Held
  <2> HIDE DEF Held, Contents
  <2>3. (taken \o Contents) \o ds = taken \o (Contents \o ds)
      BY <1>4, <1>5, ConcatAssociative
  <2> QED  BY <2>2, <2>3
<1>7. Held \in Seq(D)
    BY <1>4, ConcatProperties DEF Held
<1>8. /\ Len(Held \o ds) = Len(Held) + Len(ds)
      /\ \A i \in 1..(Len(Held) + Len(ds)) :
            (Held \o ds)[i] = IF i <= Len(Held) THEN Held[i] ELSE ds[i - Len(Held)]
    BY <1>5, <1>7, ConcatProperties
<1>9. ASSUME NEW i \in 1..Len(Held)
      PROVE  Held'[i] = Held[i]
    BY <1>0, <1>2, <1>5, <1>6, <1>8
<1>10. ASSUME NEW j \in 1..m
       PROVE  Held'[Len(Held) + j] = ds[j]
  <2>1. /\ Len(Held) + j \in 1..(Len(Held) + m) /\ ~ (Len(Held) + j <= Len(Held))
        /\ (Len(Held) + j) - Len(Held) = j
      BY <1>0, <1>2
  <2> QED  BY <1>5, <1>6, <1>8, <2>1
<1>11. TakenSeq'
    BY <1>0 DEF TakenSeq
<1> QED  BY <1>2, <1>5, <1>6, <1>8, <1>9, <1>10, <1>11 DEF ds

\* The NSS holds at most one opaque pointer of a packet, and exactly those of
\* the packets it owns.
OpaqueInv ==
    /\ \A i, j \in 1..Len(Held) :
            Held[i].opaque = Held[j].opaque /\ Held[i].opaque # NoBuf => i = j
    /\ \A p \in Packets :
            owner[p] = "nss" <=> \E i \in 1..Len(Held) : Held[i].opaque = p

HoldInv == FilledInv /\ OwnerInv /\ TakenSeq /\ OpaqueInv

LEMMA InitEmpty == Init => TypeOK /\ InFlightCount = 0
<1> SUFFICES ASSUME Init PROVE TypeOK /\ InFlightCount = 0
    OBVIOUS
<1>1. TypeOK
    BY InitInv DEF IInv
<1>2. InFlightCount = IF h2n_hlos_index >= h2n_nss_index
                      THEN h2n_hlos_index - h2n_nss_index
                      ELSE (h2n_hlos_index - h2n_nss_index) + Size
    BY <1>1, Distance DEF TypeOK, InFlightCount
<1>3. h2n_hlos_index = h2n_nss_index /\ h2n_nss_index \in Int
    BY SizeAssumption DEF Init, Slots
<1> QED  BY <1>1, <1>2, <1>3

LEMMA HoldInit == Init => HoldInv
<1> SUFFICES ASSUME Init PROVE HoldInv
    OBVIOUS
<1>1. TypeOK /\ InFlightCount = 0
    BY InitEmpty
<1>2. FilledInv /\ OwnerInv
    BY DEF Init, FilledInv, OwnerInv, Holding
<1>3. TakenSeq
  <2>1. << >> \in Seq({taken[i] : i \in DOMAIN taken})
      OBVIOUS
  <2> QED  BY <2>1 DEF Init, TakenSeq
<1>4. Len(Held) = 0
  <2>1. HeldSeq /\ Len(taken) = 0
      BY <1>1, <1>3, HeldAre DEF Init
  <2> QED  BY <1>1, <2>1 DEF HeldSeq
<1>5. OpaqueInv
    BY <1>4 DEF Init, OpaqueInv
<1> QED  BY <1>2, <1>3, <1>5 DEF HoldInv

\* A step that leaves the ring to the NSS leaves the pointers alone.
LEMMA OpaqueKept ==
    ASSUME TakenSeq, OpaqueInv, taken' = taken, Contents' = Contents,
           \A p \in Packets : owner'[p] = "nss" <=> owner[p] = "nss"
    PROVE  TakenSeq' /\ OpaqueInv'
<1>1. Held' = Held
    BY DEF Held
<1> QED  BY <1>1 DEF TakenSeq, OpaqueInv

\* The pointer of a packet published was not with the NSS before.
LEMMA OpaquePublished ==
    ASSUME IInv, IInv', HoldInv, NEW s \in Senders, Publish(s)
    PROVE  TakenSeq' /\ OpaqueInv'
<1> DEFINE p == nbuf[s]
           m == DescCount(p)
           l == Len(Held)
<1>0. p \in Packets /\ m \in Nat /\ owner[p] = "driver" /\ TypeOK
    BY PacketRoom DEF IInv, CallInv, Publish, HoldInv, OwnerInv
<1>1. /\ TakenSeq' /\ l \in Nat /\ Len(Held') = l + m
      /\ \A i \in 1..l : Held'[i] = Held[i]
      /\ \A j \in 1..m : Held'[l + j] = DescsOf(p)[j]
    BY HeldPublished DEF HoldInv
<1>2. owner' = [owner EXCEPT ![p] = "nss"]
    BY DEF Publish, Return
<1>3. \A i \in 1..l : Held[i].opaque # p
    BY <1>0 DEF HoldInv, OpaqueInv
<1>4. /\ OpaqueAt(p) \in 1..m /\ p # NoBuf
      /\ Held'[l + OpaqueAt(p)].opaque = p
      /\ \A j \in 1..m : /\ Held'[l + j].opaque \in {p, NoBuf}
                         /\ Held'[l + j].opaque = p => j = OpaqueAt(p)
  <2>1. OpaqueAt(p) \in 1..m /\ p # NoBuf
      BY <1>0, OnePointer, NullAssumption
  <2>2. Held'[l + OpaqueAt(p)].opaque = p
    <3>1. Held'[l + OpaqueAt(p)] = DescsOf(p)[OpaqueAt(p)]
        BY <1>1, <2>1
    <3> QED  BY <1>0, <3>1, OnePointer
  <2>3. ASSUME NEW j \in 1..m
        PROVE  /\ Held'[l + j].opaque \in {p, NoBuf}
               /\ Held'[l + j].opaque = p => j = OpaqueAt(p)
    <3>1. Held'[l + j] = DescsOf(p)[j]
        BY <1>1
    <3> QED  BY <1>0, <3>1, OnePointer
  <2> QED  BY <2>1, <2>2, <2>3
<1> HIDE DEF p, m, l
<1>5. ASSUME NEW i \in 1..(l + m)
      PROVE  i \in 1..l \/ \E j \in 1..m : i = l + j
  <2>1. CASE i <= l
      BY <1>1, <2>1
  <2>2. CASE ~ i <= l
    <3>1. i - l \in 1..m /\ i = l + (i - l)
        BY <1>0, <1>1, <2>2
    <3> QED  BY <3>1
  <2> QED  BY <2>1, <2>2
<1>6. ASSUME NEW i \in 1..(l + m), NEW j \in 1..(l + m),
             Held'[i].opaque = Held'[j].opaque, Held'[i].opaque # NoBuf
      PROVE  i = j
  <2>1. CASE i \in 1..l /\ j \in 1..l
      BY <1>1, <1>6, <2>1 DEF HoldInv, OpaqueInv, l
  <2>2. ASSUME NEW a \in 1..m, NEW b \in 1..m, i = l + a, j = l + b
        PROVE  i = j
      BY <1>4, <1>6, <2>2
  <2>3. ASSUME NEW a \in 1..m, i = l + a, j \in 1..l
        PROVE  FALSE
      BY <1>1, <1>3, <1>4, <1>6, <2>3
  <2>4. ASSUME NEW b \in 1..m, j = l + b, i \in 1..l
        PROVE  FALSE
      BY <1>1, <1>3, <1>4, <1>6, <2>4
  <2> QED  BY <1>5, <2>1, <2>2, <2>3, <2>4
<1>7. ASSUME NEW q \in Packets
      PROVE  owner'[q] = "nss" <=> \E i \in 1..(l + m) : Held'[i].opaque = q
  <2>0. l + OpaqueAt(p) \in 1..(l + m) /\ 1..l \subseteq 1..(l + m)
      BY <1>0, <1>1, <1>4
  <2>1. CASE q = p
      BY <1>0, <1>2, <1>4, <2>0, <2>1 DEF TypeOK
  <2>2. CASE q # p
    <3>1. owner'[q] = owner[q]
        BY <1>2, <2>2
    <3>2. owner[q] = "nss" <=> \E i \in 1..l : Held[i].opaque = q
        BY DEF HoldInv, OpaqueInv, l
    <3>3. q # NoBuf
        BY NullAssumption
    <3>4. ASSUME NEW i \in 1..(l + m), Held'[i].opaque = q
          PROVE  i \in 1..l
        BY <1>4, <1>5, <2>2, <3>3, <3>4
    <3> QED  BY <1>1, <2>0, <3>1, <3>2, <3>4
  <2> QED  BY <2>1, <2>2
<1>8. OpaqueInv'
    BY <1>1, <1>6, <1>7 DEF OpaqueInv
<1> QED  BY <1>1, <1>8

\* What the NSS gives back is no longer held, and was no one else's.
LEMMA OpaqueTaken ==
    ASSUME IInv, IInv', HoldInv, FirmwareTake
    PROVE  HoldInv'
<1> DEFINE m == Len(taken) + 1
           l == Len(Held)
           done == {Held[i].opaque : i \in 1..m} \ {NoBuf}
<1>0. TypeOK /\ CallInv
    BY DEF IInv
<1>1. /\ TakenSeq' /\ m \in 1..l /\ l \in Nat
      /\ ~ Held[m].last =>
            /\ Len(Held') = l
            /\ \A i \in 1..l : Held'[i] = Held[i]
            /\ UNCHANGED owner
      /\ Held[m].last =>
            /\ Len(Held') = l - m
            /\ \A i \in 1..Len(Held') : Held'[i] = Held[m + i]
            /\ owner' = [p \in Packets |-> IF p \in done THEN "host" ELSE owner[p]]
    BY HeldTaken DEF HoldInv
<1>2. FilledInv'
    BY DEF FirmwareTake, HoldInv, FilledInv, Holding, Advance
<1>3. CASE ~ Held[m].last
  <2>1. OpaqueInv'
      BY <1>1, <1>3 DEF HoldInv, OpaqueInv
  <2>2. OwnerInv'
      BY <1>1, <1>3 DEF FirmwareTake, HoldInv, OwnerInv
  <2> QED  BY <1>1, <1>2, <2>1, <2>2 DEF HoldInv
<1>4. CASE Held[m].last
  <2>1. \A p \in Packets : p \in done => owner[p] = "nss"
      BY <1>1 DEF HoldInv, OpaqueInv
  <2>2. OwnerInv'
    <3>1. ASSUME NEW s \in Senders, pc[s] # "idle"
          PROVE  owner'[nbuf[s]] = "driver"
      <4>1. nbuf[s] \in Packets /\ owner[nbuf[s]] = "driver"
          BY <1>0, <3>1 DEF CallInv, HoldInv, OwnerInv
      <4> QED  BY <1>1, <1>4, <2>1, <4>1
    <3> QED  BY <3>1 DEF FirmwareTake, HoldInv, OwnerInv
  <2>3. \A i \in 1..(l - m) : m + i \in 1..l
      BY <1>1
  <2>4. \A i \in 1..l : i \in 1..m \/ (i - m \in 1..(l - m) /\ i = m + (i - m))
      BY <1>1
  <2>5. ASSUME NEW i \in 1..(l - m), NEW j \in 1..(l - m),
               Held'[i].opaque = Held'[j].opaque, Held'[i].opaque # NoBuf
        PROVE  i = j
    <3>1. Held'[i] = Held[m + i] /\ Held'[j] = Held[m + j]
        BY <1>1, <1>4
    <3>2. m + i \in 1..l /\ m + j \in 1..l
        BY <2>3
    <3> HIDE DEF l, m
    <3>3. m + i = m + j
        BY <2>5, <3>1, <3>2 DEF HoldInv, OpaqueInv, l
    <3>4. m \in Int
        BY <1>1
    <3> QED  BY <3>3, <3>4
  <2>6. ASSUME NEW p \in Packets
        PROVE  owner'[p] = "nss" <=> \E i \in 1..(l - m) : Held'[i].opaque = p
    <3>0. p # NoBuf
        BY NullAssumption
    <3>1. ASSUME owner'[p] = "nss"
          PROVE  \E i \in 1..(l - m) : Held'[i].opaque = p
      <4>1. owner[p] = "nss" /\ p \notin done
          BY <1>1, <1>4, <3>1
      <4>2. PICK k \in 1..l : Held[k].opaque = p
          BY <4>1 DEF HoldInv, OpaqueInv
      <4>3. k \notin 1..m
          BY <3>0, <4>1, <4>2
      <4>4. k - m \in 1..(l - m) /\ k = m + (k - m)
          BY <2>4, <4>3
      <4> QED  BY <1>1, <1>4, <4>2, <4>4
    <3>2. ASSUME NEW i \in 1..(l - m), Held'[i].opaque = p
          PROVE  owner'[p] = "nss"
      <4>1. m + i \in 1..l /\ Held[m + i].opaque = p
          BY <1>1, <1>4, <2>3, <3>2
      <4>2. owner[p] = "nss"
          BY <4>1 DEF HoldInv, OpaqueInv
      <4>3. ASSUME NEW k \in 1..m, Held[k].opaque = p
            PROVE  FALSE
        <5>1. k \in 1..l /\ k < m + i
            BY <1>1
        <5>2. k = m + i
            BY <3>0, <4>1, <4>3, <5>1 DEF HoldInv, OpaqueInv
        <5> QED  BY <5>1, <5>2
      <4>4. p \notin done
          BY <4>3
      <4> QED  BY <1>1, <1>4, <4>2, <4>4
    <3> QED  BY <3>1, <3>2
  <2>7. OpaqueInv'
    <3>1. Len(Held') = l - m
        BY <1>1, <1>4
    <3> QED  BY <2>5, <2>6, <3>1 DEF OpaqueInv
  <2> QED  BY <1>1, <1>2, <2>2, <2>7 DEF HoldInv
<1> QED  BY <1>3, <1>4

\* A segment is written behind those already there, and not on any of them.
LEMMA SegmentFilled ==
    ASSUME IInv, HoldInv, NEW s \in Senders, MapSegment(s)
    PROVE  FilledInv' /\ OwnerInv'
<1> DEFINE k == written[s]
<1>1. /\ TypeOK /\ Holding(s) /\ k \in Nat /\ nbuf[s] \in Packets
      /\ hlos_index \in Slots /\ DOMAIN desc = Slots
      /\ k < DescCount(nbuf[s]) /\ DescCount(nbuf[s]) \in Nat
    BY PacketRoom DEF IInv, TypeOK, CallInv, MapSegment, Holding
<1>2. DescCount(nbuf[s]) < Size
    BY <1>1, PacketRoom, CountType, SizeAssumption DEF IInv, RoomInv
<1>3. \A r \in Senders : Holding(r)' => r = s
    BY <1>1 DEF IInv, TypeOK, LockInv, MapSegment, Holding
<1>4. ASSUME NEW j \in 0..k
      PROVE  desc'[Advance(hlos_index, j)] = SegmentDesc(nbuf[s], j)
  <2>1. j \in Nat /\ j < Size /\ k < Size
      BY <1>1, <1>2, SizeAssumption
  <2>2. Advance(hlos_index, j) \in Slots
      BY <1>1, <2>1, InFlightSlot
  <2>3. CASE j = k
      BY <1>1, <2>2, <2>3 DEF MapSegment
  <2>4. CASE j # k
    <3>1. Advance(hlos_index, j) # Advance(hlos_index, k)
        BY <1>1, <2>1, <2>4, DifferentSlots
    <3>2. j \in 0..(k - 1)
        BY <1>1, <2>4
    <3>3. desc[Advance(hlos_index, j)] = SegmentDesc(nbuf[s], j)
        BY <1>1, <3>2 DEF HoldInv, FilledInv
    <3> QED  BY <2>2, <3>1, <3>3 DEF MapSegment
  <2> QED  BY <2>3, <2>4
<1>5. /\ written'[s] = k + 1 /\ nbuf' = nbuf /\ hlos_index' = hlos_index
      /\ pc'[s] = "publish" => k + 1 = DescCount(nbuf[s])
    BY <1>1 DEF MapSegment, TypeOK
<1>6. 0..(written'[s] - 1) = 0..k
    BY <1>1, <1>5
<1>7. FilledInv'
  <2>1. \A j \in 0..(written'[s] - 1) :
            desc'[Advance(hlos_index, j)'] = SegmentDesc(nbuf'[s], j)
      BY <1>4, <1>5, <1>6 DEF Advance
  <2> QED  BY <1>3, <1>5, <2>1 DEF FilledInv
<1>8. OwnerInv'
    BY <1>1 DEF MapSegment, HoldInv, OwnerInv, TypeOK
<1> QED  BY <1>7, <1>8

\* A step of a sender that publishes nothing, or of no one, leaves the contents.
LEMMA SenderKeeps ==
    ASSUME IInv, IInv', NEW s \in Senders, Send(s), ~ Publish(s)
    PROVE  Contents' = Contents /\ taken' = taken
<1>1. TypeOK /\ TypeOK'
    BY DEF IInv
<1>2. CASE MapSegment(s)
  <2>1. /\ Holding(s) /\ written[s] \in Nat /\ written[s] < DescCount(nbuf[s])
        /\ DOMAIN desc = Slots
      BY <1>2 DEF MapSegment, Holding, IInv, TypeOK, CallInv
  <2>2. ~ InFlight(Advance(hlos_index, written[s]))
      BY <2>1, WritesOutside
  <2>3. \A i \in Slots : InFlight(i) => desc'[i] = desc[i]
      BY <1>2, <2>1, <2>2 DEF MapSegment
  <2> QED  BY <1>1, <1>2, <2>3, ContentsKept DEF MapSegment
<1>3. CASE UNCHANGED << desc, h2n_hlos_index, h2n_nss_index, taken >>
    BY <1>1, <1>3, ContentsKept
<1> QED  BY <1>2, <1>3 DEF Send, Call, LockAndFit, LockAndFull, QueueFull, MapFailure

LEMMA HoldNext ==
    ASSUME IInv, IInv', HoldInv, [Next]_vars
    PROVE  HoldInv'
<1>0. TypeOK /\ TypeOK' /\ LockInv /\ CallInv
    BY DEF IInv
<1>1. ASSUME NEW s \in Senders, Publish(s)
      PROVE  HoldInv'
  <2>1. /\ nbuf[s] \in Packets /\ Holding(s)
        /\ \A r \in Senders : Holding(r) => r = s
      BY <1>0, <1>1 DEF Publish, CallInv, LockInv, Holding
  <2>2. FilledInv'
      BY <1>0, <1>1, <2>1 DEF Publish, Return, FilledInv, Holding, TypeOK
  <2>3. OwnerInv'
      BY <1>0, <1>1, <2>1 DEF Publish, Return, HoldInv, OwnerInv, TypeOK
  <2> QED  BY <1>1, <2>2, <2>3, OpaquePublished DEF HoldInv
<1>2. ASSUME NEW s \in Senders, Send(s), ~ Publish(s)
      PROVE  HoldInv'
  <2>1. FilledInv' /\ OwnerInv'
      BY <1>0, <1>2, FilledKept, SegmentFilled DEF HoldInv, Send
  <2>2. \A p \in Packets : owner'[p] = "nss" <=> owner[p] = "nss"
    <3>1. ASSUME NEW p \in Packets, Call(s, p)
          PROVE  \A q \in Packets : owner'[q] = "nss" <=> owner[q] = "nss"
        BY <1>0, <3>1 DEF Call, TypeOK
    <3>2. CASE QueueFull(s) \/ MapFailure(s)
      <4>1. owner[nbuf[s]] = "driver" /\ owner' = [owner EXCEPT ![nbuf[s]] = "host"]
          BY <3>2 DEF QueueFull, MapFailure, Return, HoldInv, OwnerInv
      <4> QED  BY <1>0, <4>1 DEF TypeOK
    <3>3. CASE owner' = owner
        BY <3>3
    <3> QED  BY <1>2, <3>1, <3>2, <3>3 DEF Send, LockAndFit, LockAndFull, MapSegment
  <2>3. TakenSeq' /\ OpaqueInv'
      BY <1>2, <2>2, SenderKeeps, OpaqueKept DEF HoldInv
  <2> QED  BY <2>1, <2>3 DEF HoldInv
<1>3. CASE FirmwareTake
    BY <1>3, OpaqueTaken
<1>4. CASE TxUnblocked \/ UNCHANGED vars
  <2>1. UNCHANGED << desc, hlos_index, h2n_hlos_index, h2n_nss_index, taken, owner,
                     pc, nbuf, written >>
      BY <1>4 DEF TxUnblocked, vars
  <2>2. FilledInv' /\ OwnerInv'
      BY <2>1 DEF HoldInv, FilledInv, OwnerInv, Holding, Advance
  <2>3. Contents' = Contents
      BY <1>0, <2>1, ContentsKept
  <2>4. TakenSeq' /\ OpaqueInv'
      BY <2>1, <2>3, OpaqueKept DEF HoldInv
  <2> QED  BY <2>2, <2>4 DEF HoldInv
<1> QED  BY <1>1, <1>2, <1>3, <1>4 DEF Next

LEMMA Holds == Spec => [](IInv /\ HoldInv)
<1>1. IInv /\ HoldInv /\ [Next]_vars => (IInv /\ HoldInv)'
    BY NextInv, HoldNext
<1> QED  BY <1>1, InitInv, HoldInit, PTL DEF Spec

\* The N2H completion path frees each sk_buff once: whichever descriptor of a
\* scattered packet carries the opaque pointer, and whatever fails on the way,
\* the NSS has it once while it owns the packet, and never otherwise.
THEOREM Pointers == Spec => []OpaqueOnce
<1>1. IInv /\ HoldInv => OpaqueOnce
  <2> SUFFICES ASSUME IInv, HoldInv, NEW p \in Packets
               PROVE  Cardinality({i \in DOMAIN Held : Held[i].opaque = p})
                        = IF owner[p] = "nss" THEN 1 ELSE 0
      BY DEF OpaqueOnce
  <2>1. DOMAIN Held = 1..Len(Held)
      BY HeldAre DEF IInv, HoldInv, HeldSeq
  <2>2. CASE owner[p] = "nss"
    <3>1. PICK i \in 1..Len(Held) : Held[i].opaque = p
        BY <2>2 DEF HoldInv, OpaqueInv
    <3>2. {j \in DOMAIN Held : Held[j].opaque = p} = {i}
        BY <2>1, <3>1, NullAssumption DEF HoldInv, OpaqueInv
    <3> QED  BY <2>2, <3>2, FS_Singleton
  <2>3. CASE owner[p] # "nss"
    <3>1. {j \in DOMAIN Held : Held[j].opaque = p} = {}
        BY <2>1, <2>3 DEF HoldInv, OpaqueInv
    <3> QED  BY <2>3, <3>1, FS_EmptySet
  <2> QED  BY <2>2, <2>3
<1> QED  BY <1>1, Holds, PTL

\* A ring of any size is a bounded first-in first-out channel of whole packets:
\* every step of a sender appends the descriptors of one packet or nothing,
\* every step of the NSS takes the oldest one.
THEOREM Refinement == Spec => ImplementsDescFifo
<1>1. Init => Fifo!Init
  <2> SUFFICES ASSUME Init PROVE Contents = << >>
      BY DEF Fifo!Init
  <2>1. InFlightCount = 0
      BY InitEmpty
  <2> QED  BY <2>1 DEF Contents
<1>2. IInv /\ HoldInv /\ IInv' /\ [Next]_vars => [Fifo!Next]_Contents
  <2> SUFFICES ASSUME IInv, HoldInv, IInv', [Next]_vars
               PROVE  Contents' = Contents \/ Fifo!Next
      OBVIOUS
  <2>1. ASSUME NEW s \in Senders, Publish(s)
        PROVE  Fifo!Next
    <3>1. nbuf[s] \in Packets
        BY <2>1 DEF IInv, CallInv, Publish
    <3>2. Len(DescsOf(nbuf[s])) = DescCount(nbuf[s])
      <4> DEFINE D == {DescsOf(nbuf[s])[j] : j \in 1..DescCount(nbuf[s])}
      <4>1. \A j \in 1..DescCount(nbuf[s]) : DescsOf(nbuf[s])[j] \in D
          OBVIOUS
      <4> HIDE DEF D
      <4> QED  BY <3>1, <4>1, DescsAre
    <3>3. Fifo!Send(nbuf[s])
        BY <2>1, <3>2, ContentsPublished DEF Fifo!Send, HoldInv
    <3> QED  BY <3>1, <3>3 DEF Fifo!Next
  <2>2. ASSUME NEW s \in Senders, Send(s), ~ Publish(s)
        PROVE  Contents' = Contents
      BY <2>2, SenderKeeps
  <2>3. CASE FirmwareTake
      BY <2>3, ContentsTaken DEF Fifo!Next, Fifo!Take
  <2>4. CASE TxUnblocked \/ UNCHANGED vars
    <3>1. UNCHANGED << desc, h2n_hlos_index, h2n_nss_index >>
        BY <2>4 DEF TxUnblocked, vars
    <3> QED  BY <3>1, ContentsKept DEF IInv
  <2> QED  BY <2>1, <2>2, <2>3, <2>4 DEF Next
<1> QED  BY <1>1, <1>2, Holds, PTL DEF Spec, ImplementsDescFifo, Fifo!Spec

(***************************************************************************)
(* Mappings.                                                               *)
(***************************************************************************)

\* The NSS holds all the descriptors of p, behind the first a ones it holds.
Copy(p, a) ==
    /\ a + DescCount(p) <= Len(Held)
    /\ \A j \in 1..DescCount(p) : Held[a + j] = DescsOf(p)[j]

\* Each descriptor the NSS holds is one of a packet it holds all of.
WholeInv ==
    \A i \in 1..Len(Held) :
        \E p \in Packets, a \in 0..Len(Held) :
            a < i /\ i <= a + DescCount(p) /\ Copy(p, a)

\* A mapping is one of a packet that is with the NSS, or of a segment that has
\* been written by the send in progress; and those are all mapped.
MapInv ==
    /\ mapped \subseteq Packets \X Nat
    /\ \A b \in mapped : owner[b[1]] # "host"
    /\ \A s \in Senders :
            /\ pc[s] # "idle" =>
                    \A b \in mapped : b[1] = nbuf[s] => Holding(s) /\ b[2] < written[s]
            /\ Holding(s) => \A k \in 0..(written[s] - 1) : << nbuf[s], k >> \in mapped
    /\ \A i \in 1..Len(Held) : Held[i].buffer \in mapped

\* What the unwinding of a failed send gets right: nothing is refused after it
\* was mapped, and at most one segment is unmapped.
UnwindsRight ==
    \A p \in Packets : /\ p.kind = "fraglist" => p.paged = 0
                       /\ DmaMayFail /\ Scattered(p) => p.segs <= 1

\* What the copy of a packet says.
LEMMA CopySays ==
    ASSUME IInv, HoldInv, NEW p \in Packets, NEW a \in Nat, Copy(p, a)
    PROVE  /\ Len(Held) \in Nat /\ DescCount(p) \in Nat /\ DescCount(p) > 0
           /\ owner[p] = "nss"
           /\ \A j \in 1..DescCount(p) :
                /\ a + j \in 1..Len(Held)
                /\ Held[a + j].buffer = << p, j - 1 >>
                /\ Held[a + j].last <=> j = DescCount(p)
                /\ Held[a + j].opaque \in {p, NoBuf}
           /\ \A b \in Nat : Copy(p, b) => a = b
<1>1. Len(Held) \in Nat /\ DescCount(p) \in Nat /\ DescCount(p) > 0
  <2>1. HeldSeq /\ InFlightCount \in Nat
      BY HeldAre, CountType, SizeAssumption DEF IInv, HoldInv
  <2> QED  BY <2>1, PacketRoom DEF HeldSeq
<1>2. ASSUME NEW j \in 1..DescCount(p)
      PROVE  /\ a + j \in 1..Len(Held)
             /\ Held[a + j].buffer = << p, j - 1 >>
             /\ Held[a + j].last <=> j = DescCount(p)
             /\ Held[a + j].opaque \in {p, NoBuf}
  <2>1. a + j \in 1..Len(Held)
      BY <1>1 DEF Copy
  <2>2. Held[a + j] = DescsOf(p)[j]
      BY DEF Copy
  <2> QED  BY <2>1, <2>2, DescsSay, OnePointer
<1>3. /\ OpaqueAt(p) \in 1..DescCount(p)
      /\ Held[a + OpaqueAt(p)].opaque = p /\ p # NoBuf
    BY OnePointer, NullAssumption DEF Copy
<1>4. owner[p] = "nss"
    BY <1>2, <1>3 DEF HoldInv, OpaqueInv
<1>5. ASSUME NEW b \in Nat, Copy(p, b)
      PROVE  a = b
  <2>1. Held[b + OpaqueAt(p)].opaque = p
      BY <1>3, <1>5, OnePointer DEF Copy
  <2>2. b + OpaqueAt(p) \in 1..Len(Held)
      BY <1>1, <1>3, <1>5 DEF Copy
  <2>3. a + OpaqueAt(p) = b + OpaqueAt(p)
      BY <1>2, <1>3, <2>1, <2>2 DEF HoldInv, OpaqueInv
  <2> QED  BY <1>3, <2>3
<1> QED  BY <1>1, <1>2, <1>4, <1>5

\* The buffers the NSS holds are of packets it owns.
LEMMA HeldOwned ==
    ASSUME IInv, HoldInv, WholeInv, NEW i \in 1..Len(Held)
    PROVE  Held[i].buffer[1] \in Packets /\ owner[Held[i].buffer[1]] = "nss"
<1>1. PICK p \in Packets, a \in 0..Len(Held) :
            a < i /\ i <= a + DescCount(p) /\ Copy(p, a)
    BY DEF WholeInv
<1>2. a \in Nat
    OBVIOUS
<1>3. i - a \in 1..DescCount(p) /\ i = a + (i - a)
    BY <1>1, <1>2, CopySays
<1>4. Held[i].buffer = << p, (i - a) - 1 >> /\ owner[p] = "nss"
    BY <1>1, <1>2, <1>3, CopySays
<1> QED  BY <1>4

\* When the last descriptor of a packet is taken, the ones taken so far are
\* those of this packet, and no packet held lies across the border.
LEMMA WholeTaken ==
    ASSUME IInv, HoldInv, WholeInv, NEW m \in 1..Len(Held),
           \A i \in 1..(m - 1) : ~ Held[i].last, Held[m].last
    PROVE  \E p \in Packets :
                /\ \A i \in 1..m : Held[i].opaque \in {p, NoBuf}
                /\ \A q \in Packets, b \in Nat :
                        Copy(q, b) => \/ b >= m /\ q # p
                                      \/ b + DescCount(q) = m
<1>1. ASSUME NEW q \in Packets, NEW b \in Nat, Copy(q, b), b < m
      PROVE  b + DescCount(q) = m
  <2>1. /\ DescCount(q) \in 1..DescCount(q) /\ DescCount(q) \in Nat
        /\ b + DescCount(q) \in 1..Len(Held)
        /\ Held[b + DescCount(q)].last
      BY <1>1, CopySays
  <2>2. ~ (b + DescCount(q) < m)
      BY <2>1
  <2>3. ASSUME b + DescCount(q) > m
        PROVE  FALSE
    <3>1. m - b \in 1..DescCount(q) /\ m = b + (m - b) /\ m - b # DescCount(q)
        BY <1>1, <2>1, <2>3
    <3>2. Held[b + (m - b)].last <=> m - b = DescCount(q)
        BY <1>1, <3>1, CopySays
    <3> QED  BY <3>1, <3>2
  <2> QED  BY <2>1, <2>2, <2>3
<1>2. PICK p \in Packets, a \in 0..Len(Held) :
            a < m /\ m <= a + DescCount(p) /\ Copy(p, a)
    BY DEF WholeInv
<1>3. a \in Nat /\ a + DescCount(p) = m
    BY <1>1, <1>2
<1>4. ASSUME NEW q \in Packets, NEW b \in Nat, Copy(q, b), b + DescCount(q) = m
      PROVE  q = p
  <2>1. Held[m].buffer = << q, DescCount(q) - 1 >>
    <3>1. DescCount(q) \in 1..DescCount(q)
        BY <1>4, CopySays
    <3>2. Held[b + DescCount(q)].buffer = << q, DescCount(q) - 1 >>
        BY <1>4, <3>1, CopySays
    <3> QED  BY <1>4, <3>2
  <2>2. Held[m].buffer = << p, DescCount(p) - 1 >>
    <3>1. DescCount(p) \in 1..DescCount(p)
        BY <1>2, <1>3, CopySays
    <3>2. Held[a + DescCount(p)].buffer = << p, DescCount(p) - 1 >>
        BY <1>2, <1>3, <3>1, CopySays
    <3> QED  BY <1>3, <3>2
  <2> QED  BY <2>1, <2>2
<1>5. ASSUME NEW i \in 1..m
      PROVE  Held[i].opaque \in {p, NoBuf}
  <2>1. i \in 1..Len(Held)
      BY CopySays, <1>2, <1>3
  <2>2. PICK q \in Packets, b \in 0..Len(Held) :
            b < i /\ i <= b + DescCount(q) /\ Copy(q, b)
      BY <2>1 DEF WholeInv
  <2>3. b \in Nat /\ b < m
      BY <2>2
  <2>4. q = p
      BY <1>1, <1>4, <2>2, <2>3
  <2>5. i - b \in 1..DescCount(q) /\ i = b + (i - b)
      BY <2>2, <2>3, CopySays
  <2> QED  BY <2>2, <2>3, <2>4, <2>5, CopySays
<1>6. ASSUME NEW q \in Packets, NEW b \in Nat, Copy(q, b), b + DescCount(q) # m
      PROVE  b >= m /\ q # p
  <2>1. b >= m
      BY <1>1, <1>6
  <2>2. q # p
      BY <1>2, <1>3, <1>6, CopySays
  <2> QED  BY <2>1, <2>2
<1> QED  BY <1>5, <1>6

LEMMA WholePublished ==
    ASSUME IInv, IInv', HoldInv, WholeInv, NEW s \in Senders, Publish(s)
    PROVE  WholeInv'
<1> DEFINE p == nbuf[s]
           m == DescCount(p)
           l == Len(Held)
<1>0. p \in Packets /\ m \in Nat /\ m > 0
    BY PacketRoom DEF IInv, CallInv, Publish
<1>1. /\ l \in Nat /\ Len(Held') = l + m
      /\ \A i \in 1..l : Held'[i] = Held[i]
      /\ \A j \in 1..m : Held'[l + j] = DescsOf(p)[j]
    BY HeldPublished DEF HoldInv
<1> HIDE DEF p, m, l
<1>2. ASSUME NEW i \in 1..l
      PROVE  \E q \in Packets, a \in 0..(l + m) :
                /\ a < i /\ i <= a + DescCount(q) /\ a + DescCount(q) <= l + m
                /\ \A j \in 1..DescCount(q) : Held'[a + j] = DescsOf(q)[j]
  <2>1. PICK q \in Packets, a \in 0..l :
            a < i /\ i <= a + DescCount(q) /\ Copy(q, a)
      BY DEF WholeInv, l
  <2>2. DescCount(q) \in Nat
      BY PacketRoom
  <2>3. a + DescCount(q) <= l /\ \A j \in 1..DescCount(q) : Held[a + j] = DescsOf(q)[j]
      BY <2>1 DEF Copy, l
  <2>4. \A j \in 1..DescCount(q) : a + j \in 1..l
      BY <1>1, <2>2, <2>3
  <2>5. a \in 0..(l + m) /\ a + DescCount(q) <= l + m
      BY <1>0, <1>1, <2>2, <2>3
  <2> QED  BY <1>1, <2>1, <2>3, <2>4, <2>5
<1>3. ASSUME NEW i \in 1..(l + m), i \notin 1..l
      PROVE  l \in 0..(l + m) /\ l < i /\ i <= l + m
    BY <1>0, <1>1, <1>3
<1>4. m = DescCount(p)
    BY DEF m
<1>5. ASSUME NEW i \in 1..(l + m)
      PROVE  \E q \in Packets, a \in 0..(l + m) :
                /\ a < i /\ i <= a + DescCount(q) /\ a + DescCount(q) <= l + m
                /\ \A j \in 1..DescCount(q) : Held'[a + j] = DescsOf(q)[j]
  <2>1. CASE i \in 1..l
      BY <1>2, <2>1
  <2>2. CASE i \notin 1..l
    <3>1. l \in 0..(l + m) /\ l < i /\ i <= l + DescCount(p) /\ l + DescCount(p) <= l + m
        BY <1>0, <1>1, <1>3, <1>4, <2>2
    <3>2. \A j \in 1..DescCount(p) : Held'[l + j] = DescsOf(p)[j]
        BY <1>1, <1>4
    <3> QED  BY <1>0, <3>1, <3>2
  <2> QED  BY <2>1, <2>2
<1> QED  BY <1>1, <1>5 DEF WholeInv, Copy

LEMMA WholeNext ==
    ASSUME IInv, IInv', HoldInv, WholeInv, [Next]_vars
    PROVE  WholeInv'
<1>1. ASSUME NEW s \in Senders, Publish(s)
      PROVE  WholeInv'
    BY <1>1, WholePublished
<1>2. ASSUME Held' = Held
      PROVE  WholeInv'
    BY <1>2 DEF WholeInv, Copy
<1>3. ASSUME NEW s \in Senders, Send(s), ~ Publish(s)
      PROVE  WholeInv'
    BY <1>2, <1>3, SenderKeeps DEF Held
<1>4. CASE TxUnblocked \/ UNCHANGED vars
  <2>1. UNCHANGED << desc, h2n_hlos_index, h2n_nss_index, taken >>
      BY <1>4 DEF TxUnblocked, vars
  <2>2. Contents' = Contents
      BY <2>1, ContentsKept DEF IInv
  <2> QED  BY <1>2, <2>1, <2>2 DEF Held
<1>5. CASE FirmwareTake
  <2> DEFINE m == Len(taken) + 1
             l == Len(Held)
             l2 == Len(Held')
  <2>1. /\ m \in 1..l /\ l \in Nat
        /\ ~ Held[m].last => l2 = l /\ \A i \in 1..l : Held'[i] = Held[i]
        /\ Held[m].last => l2 = l - m /\ \A i \in 1..l2 : Held'[i] = Held[m + i]
      BY <1>5, HeldTaken DEF HoldInv
  <2>2. \A i \in 1..(m - 1) : ~ Held[i].last
    <3>1. HeldSeq
        BY HeldAre DEF IInv, HoldInv
    <3> QED  BY <3>1 DEF HeldSeq, HoldInv, TakenSeq
  <2> HIDE DEF m, l, l2
  <2>3. CASE ~ Held[m].last
    <3>1. ASSUME NEW q \in Packets, NEW a \in 0..l, Copy(q, a)
          PROVE  a + DescCount(q) <= l2 /\ \A j \in 1..DescCount(q) : Held'[a + j] = DescsOf(q)[j]
      <4>1. DescCount(q) \in Nat /\ a + DescCount(q) <= l
          BY <3>1, PacketRoom DEF Copy, l
      <4>2. \A j \in 1..DescCount(q) : a + j \in 1..l
          BY <2>1, <4>1
      <4> QED  BY <2>1, <2>3, <3>1, <4>1, <4>2 DEF Copy
    <3>2. ASSUME NEW i \in 1..l2
          PROVE  \E q \in Packets, a \in 0..l2 :
                    /\ a < i /\ i <= a + DescCount(q) /\ a + DescCount(q) <= l2
                    /\ \A j \in 1..DescCount(q) : Held'[a + j] = DescsOf(q)[j]
        BY <2>1, <2>3, <3>1 DEF WholeInv, l
    <3> QED  BY <3>2 DEF WholeInv, Copy, l2
  <2>4. CASE Held[m].last
    <3>1. PICK p \in Packets :
            \A q \in Packets, b \in Nat :
                Copy(q, b) => \/ b >= m /\ q # p
                              \/ b + DescCount(q) = m
        BY <2>1, <2>2, <2>4, WholeTaken DEF l
    <3>2. ASSUME NEW i \in 1..l2
          PROVE  \E q \in Packets, a \in 0..l2 :
                    /\ a < i /\ i <= a + DescCount(q) /\ a + DescCount(q) <= l2
                    /\ \A j \in 1..DescCount(q) : Held'[a + j] = DescsOf(q)[j]
      <4>1. m + i \in 1..l /\ l2 = l - m /\ m \in Nat /\ l2 \in Nat /\ l \in Nat
          BY <2>1, <2>4
      <4>2. PICK q \in Packets, b \in 0..l :
                b < m + i /\ m + i <= b + DescCount(q) /\ Copy(q, b)
          BY <4>1 DEF WholeInv, l
      <4>3. b \in Nat /\ DescCount(q) \in Nat /\ b + DescCount(q) <= l
          BY <4>2, PacketRoom DEF Copy, l
      <4>4. b >= m
          BY <3>1, <4>1, <4>2, <4>3
      <4>5. /\ b - m \in 0..l2 /\ b - m < i /\ i <= (b - m) + DescCount(q)
            /\ (b - m) + DescCount(q) <= l2
          BY <4>1, <4>2, <4>3, <4>4
      <4>6. ASSUME NEW j \in 1..DescCount(q)
            PROVE  Held'[(b - m) + j] = DescsOf(q)[j]
        <5>1. (b - m) + j \in 1..l2 /\ m + ((b - m) + j) = b + j
            BY <4>1, <4>3, <4>5
        <5> QED  BY <2>1, <2>4, <4>2, <5>1 DEF Copy
      <4> QED  BY <4>5, <4>6
    <3> QED  BY <3>2 DEF WholeInv, Copy, l2
  <2> QED  BY <2>3, <2>4
<1> QED  BY <1>1, <1>3, <1>4, <1>5 DEF Next

\* The steps of a call that neither map nor unmap.
LEMMA MappingsKept ==
    ASSUME IInv, IInv', HoldInv, MapInv, NEW s \in Senders,
           \/ \E p \in Packets : Call(s, p)
           \/ LockAndFit(s) \/ LockAndFull(s) \/ QueueFull(s)
    PROVE  MapInv'
<1>0. TypeOK /\ CallInv /\ OwnerInv
    BY DEF IInv, HoldInv
<1>1. Held' = Held /\ mapped' = mapped
  <2>1. Contents' = Contents /\ taken' = taken
    <3>1. Send(s) /\ ~ Publish(s)
        BY DEF Send, Call, LockAndFit, LockAndFull, QueueFull, Publish
    <3> QED  BY <3>1, SenderKeeps
  <2> QED  BY <2>1 DEF Held, Call, LockAndFit, LockAndFull, QueueFull
<1>2. \A i \in 1..Len(Held') : Held'[i].buffer \in mapped'
    BY <1>1 DEF MapInv
<1>3. ASSUME NEW p \in Packets, Call(s, p)
      PROVE  MapInv'
    BY <1>0, <1>1, <1>2, <1>3 DEF Call, MapInv, TypeOK, Holding
<1>4. CASE LockAndFit(s)
  <2>1. written[s] = 0 /\ ~ Holding(s)
      BY <1>0, <1>4 DEF LockAndFit, CallInv, Holding
  <2> QED  BY <1>0, <1>1, <1>2, <1>4, <2>1 DEF LockAndFit, MapInv, TypeOK, Holding
<1>5. CASE LockAndFull(s)
    BY <1>0, <1>1, <1>2, <1>5 DEF LockAndFull, MapInv, TypeOK, Holding
<1>6. CASE QueueFull(s)
  <2>1. \A b \in mapped : b[1] # nbuf[s]
      BY <1>6 DEF QueueFull, MapInv, Holding
  <2>2. /\ \A b \in mapped : owner'[b[1]] # "host"
        /\ mapped \subseteq Packets \X Nat
      BY <1>6, <2>1 DEF QueueFull, Return, MapInv
  <2>3. ASSUME NEW r \in Senders
        PROVE  /\ pc'[r] # "idle" =>
                     \A b \in mapped : b[1] = nbuf'[r] => Holding(r)' /\ b[2] < written'[r]
               /\ Holding(r)' => \A k \in 0..(written'[r] - 1) : << nbuf'[r], k >> \in mapped
      BY <1>0, <1>6 DEF QueueFull, Return, MapInv, TypeOK, Holding
  <2> QED  BY <1>1, <1>2, <2>2, <2>3 DEF MapInv
<1> QED  BY <1>3, <1>4, <1>5, <1>6

LEMMA MappingAdded ==
    ASSUME IInv, IInv', HoldInv, MapInv, NEW s \in Senders, MapSegment(s)
    PROVE  MapInv'
<1> DEFINE p == nbuf[s]
           k == written[s]
<1>0. /\ TypeOK /\ p \in Packets /\ k \in Nat /\ owner[p] = "driver" /\ Holding(s)
      /\ \A r \in Senders : Holding(r) => r = s
      /\ \A r \in Senders : pc[r] # "idle" /\ r # s => nbuf[r] # p
    BY DEF IInv, CallInv, LockInv, HoldInv, OwnerInv, MapSegment, TypeOK, Holding
<1>1. Held' = Held
  <2>1. Send(s) /\ ~ Publish(s)
      BY DEF Send, MapSegment, Publish
  <2> QED  BY <2>1, SenderKeeps DEF Held
<1>2. /\ mapped' = mapped \cup {<< p, k >>} /\ owner' = owner /\ nbuf' = nbuf
      /\ written' = [written EXCEPT ![s] = k + 1] /\ pc'[s] \in {"map", "publish"}
      /\ \A r \in Senders : r # s => pc'[r] = pc[r]
    BY <1>0 DEF MapSegment, TypeOK
<1>3. /\ mapped' \subseteq Packets \X Nat
      /\ \A b \in mapped' : owner'[b[1]] # "host"
    BY <1>0, <1>2 DEF MapInv
<1>4. ASSUME NEW r \in Senders, r # s
      PROVE  /\ pc'[r] # "idle" =>
                   \A b \in mapped' : b[1] = nbuf'[r] => Holding(r)' /\ b[2] < written'[r]
             /\ ~ Holding(r)'
    BY <1>0, <1>2, <1>4 DEF MapInv, Holding
<1>5. \A b \in mapped' : b[1] = p => b[2] < k + 1
    BY <1>0, <1>2 DEF MapInv, MapSegment
<1>6. \A j \in 0..((k + 1) - 1) : << p, j >> \in mapped'
  <2>1. \A j \in 0..((k + 1) - 1) : j \in 0..(k - 1) \/ j = k
      BY <1>0
  <2> QED  BY <1>0, <1>2, <2>1 DEF MapInv
<1>7. written'[s] = k + 1 /\ Holding(s)'
    BY <1>0, <1>2 DEF TypeOK, Holding
<1>8. \A i \in 1..Len(Held') : Held'[i].buffer \in mapped'
    BY <1>1, <1>2 DEF MapInv
<1> QED  BY <1>2, <1>3, <1>4, <1>5, <1>6, <1>7, <1>8 DEF MapInv

\* A send that fails unmaps what it has mapped, and nothing the NSS holds.
LEMMA MappingUnwound ==
    ASSUME UnwindsRight, IInv, IInv', HoldInv, WholeInv, MapInv,
           NEW s \in Senders, MapFailure(s)
    PROVE  MapInv'
<1> DEFINE p == nbuf[s]
           k == written[s]
<1>0. /\ TypeOK /\ p \in Packets /\ k \in Nat /\ owner[p] = "driver" /\ Holding(s)
      /\ k < DescCount(p)
      /\ \A r \in Senders : pc[r] # "idle" /\ r # s => nbuf[r] # p
    BY DEF IInv, CallInv, HoldInv, OwnerInv, MapFailure, TypeOK, Holding
<1>1. ~ Unsupported(p, k) /\ (Scattered(p) => p.segs <= 1)
    BY <1>0 DEF UnwindsRight, Unsupported, MapFailure
<1>2. k = 0 \/ k = 1
    BY <1>0, <1>1, PacketAssumption DEF DescCount
<1>3. mapped' = mapped \ {b \in mapped : b[1] = p}
  <2>0. \A b \in mapped : b = << b[1], b[2] >> /\ b[2] \in Nat
      BY DEF MapInv
  <2>1. CASE k = 0
    <3>1. mapped' = mapped
        BY <1>1, <2>1 DEF MapFailure
    <3>2. \A b \in mapped : b[1] = p => b[2] < 0
        BY <2>1 DEF MapInv, MapFailure
    <3>3. \A b \in mapped : b[1] # p
        BY <2>0, <3>2
    <3> QED  BY <3>1, <3>3
  <2>2. CASE k = 1
    <3>1. nss_core_send_unwind_dma(Advance(hlos_index, k - 1), k)
                = {desc[Advance(Advance(hlos_index, 0), 0)].buffer}
      <4>1. k - 1 = 0 /\ 0..(k - 1) = {0}
          BY <2>2
      <4> HIDE DEF k
      <4> QED  BY <4>1 DEF nss_core_send_unwind_dma
    <3>2. /\ Advance(hlos_index, 0) = hlos_index
          /\ Advance(Advance(hlos_index, 0), 0) = Advance(hlos_index, 0)
      <4>1. hlos_index \in Slots /\ hlos_index \in Nat /\ hlos_index < Size
          BY <1>0, SizeAssumption DEF TypeOK, Slots
      <4>2. Advance(hlos_index, 0) = hlos_index
          BY <4>1, SizeAssumption, InFlightSlot
      <4> QED  BY <4>2
    <3>3. desc[Advance(hlos_index, 0)] = SegmentDesc(p, 0)
        BY <1>0, <2>2 DEF HoldInv, FilledInv
    <3>4. SegmentDesc(p, 0).buffer = << p, 0 >>
        BY DEF SegmentDesc, NrFragsDesc, FraglistDesc, CryptoDesc, SimpleDesc,
               nss_core_write_one_descriptor
    <3>5. mapped' = mapped \ {<< p, 0 >>}
      <4>1. mapped' = mapped \ nss_core_send_unwind_dma(Advance(hlos_index, k - 1), k)
          BY <1>1, <2>2 DEF MapFailure
      <4>2. desc[Advance(Advance(hlos_index, 0), 0)].buffer = << p, 0 >>
          BY <3>2, <3>3, <3>4
      <4> QED  BY <3>1, <4>1, <4>2
    <3>6. \A b \in mapped : b[1] = p => b[2] < 1
        BY <2>2 DEF MapInv, MapFailure
    <3>7. \A b \in mapped : b[1] = p <=> b = << p, 0 >>
        BY <2>0, <3>6
    <3> QED  BY <3>5, <3>7
  <2> QED  BY <1>2, <2>1, <2>2
<1>4. Held' = Held
  <2>1. Send(s) /\ ~ Publish(s)
      BY DEF Send, MapFailure, Publish
  <2> QED  BY <2>1, SenderKeeps DEF Held
<1>5. /\ owner' = [owner EXCEPT ![p] = "host"] /\ pc'[s] = "idle"
      /\ \A r \in Senders : r # s => /\ pc'[r] = pc[r] /\ nbuf'[r] = nbuf[r]
                                     /\ written'[r] = written[r]
    BY <1>0 DEF MapFailure, Return, TypeOK
<1>6. /\ mapped' \subseteq Packets \X Nat
      /\ \A b \in mapped' : owner'[b[1]] # "host"
    BY <1>3, <1>5 DEF MapInv
<1>7. ASSUME NEW r \in Senders
      PROVE  /\ pc'[r] # "idle" =>
                   \A b \in mapped' : b[1] = nbuf'[r] => Holding(r)' /\ b[2] < written'[r]
             /\ Holding(r)' => \A j \in 0..(written'[r] - 1) : << nbuf'[r], j >> \in mapped'
  <2>1. CASE r = s
      BY <1>5, <2>1 DEF Holding
  <2>2. CASE r # s
    <3>1. pc[r] # "idle" => nbuf[r] # p
        BY <1>0, <2>2
    <3> QED  BY <1>3, <1>5, <2>2, <3>1 DEF MapInv, Holding
  <2> QED  BY <2>1, <2>2
<1>8. ASSUME NEW i \in 1..Len(Held)
      PROVE  Held'[i].buffer \in mapped'
  <2>1. Held[i].buffer[1] # p
      BY <1>0, HeldOwned
  <2> QED  BY <1>3, <1>4, <2>1 DEF MapInv
<1> QED  BY <1>4, <1>6, <1>7, <1>8 DEF MapInv

LEMMA MappingPublished ==
    ASSUME IInv, IInv', HoldInv, MapInv, NEW s \in Senders, Publish(s)
    PROVE  MapInv'
<1> DEFINE p == nbuf[s]
           m == DescCount(p)
           l == Len(Held)
<1>0. /\ TypeOK /\ p \in Packets /\ m \in Nat /\ owner[p] = "driver" /\ Holding(s)
      /\ written[s] = m
      /\ \A r \in Senders : pc[r] # "idle" /\ r # s => nbuf[r] # p
    BY PacketRoom
    DEF IInv, CallInv, HoldInv, OwnerInv, FilledInv, Publish, TypeOK, Holding
<1>1. /\ l \in Nat /\ Len(Held') = l + m
      /\ \A i \in 1..l : Held'[i] = Held[i]
      /\ \A j \in 1..m : Held'[l + j] = DescsOf(p)[j]
    BY HeldPublished DEF HoldInv
<1>2. /\ owner' = [owner EXCEPT ![p] = "nss"] /\ pc'[s] = "idle" /\ mapped' = mapped
      /\ \A r \in Senders : r # s => /\ pc'[r] = pc[r] /\ nbuf'[r] = nbuf[r]
                                     /\ written'[r] = written[r]
    BY <1>0 DEF Publish, Return, TypeOK
<1>3. \A b \in mapped' : owner'[b[1]] # "host"
    BY <1>0, <1>2 DEF MapInv, TypeOK
<1>4. ASSUME NEW r \in Senders
      PROVE  /\ pc'[r] # "idle" =>
                   \A b \in mapped' : b[1] = nbuf'[r] => Holding(r)' /\ b[2] < written'[r]
             /\ Holding(r)' => \A j \in 0..(written'[r] - 1) : << nbuf'[r], j >> \in mapped'
    BY <1>2 DEF MapInv, Holding
<1>5. ASSUME NEW i \in 1..(l + m)
      PROVE  Held'[i].buffer \in mapped'
  <2>1. CASE i <= l
      BY <1>1, <1>2, <2>1 DEF MapInv
  <2>2. CASE ~ i <= l
    <3>1. i - l \in 1..m /\ i = l + (i - l) /\ (i - l) - 1 \in 0..(m - 1)
        BY <1>0, <1>1, <2>2
    <3>2. Held'[l + (i - l)] = DescsOf(p)[i - l]
        BY <1>1, <3>1
    <3>3. Held'[i].buffer = << p, (i - l) - 1 >>
        BY <1>0, <3>1, <3>2, DescsSay
    <3>4. << p, (i - l) - 1 >> \in mapped
        BY <1>0, <3>1 DEF MapInv
    <3> QED  BY <1>2, <3>3, <3>4
  <2> QED  BY <2>1, <2>2
<1> QED  BY <1>1, <1>2, <1>3, <1>4, <1>5 DEF MapInv

\* What the NSS gives back is unmapped, and no one else's.
LEMMA MappingTaken ==
    ASSUME IInv, IInv', HoldInv, WholeInv, MapInv, FirmwareTake
    PROVE  MapInv'
<1> DEFINE m == Len(taken) + 1
           l == Len(Held)
           done == {Held[i].opaque : i \in 1..m} \ {NoBuf}
<1>0. /\ TypeOK /\ CallInv
      /\ m \in 1..l /\ l \in Nat
      /\ ~ Held[m].last =>
            /\ Len(Held') = l
            /\ \A i \in 1..l : Held'[i] = Held[i]
            /\ UNCHANGED << owner, mapped >>
      /\ Held[m].last =>
            /\ Len(Held') = l - m
            /\ \A i \in 1..Len(Held') : Held'[i] = Held[m + i]
            /\ owner' = [p \in Packets |-> IF p \in done THEN "host" ELSE owner[p]]
            /\ mapped' = {b \in mapped : b[1] \notin done}
    BY HeldTaken DEF IInv, HoldInv
<1>1. UNCHANGED << pc, nbuf, written >>
    BY DEF FirmwareTake
<1>2. CASE ~ Held[m].last
    BY <1>0, <1>1, <1>2 DEF MapInv, Holding
<1>3. CASE Held[m].last
  <2>1. \A i \in 1..(m - 1) : ~ Held[i].last
    <3>1. HeldSeq
        BY HeldAre DEF IInv, HoldInv
    <3> QED  BY <3>1 DEF HeldSeq, HoldInv, TakenSeq
  <2> HIDE DEF m
  <2>2. PICK p \in Packets :
            /\ \A i \in 1..m : Held[i].opaque \in {p, NoBuf}
            /\ \A q \in Packets, b \in Nat :
                    Copy(q, b) => \/ b >= m /\ q # p
                                  \/ b + DescCount(q) = m
      BY <1>0, <1>3, <2>1, WholeTaken
  <2>3. done \subseteq {p} /\ \A q \in done : q \in Packets /\ owner[q] = "nss"
    <3>1. \A i \in 1..m : i \in 1..l
        BY <1>0
    <3> QED  BY <2>2, <3>1 DEF HoldInv, OpaqueInv
  <2> HIDE DEF done
  <2>4. /\ mapped' \subseteq Packets \X Nat
        /\ \A b \in mapped' : owner'[b[1]] # "host"
      BY <1>0, <1>3 DEF MapInv
  <2>5. ASSUME NEW r \in Senders
        PROVE  /\ pc'[r] # "idle" =>
                     \A b \in mapped' : b[1] = nbuf'[r] => Holding(r)' /\ b[2] < written'[r]
               /\ Holding(r)' => \A k \in 0..(written'[r] - 1) : << nbuf'[r], k >> \in mapped'
    <3>1. pc[r] # "idle" => nbuf[r] \notin done
        BY <2>3 DEF HoldInv, OwnerInv
    <3>2. Holding(r) => pc[r] # "idle"
        BY DEF Holding
    <3> QED  BY <1>0, <1>1, <1>3, <3>1, <3>2 DEF MapInv, Holding
  <2>6. ASSUME NEW i \in 1..(l - m)
        PROVE  Held'[i].buffer \in mapped'
    <3>1. m + i \in 1..l /\ m \in Nat
        BY <1>0
    <3>2. PICK q \in Packets, b \in 0..l :
            b < m + i /\ m + i <= b + DescCount(q) /\ Copy(q, b)
        BY <3>1 DEF WholeInv
    <3>3. b \in Nat
        BY <3>2
    <3>4. DescCount(q) \in Nat
        BY PacketRoom
    <3>5. b + DescCount(q) # m
        BY <3>1, <3>2, <3>3, <3>4
    <3>6. q # p
        BY <2>2, <3>2, <3>3, <3>5
    <3>7. (m + i) - b \in 1..DescCount(q) /\ m + i = b + ((m + i) - b)
        BY <3>1, <3>2, <3>3, <3>4
    <3>8. Held[m + i].buffer[1] = q
        BY <3>2, <3>3, <3>7, CopySays
    <3>9. Held[m + i].buffer \in mapped
        BY <3>1 DEF MapInv
    <3> QED  BY <1>0, <1>3, <2>3, <3>6, <3>8, <3>9
  <2> QED  BY <1>0, <1>3, <2>4, <2>5, <2>6 DEF MapInv
<1> QED  BY <1>2, <1>3

LEMMA MapNext ==
    ASSUME UnwindsRight, IInv, IInv', HoldInv, WholeInv, MapInv, [Next]_vars
    PROVE  MapInv'
<1>1. ASSUME NEW s \in Senders, Send(s)
      PROVE  MapInv'
    BY <1>1, MappingsKept, MappingAdded, MappingUnwound, MappingPublished DEF Send
<1>2. CASE TxUnblocked \/ UNCHANGED vars
  <2>1. UNCHANGED << desc, h2n_hlos_index, h2n_nss_index, taken, owner, mapped,
                     pc, nbuf, written >>
      BY <1>2 DEF TxUnblocked, vars
  <2>2. Held' = Held
    <3>1. Contents' = Contents
        BY <2>1, ContentsKept DEF IInv
    <3> QED  BY <2>1, <3>1 DEF Held
  <2> QED  BY <2>1, <2>2 DEF MapInv, Holding
<1> QED  BY <1>1, <1>2, MappingTaken DEF Next

\* What is sent is mapped for as long as the NSS may use it and not longer, on
\* every path but one: nss_core_send_unwind_dma() unmaps the right segments only
\* if there is at most one, and a frag_list member that is refused stays mapped.
THEOREM Mappings ==
    ASSUME UnwindsRight
    PROVE  Spec => []MappingsFollowOwner
<1>1. Init => WholeInv /\ MapInv
  <2> SUFFICES ASSUME Init PROVE WholeInv /\ MapInv
      OBVIOUS
  <2>1. Len(Held) = 0
    <3>1. HeldSeq /\ InFlightCount = 0
        BY InitEmpty, HoldInit, HeldAre DEF HoldInv
    <3> QED  BY <3>1 DEF Init, HeldSeq
  <2> QED  BY <2>1 DEF Init, WholeInv, MapInv, Holding
<1>2. IInv /\ IInv' /\ HoldInv /\ WholeInv /\ MapInv /\ [Next]_vars
            => (WholeInv /\ MapInv)'
    BY WholeNext, MapNext
<1>3. IInv /\ HoldInv /\ WholeInv /\ MapInv => MappingsFollowOwner
  <2> SUFFICES ASSUME IInv, HoldInv, MapInv
               PROVE  MappedWhileHeld /\ HostBuffersUnmapped
      BY DEF MappingsFollowOwner
  <2>1. DOMAIN Held = 1..Len(Held)
      BY HeldAre DEF IInv, HoldInv, HeldSeq
  <2> QED  BY <2>1 DEF MapInv, MappedWhileHeld, HostBuffersUnmapped
<1> QED  BY <1>1, <1>2, <1>3, Holds, PTL DEF Spec
=============================================================================
