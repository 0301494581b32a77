------------------------------- MODULE H2NRing -------------------------------
(***************************************************************************)
(* One host-to-NSS descriptor ring of nss_core.c: nss_core_send_buffer()   *)
(* and nss_core_send_crypto() fill it from several CPUs under the ring's   *)
(* spinlock, the NSS firmware drains it without any lock.  The two sides   *)
(* only share the descriptors and the two indices of nss_if_mem_map.       *)
(*                                                                         *)
(* A packet is a record: kind says which send path it takes, segs is the   *)
(* number of its segments beyond the linear head (frags[] entries or       *)
(* frag_list members), paged is the position of a frag_list member that    *)
(* carries page data (0 if none).  The DMA address of segment k of packet  *)
(* p is the pair <<p, k>>; checksum, GSO and QoS fields are left out.      *)
(***************************************************************************)
EXTENDS Integers, Sequences, FiniteSets

CONSTANTS
    Senders,     \* the contexts that may be inside a send call at once
    Packets,     \* the sk_buffs and crypto buffers that can be sent
    Size,        \* desc_if->size, a power of two chosen by the firmware
    DmaMayFail,  \* whether dma_map_single() and friends may fail
    NoBuf,       \* the null pointer in descriptor fields
    Nobody       \* the value of the spinlock when it is free

Kinds == {"simple", "bounce", "crypto", "nr_frags", "fraglist"}

ASSUME SizeAssumption == Size \in Nat /\ Size >= 2

ASSUME PacketAssumption ==
    \A p \in Packets : /\ p.kind \in Kinds
                       /\ p.segs \in Nat
                       /\ p.paged \in 0..p.segs
                       /\ p.kind \in {"nr_frags", "fraglist"} => p.segs > 0
                       /\ p.kind \in {"simple", "crypto"} => p.segs = 0

ASSUME NullAssumption == Nobody \notin Senders /\ NoBuf \notin Packets

VARIABLES
    lock,            \* h2n_desc_ring->lock
    hlos_index,      \* h2n_desc_ring->hlos_index, the host's private copy
    h2n_hlos_index,  \* if_map->h2n_hlos_index[qid], read by the NSS
    h2n_nss_index,   \* if_map->h2n_nss_index[qid], written by the NSS
    desc,            \* desc_if->desc[], the descriptors
    tx_stopped,      \* NSS_H2N_DESC_RING_FLAGS_TX_STOPPED
    unblock_irq,     \* TX_UNBLOCKED enabled in the N2H interrupt mask
    mapped,          \* DMA mappings of the sends and of the NSS (see below)
    owner,           \* who may touch a packet: "host", "driver" or "nss"
    pc,              \* where each sender is in its call
    nbuf,            \* the packet each sender is sending
    written,         \* the number of descriptors the sender has filled
    taken            \* NSS: the descriptors of the packet being collected

vars == << lock, hlos_index, h2n_hlos_index, h2n_nss_index, desc, tx_stopped,
           unblock_irq, mapped, owner, pc, nbuf, written, taken >>

Slots == 0..(Size - 1)

(***************************************************************************)
(* Descriptors.                                                            *)
(***************************************************************************)
Scattered(p) == p.kind \in {"nr_frags", "fraglist"}

\* The space the ring must have, and the descriptors actually written.
Needed(p)  == p.segs + 1
DescCount(p) == IF Scattered(p) THEN p.segs + 1 ELSE 1

EmptyDesc == [buffer |-> << NoBuf, 0 >>, opaque |-> NoBuf,
              first |-> FALSE, last |-> FALSE, discard |-> FALSE]

nss_core_write_one_descriptor(buffer, opaque, first, last, discard) ==
    [buffer |-> buffer, opaque |-> opaque,
     first |-> first, last |-> last, discard |-> discard]

\* nss_core_send_buffer_simple_skb().
SimpleDesc(p) ==
    nss_core_write_one_descriptor(<< p, 0 >>, p, TRUE, TRUE, FALSE)

\* nss_core_send_crypto() fills its descriptor in place.
CryptoDesc(p) ==
    [buffer |-> << p, 0 >>, opaque |-> p,
     first |-> TRUE, last |-> TRUE, discard |-> FALSE]

\* nss_core_send_buffer_nr_frags(): DISCARD everywhere, no opaque yet.
NrFragsDesc(p, k) ==
    nss_core_write_one_descriptor(<< p, k >>, NoBuf, k = 0, FALSE, TRUE)

\* nss_core_send_buffer_fraglist(): the head carries the opaque.
FraglistDesc(p, k) ==
    nss_core_write_one_descriptor(<< p, k >>, IF k = 0 THEN p ELSE NoBuf,
                                  k = 0, FALSE, k > 0)

SegmentDesc(p, k) ==
    CASE p.kind = "nr_frags" -> NrFragsDesc(p, k)
      [] p.kind = "fraglist" -> FraglistDesc(p, k)
      [] p.kind = "crypto" -> CryptoDesc(p)
      [] OTHER -> SimpleDesc(p)

\* Mutant of LastDesc: an nr_frags packet is never given its opaque.
LastDesc_NoOpaque(p, d) ==
    CASE p.kind = "nr_frags" -> [d EXCEPT !.last = TRUE, !.discard = FALSE]
      [] p.kind = "fraglist" -> [d EXCEPT !.last = TRUE]
      [] OTHER -> d

\* The flags patched into the last descriptor once all segments are mapped.
LastDesc(p, d) ==
    CASE p.kind = "nr_frags" ->
            [d EXCEPT !.last = TRUE, !.discard = FALSE, !.opaque = p]
      [] p.kind = "fraglist" -> [d EXCEPT !.last = TRUE]
      [] OTHER -> d

\* What the NSS must see of a packet, head first.
DescsOf(p) ==
    [i \in 1..DescCount(p) |->
        IF i = DescCount(p) THEN LastDesc(p, SegmentDesc(p, i - 1))
                            ELSE SegmentDesc(p, i - 1)]

(***************************************************************************)
(* Index arithmetic.  Size is a power of two, so "& mask" is "% Size".     *)
(***************************************************************************)

\* Mutant of Advance: the index is not masked.
Advance_NoMask(i, n) == i + n

Advance(i, n) == (i + n) % Size

\* Mutant of FreeDescs: no slot is left empty.
FreeDescs_NoGap(nss, hlos) == (((nss - hlos - 1) + Size) % Size) + 1

FreeDescs(nss, hlos) == ((nss - hlos - 1) + Size) % Size

InFlightCount == ((h2n_hlos_index - h2n_nss_index) + Size) % Size

\* Slot i lies between the NSS index and the published host index.
InFlight(i) == ((i - h2n_nss_index) + Size) % Size < InFlightCount

TypeOK ==
    /\ lock \in Senders \cup {Nobody}
    /\ hlos_index \in Slots
    /\ h2n_hlos_index \in Slots
    /\ h2n_nss_index \in Slots
    /\ DOMAIN desc = Slots
    /\ tx_stopped \in BOOLEAN
    /\ unblock_irq \in BOOLEAN
    /\ owner \in [Packets -> {"host", "driver", "nss"}]
    /\ pc \in [Senders -> {"idle", "lock", "map", "publish", "full"}]
    /\ nbuf \in [Senders -> Packets \cup {NoBuf}]
    /\ written \in [Senders -> Nat]

Init ==
    /\ lock = Nobody
    /\ h2n_nss_index \in Slots
    /\ hlos_index = h2n_nss_index
    /\ h2n_hlos_index = h2n_nss_index
    /\ desc = [i \in Slots |-> EmptyDesc]
    /\ tx_stopped = FALSE
    /\ unblock_irq = TRUE
    /\ mapped = {}
    /\ owner = [p \in Packets |-> "host"]
    /\ pc = [s \in Senders |-> "idle"]
    /\ nbuf = [s \in Senders |-> NoBuf]
    /\ written = [s \in Senders |-> 0]
    /\ taken = << >>

(***************************************************************************)
(* nss_core_send_buffer(), nss_core_send_crypto().                         *)
(***************************************************************************)

\* The segment count is checked against the ring before the lock is taken,
\* for frag_list packets only; a packet that is too long is refused with
\* NSS_CORE_STATUS_FAILURE and stays with the caller.
PassesSizeCheck(p) == p.kind = "fraglist" => p.segs <= Size

Call(s, p) ==
    /\ pc[s] = "idle"
    /\ owner[p] = "host"
    /\ PassesSizeCheck(p)
    /\ owner' = [owner EXCEPT ![p] = "driver"]
    /\ pc' = [pc EXCEPT ![s] = "lock"]
    /\ nbuf' = [nbuf EXCEPT ![s] = p]
    /\ UNCHANGED << lock, hlos_index, h2n_hlos_index, h2n_nss_index, desc,
                    tx_stopped, unblock_irq, mapped, written, taken >>

\* Mutant of LockAndFit: the ring is not asked for room.
LockAndFit_NoRoomCheck(s) ==
    /\ pc[s] = "lock"
    /\ lock = Nobody
    /\ lock' = s
    /\ pc' = [pc EXCEPT ![s] = "map"]
    /\ UNCHANGED << hlos_index, h2n_hlos_index, h2n_nss_index, desc,
                    tx_stopped, unblock_irq, mapped, owner, nbuf, written,
                    taken >>

\* spin_lock_bh(), read both indices; enough room for all the segments.
LockAndFit(s) ==
    /\ pc[s] = "lock"
    /\ lock = Nobody
    /\ FreeDescs(h2n_nss_index, hlos_index) >= Needed(nbuf[s])
    /\ lock' = s
    /\ pc' = [pc EXCEPT ![s] = "map"]
    /\ UNCHANGED << hlos_index, h2n_hlos_index, h2n_nss_index, desc,
                    tx_stopped, unblock_irq, mapped, owner, nbuf, written,
                    taken >>

\* Not enough room: flag the ring stopped and drop the lock again.
LockAndFull(s) ==
    /\ pc[s] = "lock"
    /\ lock = Nobody
    /\ FreeDescs(h2n_nss_index, hlos_index) < Needed(nbuf[s])
    /\ tx_stopped' = TRUE
    /\ pc' = [pc EXCEPT ![s] = "full"]
    /\ UNCHANGED << lock, hlos_index, h2n_hlos_index, h2n_nss_index, desc,
                    unblock_irq, mapped, owner, nbuf, written, taken >>

\* The call is over and the packet is its caller's again.
Return(s, to) ==
    /\ owner' = [owner EXCEPT ![nbuf[s]] = to]
    /\ nbuf' = [nbuf EXCEPT ![s] = NoBuf]
    /\ written' = [written EXCEPT ![s] = 0]
    /\ pc' = [pc EXCEPT ![s] = "idle"]

\* Outside the lock: unmask TX_UNBLOCKED and return FAILURE_QUEUE.
QueueFull(s) ==
    /\ pc[s] = "full"
    /\ unblock_irq' = TRUE
    /\ Return(s, "host")
    /\ UNCHANGED << lock, hlos_index, h2n_hlos_index, h2n_nss_index, desc,
                    tx_stopped, mapped, taken >>

\* A frag_list member with page data is refused after it was mapped.
Unsupported(p, k) == p.kind = "fraglist" /\ k > 0 /\ p.paged = k

\* Map the next segment and write its descriptor; nothing is visible to
\* the NSS yet.  Crypto buffers come mapped from the crypto driver.
MapSegment(s) ==
    LET p == nbuf[s]
        k == written[s]
    IN  /\ pc[s] = "map"
        /\ ~ Unsupported(p, k)
        /\ mapped' = mapped \cup {<< p, k >>}
        /\ desc' = [desc EXCEPT ![Advance(hlos_index, k)] = SegmentDesc(p, k)]
        /\ written' = [written EXCEPT ![s] = k + 1]
        /\ pc' = [pc EXCEPT ![s] =
                    IF k + 1 = DescCount(p) THEN "publish" ELSE "map"]
        /\ UNCHANGED << lock, hlos_index, h2n_hlos_index, h2n_nss_index,
                        tx_stopped, unblock_irq, owner, nbuf, taken >>

\* Mutant of nss_core_send_unwind_dma: the loop ends one descriptor early.
nss_core_send_unwind_dma_OneShort(index, count) ==
    {desc[Advance(index, i)].buffer : i \in 0..(count - 2)}

\* nss_core_send_unwind_dma(): unmap what `count` descriptors from `index`
\* on point at.
nss_core_send_unwind_dma(index, count) ==
    {desc[Advance(index, i)].buffer : i \in 0..(count - 1)}

\* Mutant of MapFailure: the error path returns with the lock held.
MapFailure_KeepsLock(s) ==
    /\ pc[s] = "map"
    /\ DmaMayFail /\ nbuf[s].kind # "crypto"
    /\ mapped' = {b \in mapped : b[1] # nbuf[s]}
    /\ Return(s, "host")
    /\ UNCHANGED << lock, hlos_index, h2n_hlos_index, h2n_nss_index, desc,
                    tx_stopped, unblock_irq, taken >>

\* A mapping fails, or a frag_list member turns out to be unsupported.  The
\* caller passes the index of the descriptor written last together with the
\* number of all the descriptors written; with none written it just returns.
MapFailure(s) ==
    LET p == nbuf[s]
        k == written[s]
        attempted == IF Unsupported(p, k) THEN {<< p, k >>} ELSE {}
        unwound == IF k = 0 THEN {}
                   ELSE nss_core_send_unwind_dma(Advance(hlos_index, k - 1), k)
    IN  /\ pc[s] = "map"
        /\ Unsupported(p, k) \/ (DmaMayFail /\ p.kind # "crypto")
        /\ mapped' = (mapped \cup attempted) \ unwound
        /\ lock' = Nobody
        /\ Return(s, "host")
        /\ UNCHANGED << hlos_index, h2n_hlos_index, h2n_nss_index, desc,
                        tx_stopped, unblock_irq, taken >>

\* Patch the last descriptor, publish the new index and drop the lock.
Publish(s) ==
    LET p == nbuf[s]
        last == Advance(hlos_index, DescCount(p) - 1)
        next == Advance(hlos_index, DescCount(p))
    IN  /\ pc[s] = "publish"
        /\ desc' = [desc EXCEPT ![last] = LastDesc(p, @)]
        /\ hlos_index' = next
        /\ h2n_hlos_index' = next
        /\ lock' = Nobody
        /\ Return(s, "nss")
        /\ UNCHANGED << h2n_nss_index, tx_stopped, unblock_irq, mapped,
                        taken >>

(***************************************************************************)
(* The other side.                                                         *)
(***************************************************************************)

\* External: the NSS reads the next descriptor and moves its index on.  The
\* last segment completes the packet, whose opaque goes back to the host on
\* the N2H empty-buffer ring.  Its mappings are not followed any further:
\* the host unmaps the segment named in the returned descriptor and, as
\* nss_core_handle_cause_queue() says, not the others.
FirmwareTake ==
    LET d == desc[h2n_nss_index]
        all == Append(taken, d)
        done == {all[i].opaque : i \in DOMAIN all} \ {NoBuf}
    IN  /\ h2n_nss_index # h2n_hlos_index
        /\ h2n_nss_index' = Advance(h2n_nss_index, 1)
        /\ IF d.last
           THEN /\ taken' = << >>
                /\ owner' = [p \in Packets |->
                                IF p \in done THEN "host" ELSE owner[p]]
                /\ mapped' = {b \in mapped : b[1] \notin done}
           ELSE /\ taken' = all
                /\ UNCHANGED << owner, mapped >>
        /\ UNCHANGED << lock, hlos_index, h2n_hlos_index, desc, tx_stopped,
                        unblock_irq, pc, nbuf, written >>

\* The TX_UNBLOCKED branch of nss_core_handle_cause_nonqueue(): after the
\* decongestion callbacks the flag is cleared and the interrupt masked, both
\* without the ring's lock.
TxUnblocked ==
    /\ unblock_irq
    /\ tx_stopped' = FALSE
    /\ unblock_irq' = FALSE
    /\ UNCHANGED << lock, hlos_index, h2n_hlos_index, h2n_nss_index, desc,
                    mapped, owner, pc, nbuf, written, taken >>

Send(s) ==
    \/ \E p \in Packets : Call(s, p)
    \/ LockAndFit(s)
    \/ LockAndFull(s)
    \/ QueueFull(s)
    \/ MapSegment(s)
    \/ MapFailure(s)
    \/ Publish(s)

Next == FirmwareTake \/ TxUnblocked \/ \E s \in Senders : Send(s)

Spec == Init /\ [][Next]_vars

\* A sender inside its call runs with bottom halves off and is never
\* preempted for good, and the firmware keeps polling its rings.
Fairness ==
    /\ WF_vars(FirmwareTake)
    /\ \A s \in Senders :
        /\ WF_vars(MapSegment(s) \/ MapFailure(s))
        /\ WF_vars(Publish(s))
        /\ WF_vars(QueueFull(s))
        /\ SF_vars(LockAndFit(s) \/ LockAndFull(s))

FairSpec == Spec /\ Fairness

(***************************************************************************)
(* Properties.                                                             *)
(***************************************************************************)

\* The descriptors published and not yet taken, oldest first.
Contents == [i \in 1..InFlightCount |-> desc[Advance(h2n_nss_index, i - 1)]]

\* Everything the NSS holds of the packets it has not finished with.
Held == taken \o Contents

\* While a slot stays between the NSS index and the published host index,
\* no send call writes to it: the room computed under the lock from an NSS
\* index that may be stale by now is never an overestimate.
NeverOverwritten ==
    [][\A i \in Slots : InFlight(i) /\ InFlight(i)' => desc'[i] = desc[i]]_vars

\* The ring is a bounded FIFO of whole packets: the segments of two packets
\* are never mixed, a send that fails leaves nothing behind, and the one
\* slot kept empty makes Size - 1 the capacity.
Fifo == INSTANCE DescFifo WITH Capacity <- Size - 1, fifo <- Contents
ImplementsDescFifo == Fifo!Spec

\* The opaque pointer of a packet reaches the NSS once while the NSS owns
\* the packet and not at all otherwise, so the completion path frees every
\* sk_buff once: no leak and no double free, whichever descriptor of a
\* scattered packet carries the pointer.
OpaqueOnce ==
    \A p \in Packets :
        Cardinality({i \in DOMAIN Held : Held[i].opaque = p})
            = IF owner[p] = "nss" THEN 1 ELSE 0

\* The NSS never holds a descriptor whose buffer is not mapped for it.
MappedWhileHeld == \A i \in DOMAIN Held : Held[i].buffer \in mapped

\* A send that fails has unmapped all it mapped ("We failed and hence we
\* need to unmap dma regions"): a packet back with the host has no mapping.
HostBuffersUnmapped ==
    \A b \in mapped : owner[b[1]] # "host"

\* A buffer is mapped exactly as long as the NSS may use it, on the paths that
\* send, that fail half-way and that complete.
MappingsFollowOwner == MappedWhileHeld /\ HostBuffersUnmapped

\* Every call returns, and every packet handed to the NSS comes back.
SendReturns == \A s \in Senders : (pc[s] = "lock") ~> (pc[s] = "idle")
PacketComesBack == \A p \in Packets : (owner[p] = "nss") ~> (owner[p] = "host")
=============================================================================
