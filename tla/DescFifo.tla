------------------------------ MODULE DescFifo ------------------------------
(***************************************************************************)
(* What a host-to-NSS descriptor ring promises to its two ends: a bounded  *)
(* first-in first-out channel of whole packets.  A send appends all the    *)
(* descriptors of one packet at once or nothing at all, and the NSS takes  *)
(* descriptors one at a time from the other end.  H2NRing implements it.   *)
(***************************************************************************)
EXTENDS Naturals, Sequences

CONSTANTS
    Packets,      \* the packets the host may send
    DescsOf(_),   \* the descriptors one packet is carried by
    Capacity      \* the number of descriptors the channel holds at most

VARIABLE fifo

Init == fifo = << >>

Send(p) ==
    /\ Len(fifo) + Len(DescsOf(p)) <= Capacity
    /\ fifo' = fifo \o DescsOf(p)

Take ==
    /\ fifo # << >>
    /\ fifo' = Tail(fifo)

Next == Take \/ \E p \in Packets : Send(p)

Spec == Init /\ [][Next]_fifo
=============================================================================
