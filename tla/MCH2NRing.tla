----------------------------- MODULE MCH2NRing -----------------------------
(* Packets for the model-checking runs of H2NRing. *)
EXTENDS H2NRing

Packet(n, k, m, g) == [id |-> n, kind |-> k, segs |-> m, paged |-> g]

\* One packet of each skb send path, with at most one segment beyond the head;
\* two scattered ones fill a ring of four but for one descriptor.
ShortPackets ==
    {Packet(1, "nr_frags", 1, 0), Packet(2, "fraglist", 1, 0),
     Packet(3, "bounce", 1, 0)}

\* Two segments beyond the head are needed for the unwinding to go wrong.
TwoFragPackets == {Packet(1, "nr_frags", 2, 0), Packet(2, "crypto", 0, 0)}
=============================================================================
