----------------------------- MODULE RxAssembly -----------------------------
(***************************************************************************)
(* The receive side of one N2H descriptor ring: the descriptor loop of     *)
(* nss_core_handle_cause_queue() with nss_core_handle_linear_skb(), which  *)
(* chains linear sk_buffs on a frag_list, and                              *)
(* nss_core_handle_nr_frag_skb(), which collects page segments in frags[]. *)
(* Both keep an unfinished frame in the ring between descriptors, and      *)
(* between polls.  The NSS may interrupt a frame by any other buffer.      *)
(* A delivered frame is known by its segments; lengths are left out.       *)
(***************************************************************************)
EXTENDS Integers, Sequences, FiniteSets

CONSTANTS
    Linear,    \* sk_buffs filled as linear empty buffers
    Paged,     \* sk_buffs filled with a page: nr_frags > 0
    Chained,   \* linear sk_buffs that come back with a frag_list of their own
    ChainedMayInterrupt, \* whether these may cut an unfinished linear frame
    FrameMax,  \* bound: segments of a paged frame (MAX_SKB_FRAGS)
    Foreign,   \* the member of such a frag_list
    Null

Skbs == Linear \cup Paged

ASSUME SkbAssumption ==
    /\ Linear \cap Paged = {}
    /\ Chained \subseteq Linear
    /\ Foreign \notin Skbs
    /\ Null \notin Skbs
    /\ ChainedMayInterrupt \in BOOLEAN

ASSUME FrameMaxAssumption == FrameMax \in Nat \ {0}

VARIABLES
    head,         \* n2h_desc_ring->head
    tail,         \* n2h_desc_ring->tail
    jumbo_start,  \* n2h_desc_ring->jumbo_start
    segs,         \* frag_list of a linear skb, added frags[] of a paged one
    state,        \* "nss": NSS pool, "held": the ring's, "host": freed or passed on
    out           \* the segments of the frame last given to nss_core_rx_pbuf()

vars == << head, tail, jumbo_start, segs, state, out >>

TypeOK ==
    /\ head \in Linear \cup {Null}
    /\ tail \in Linear \cup {Null}
    /\ jumbo_start \in Paged \cup {Null}
    /\ segs \in [Skbs -> Seq(Skbs \cup {Foreign})]
    /\ state \in [Skbs -> {"nss", "held", "host"}]
    /\ out \in Seq(Skbs \cup {Foreign})

InitialSegs(n) == IF n \in Chained THEN << Foreign >> ELSE << >>

Init ==
    /\ head = Null
    /\ tail = Null
    /\ jumbo_start = Null
    /\ segs = [n \in Skbs |-> InitialSegs(n)]
    /\ state = [n \in Skbs |-> "nss"]
    /\ out = << >>

Frame(n) == << n >> \o segs[n]

\* The sk_buffs that dev_kfree_skb_any(n) frees, or a handler gets with n.
\* The sk_buff of a page added to frags[] was freed when it was added.
Members(n) == IF n \in Linear THEN {Frame(n)[i] : i \in DOMAIN Frame(n)} \cap Skbs
                              ELSE {n}

\* ... of an unfinished frame, if there is one.
Unfinished(n) == IF n = Null THEN {} ELSE Members(n)

\* The sk_buffs of S leave the ring.
Leave(S) ==
    /\ state' = [n \in Skbs |-> IF n \in S THEN "host" ELSE state[n]]
    /\ segs' = [n \in Skbs |-> IF n \in S THEN << >> ELSE segs[n]]

(***************************************************************************)
(* Paged sk_buffs.  The loop has dropped an unfinished linear frame first. *)
(***************************************************************************)

\* Mutant of PagedFull: the unfinished frame is freed, its pointer stays.
PagedFull_NoReset(n) ==
    /\ Leave(Unfinished(head) \cup Unfinished(jumbo_start) \cup {n})
    /\ head' = Null
    /\ out' = << n >>
    /\ UNCHANGED << tail, jumbo_start >>

\* FIRST and LAST: a whole frame, which an unfinished one gives way to.
\* pskb_may_pull() may fail, then the frame is freed and not passed on.
PagedFull(n) ==
    /\ Leave(Unfinished(head) \cup Unfinished(jumbo_start) \cup {n})
    /\ head' = Null
    /\ jumbo_start' = Null
    /\ out' \in {out, << n >>}
    /\ UNCHANGED tail

\* FIRST: the segment starts a frame.
PagedFirst(n) ==
    LET gone == Unfinished(head) \cup Unfinished(jumbo_start)
    IN  /\ state' = [m \in Skbs |-> IF m = n THEN "held"
                                    ELSE IF m \in gone THEN "host" ELSE state[m]]
        /\ segs' = [m \in Skbs |-> IF m \in gone THEN << >> ELSE segs[m]]
        /\ head' = Null
        /\ jumbo_start' = n
        /\ UNCHANGED << tail, out >>

\* A middle or last segment without a first one is freed.
PagedOrphan(n) ==
    /\ jumbo_start = Null
    /\ Leave(Unfinished(head) \cup {n})
    /\ head' = Null
    /\ UNCHANGED << tail, jumbo_start, out >>

\* A middle segment: its page goes to the first one's frags[].
PagedMiddle(n) ==
    /\ jumbo_start # Null
    /\ Len(segs[jumbo_start]) + 1 < FrameMax
    /\ LET gone == Unfinished(head) \cup {n}
       IN  /\ state' = [m \in Skbs |-> IF m \in gone THEN "host" ELSE state[m]]
           /\ segs' = [m \in Skbs |->
                        IF m = jumbo_start THEN Append(segs[m], n)
                        ELSE IF m \in gone THEN << >> ELSE segs[m]]
    /\ head' = Null
    /\ UNCHANGED << tail, jumbo_start, out >>

\* The last segment: the frame is passed on, unless the pull fails.
PagedLast(n) ==
    /\ jumbo_start # Null
    /\ Len(segs[jumbo_start]) + 1 < FrameMax
    /\ Leave(Unfinished(head) \cup {jumbo_start, n})
    /\ head' = Null
    /\ jumbo_start' = Null
    /\ out' \in {out, Append(Frame(jumbo_start), n)}
    /\ UNCHANGED tail

nss_core_handle_nr_frag_skb(n, first, last) ==
    \/ first /\ last /\ PagedFull(n)
    \/ first /\ ~ last /\ PagedFirst(n)
    \/ ~ first /\ PagedOrphan(n)
    \/ ~ first /\ ~ last /\ PagedMiddle(n)
    \/ ~ first /\ last /\ PagedLast(n)

(***************************************************************************)
(* Linear sk_buffs.  The loop has dropped an unfinished paged frame first. *)
(***************************************************************************)
LinearFull(n) ==
    /\ out' = Frame(n)
    /\ Leave(Unfinished(head) \cup Unfinished(jumbo_start) \cup {n})
    /\ head' = Null
    /\ jumbo_start' = Null
    /\ UNCHANGED tail

\* Mutant of LinearFirst: the unfinished frame is overwritten, not freed.
LinearFirst_NoFree(n) ==
    /\ segs[n] = << >>
    /\ state' = [state EXCEPT ![n] = "held"]
    /\ head' = n
    /\ UNCHANGED << tail, jumbo_start, segs, out >>

LinearFirst(n) ==
    LET gone == Unfinished(head) \cup Unfinished(jumbo_start)
    IN  /\ segs[n] = << >>
        /\ state' = [m \in Skbs |-> IF m = n THEN "held"
                                    ELSE IF m \in gone THEN "host" ELSE state[m]]
        /\ segs' = [m \in Skbs |-> IF m \in gone THEN << >> ELSE segs[m]]
        /\ head' = n
        /\ jumbo_start' = Null
        /\ UNCHANGED << tail, out >>

\* "We don't support chain in a chain": the new sk_buff is freed, like the
\* unfinished frame before it, but the ring's head is not reset.
LinearFirstChained(n) ==
    /\ segs[n] # << >>
    /\ head = Null \/ ChainedMayInterrupt
    /\ Leave(Unfinished(head) \cup Unfinished(jumbo_start) \cup {n})
    /\ jumbo_start' = Null
    /\ UNCHANGED << head, tail, out >>

LinearOrphan(n) ==
    /\ head = Null
    /\ Leave(Unfinished(jumbo_start) \cup {n})
    /\ jumbo_start' = Null
    /\ UNCHANGED << head, tail, out >>

\* Mutant of LinkedBehindTail: the segment is linked in front.
LinkedBehindTail_InFront(n) == << n >> \o segs[head]

\* The list with n added: behind the tail, or first if the list is empty.
LinkedBehindTail(n) ==
    IF segs[head] = << >> THEN << n >>
    ELSE LET i == CHOOSE i \in DOMAIN segs[head] : segs[head][i] = tail
         IN  Append(SubSeq(segs[head], 1, i), n)

\* Mutant of LinearMiddle: the tail pointer is not moved.
LinearMiddle_KeepsTail(n) ==
    /\ head # Null
    /\ jumbo_start = Null
    /\ state' = [state EXCEPT ![n] = "held"]
    /\ segs' = [segs EXCEPT ![head] = LinkedBehindTail(n)]
    /\ UNCHANGED << head, tail, jumbo_start, out >>

LinearMiddle(n) ==
    /\ head # Null
    /\ LET gone == Unfinished(jumbo_start)
       IN  /\ state' = [m \in Skbs |-> IF m = n THEN "held"
                                       ELSE IF m \in gone THEN "host" ELSE state[m]]
           /\ segs' = [m \in Skbs |-> IF m = head THEN LinkedBehindTail(n)
                                      ELSE IF m \in gone THEN << >> ELSE segs[m]]
    /\ tail' = n
    /\ jumbo_start' = Null
    /\ UNCHANGED << head, out >>

LinearLast(n) ==
    /\ head # Null
    /\ out' = << head >> \o LinkedBehindTail(n)
    /\ Leave(Unfinished(head) \cup Unfinished(jumbo_start) \cup {n})
    /\ head' = Null
    /\ tail' = Null
    /\ jumbo_start' = Null

nss_core_handle_linear_skb(n, first, last) ==
    \/ first /\ last /\ LinearFull(n)
    \/ first /\ ~ last /\ LinearFirst(n)
    \/ first /\ ~ last /\ LinearFirstChained(n)
    \/ ~ first /\ LinearOrphan(n)
    \/ ~ first /\ ~ last /\ LinearMiddle(n)
    \/ ~ first /\ last /\ LinearLast(n)

(***************************************************************************)
(* The loop.                                                               *)
(***************************************************************************)
RxFrame(n, first, last) ==
    /\ state[n] = "nss"
    /\ \/ n \in Paged /\ nss_core_handle_nr_frag_skb(n, first, last)
       \/ n \in Linear /\ nss_core_handle_linear_skb(n, first, last)

\* N2H_BUFFER_EMPTY and the two shaper bounce types go to
\* nss_core_rx_pbuf() at once, past the frame being assembled.
RxDirect(n) ==
    /\ state[n] = "nss"
    /\ out' = << n >>
    /\ Leave({n})
    /\ UNCHANGED << head, tail, jumbo_start >>

\* The memory of an sk_buff is allocated again as an empty buffer, or sent.
Refill(n) ==
    /\ state[n] = "host"
    /\ state' = [state EXCEPT ![n] = "nss"]
    /\ segs' = [segs EXCEPT ![n] = InitialSegs(n)]
    /\ UNCHANGED << head, tail, jumbo_start, out >>

Next ==
    \E n \in Skbs :
        \/ RxDirect(n)
        \/ Refill(n)
        \/ \E first, last \in BOOLEAN : RxFrame(n, first, last)

Spec == Init /\ [][Next]_vars

(***************************************************************************)
(* Properties.                                                             *)
(***************************************************************************)

\* The ring's pointers never outlive what they point at: head and
\* jumbo_start are, as nss_core.h has it, the first segment of an unfinished
\* frame the ring still holds.  This, and what follows, holds while no buffer
\* that brings a frag_list along starts a frame before the last one has ended:
\* where it does (ChainedMayInterrupt, nss_core.c 838-845), the head is freed and
\* head still names it.
NoDanglingFrame ==
    \A n \in {head, jumbo_start} \ {Null} : state[n] = "held"

\* The ring holds nothing but the two unfinished frames (of which only one
\* exists): no sk_buff is forgotten on the error paths of the assembly.
NothingLeaked ==
    /\ head = Null \/ jumbo_start = Null
    /\ {n \in Skbs : state[n] = "held"}
            = Unfinished(head) \cup Unfinished(jumbo_start)

\* tail is reset by one path only, but whenever it is used it is the last
\* segment of the frame at head.
TailIsLast ==
    head # Null /\ segs[head] # << >> => tail = segs[head][Len(segs[head])]

\* The ring's pointers name what they may name, and the right one of it.
WellFormed == TypeOK /\ TailIsLast

\* Every frame is passed on with the segments between its FIRST and its
\* LAST, in order, and with no other.
Opened == IF head # Null THEN Frame(head)
          ELSE IF jumbo_start # Null THEN Frame(jumbo_start) ELSE << >>
KindOf(n) == IF n \in Paged THEN "paged" ELSE "linear"
\* The member of a frag_list that a buffer has brought along comes last.
FromRing(frame) ==
    IF frame # << >> /\ frame[Len(frame)] = Foreign
    THEN SubSeq(frame, 1, Len(frame) - 1) ELSE frame
Frames == INSTANCE FrameAssembly WITH Segments <- Skbs, Refused <- Chained,
                                      open <- Opened, out <- FromRing(out)
ImplementsFrameAssembly == Frames!Spec
=============================================================================
