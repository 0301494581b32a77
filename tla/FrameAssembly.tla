---------------------------- MODULE FrameAssembly ----------------------------
(***************************************************************************)
(* What the receive side of an N2H ring promises: the segments that the    *)
(* NSS sends for one frame, from the one flagged FIRST to the one flagged  *)
(* LAST, reach the host as one frame, complete and in order.  A frame that *)
(* is interrupted by another one is dropped as a whole; a complete paged   *)
(* frame may be dropped when its header cannot be made linear.             *)
(***************************************************************************)
EXTENDS Naturals, Sequences

CONSTANTS
    Segments,   \* the segments
    Refused,    \* the segments that cannot start a frame of several segments
    KindOf(_)   \* "paged" or "linear": frames of two kinds never mix

VARIABLES
    open,       \* the segments of the frame being received
    out         \* the frame passed on last

Init == open = << >> /\ out = << >>

\* What a segment without FIRST continues.
Continued(s, first) ==
    IF ~ first /\ open # << >> /\ KindOf(open[1]) = KindOf(s)
    THEN open ELSE << >>

Receive(s, first, last) ==
    LET before == Continued(s, first)
        frame == Append(before, s)
        dropped == \/ ~ first /\ before = << >>
                   \/ first /\ ~ last /\ s \in Refused
    IN  /\ open' = IF dropped \/ last THEN << >> ELSE frame
        /\ \/ last /\ ~ dropped /\ out' = frame
           \/ (dropped \/ ~ last \/ KindOf(s) = "paged") /\ out' = out

\* A buffer that is no frame passes by the frame being received.
Pass(s) == out' = << s >> /\ UNCHANGED open

Next == \E s \in Segments : \/ Pass(s)
                            \/ \E first, last \in BOOLEAN : Receive(s, first, last)

Spec == Init /\ [][Next]_<< open, out >>
=============================================================================
