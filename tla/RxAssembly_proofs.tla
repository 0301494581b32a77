------------------------- MODULE RxAssembly_proofs -------------------------
(***************************************************************************)
(* Frames come whole, nothing is leaked and no pointer dangles, for any    *)
(* sets of sk_buffs, as long as no buffer with a frag_list of its own      *)
(* comes as the first segment of a frame while another one is unfinished.  *)
(***************************************************************************)
EXTENDS RxAssembly, TLAPS

(***************************************************************************)
(* The inductive invariant.                                                *)
(***************************************************************************)

\* m is a segment of the unfinished linear frame.
InHead(m) ==
    head # Null /\ (m = head \/ \E i \in 1..Len(segs[head]) : segs[head][i] = m)

\* The ring holds the segments of at most one frame, and nothing else.
HeldInv ==
    /\ head = Null \/ jumbo_start = Null
    /\ \A m \in Skbs : state[m] = "held" <=> m = jumbo_start \/ InHead(m)

\* The list of the unfinished frame has each of its linear segments once, so
\* that what is behind the tail is behind the last.
ListInv ==
    head # Null =>
        /\ \A i \in 1..Len(segs[head]) : segs[head][i] \in Linear \ {head}
        /\ \A i, j \in 1..Len(segs[head]) : segs[head][i] = segs[head][j] => i = j
        /\ segs[head] # << >> => tail = segs[head][Len(segs[head])]

\* A buffer in the pool of the NSS comes back as it was allocated.
PoolInv == \A m \in Skbs : state[m] = "nss" => segs[m] = InitialSegs(m)

IInv == TypeOK /\ HeldInv /\ ListInv /\ PoolInv

\* What an empty list, or one with a first buffer, becomes.
LEMMA ListTypes ==
    /\ << >> \in Seq(Skbs \cup {Foreign})
    /\ \A n \in Skbs : /\ InitialSegs(n) \in Seq(Skbs \cup {Foreign})
                       /\ << n >> \in Seq(Skbs \cup {Foreign})
                       /\ n # Null /\ n # Foreign
<1>1. << >> \in Seq(Skbs \cup {Foreign}) /\ << Foreign >> \in Seq(Skbs \cup {Foreign})
    OBVIOUS
<1>2. ASSUME NEW n \in Skbs
      PROVE  << n >> \in Seq(Skbs \cup {Foreign})
    OBVIOUS
<1>3. ASSUME NEW n \in Skbs
      PROVE  n # Null /\ n # Foreign
    BY SkbAssumption
<1>4. ASSUME NEW n \in Skbs
      PROVE  InitialSegs(n) \in Seq(Skbs \cup {Foreign})
    BY <1>1 DEF InitialSegs
<1> QED  BY <1>1, <1>2, <1>3, <1>4

\* What is freed, or passed on, with the unfinished frames.
LEMMA UnfinishedMembers ==
    ASSUME TypeOK
    PROVE  /\ Unfinished(head) = {m \in Skbs : InHead(m)}
           /\ Unfinished(jumbo_start) = {m \in Skbs : m = jumbo_start}
<1>1. Unfinished(jumbo_start) = {m \in Skbs : m = jumbo_start}
    BY SkbAssumption DEF Unfinished, Members, TypeOK, Skbs
<1>2. CASE head = Null
    BY <1>1, <1>2 DEF Unfinished, InHead
<1>3. CASE head # Null
  <2>1. head \in Linear /\ head \in Skbs
      BY <1>3 DEF TypeOK, Skbs
  <2>2. segs[head] \in Seq(Skbs \cup {Foreign})
      BY <2>1 DEF TypeOK
  <2>3. /\ DOMAIN Frame(head) = 1..(Len(segs[head]) + 1)
        /\ Frame(head)[1] = head
        /\ \A i \in 1..Len(segs[head]) : Frame(head)[i + 1] = segs[head][i]
      BY <2>1, <2>2 DEF Frame
  <2>4. Len(segs[head]) \in Nat
      BY <2>2
  <2>5. {Frame(head)[i] : i \in DOMAIN Frame(head)} \cap Skbs
            = {m \in Skbs : InHead(m)}
    <3>1. ASSUME NEW m \in Skbs, NEW i \in DOMAIN Frame(head), m = Frame(head)[i]
          PROVE  InHead(m)
      <4>1. CASE i = 1
          BY <1>3, <2>3, <3>1, <4>1 DEF InHead
      <4>2. CASE i # 1
        <5>1. i - 1 \in 1..Len(segs[head]) /\ i = (i - 1) + 1
            BY <2>3, <2>4, <4>2
        <5>2. Frame(head)[i] = segs[head][i - 1]
            BY <2>3, <5>1
        <5> QED  BY <1>3, <3>1, <5>1, <5>2 DEF InHead
      <4> QED  BY <4>1, <4>2
    <3>2. ASSUME NEW m \in Skbs, InHead(m)
          PROVE  \E i \in DOMAIN Frame(head) : m = Frame(head)[i]
      <4>1. CASE m = head
          BY <2>3, <2>4, <4>1
      <4>2. ASSUME NEW i \in 1..Len(segs[head]), segs[head][i] = m
            PROVE  \E k \in DOMAIN Frame(head) : m = Frame(head)[k]
        <5>1. i + 1 \in DOMAIN Frame(head)
            BY <2>3, <2>4
        <5> QED  BY <2>3, <4>2, <5>1
      <4> QED  BY <3>2, <4>1, <4>2 DEF InHead
    <3> QED  BY <3>1, <3>2
  <2> QED  BY <1>1, <1>3, <2>1, <2>5 DEF Unfinished, Members
<1> QED  BY <1>2, <1>3

\* A segment is linked behind the last one.
LEMMA LinkedLast ==
    ASSUME IInv, head # Null, NEW n \in Linear
    PROVE  /\ LinkedBehindTail(n) = Append(segs[head], n)
           /\ segs[head] \in Seq(Skbs \cup {Foreign})
<1>1. segs[head] \in Seq(Skbs \cup {Foreign})
    BY DEF IInv, TypeOK, Skbs
<1>2. CASE segs[head] = << >>
    BY <1>1, <1>2 DEF LinkedBehindTail
<1>3. CASE segs[head] # << >>
  <2> DEFINE s == segs[head]
             at == CHOOSE i \in DOMAIN s : s[i] = tail
  <2>1. Len(s) \in 1..Len(s) /\ DOMAIN s = 1..Len(s)
      BY <1>1, <1>3
  <2>2. s[Len(s)] = tail
      BY <1>3 DEF IInv, ListInv
  <2>3. at \in DOMAIN s /\ s[at] = tail
      BY <2>1, <2>2
  <2>4. at = Len(s)
      BY <2>1, <2>2, <2>3 DEF IInv, ListInv
  <2>5. SubSeq(s, 1, Len(s)) = s
      BY <1>1
  <2> QED  BY <1>1, <1>3, <2>4, <2>5 DEF LinkedBehindTail
<1> QED  BY <1>1, <1>2, <1>3

LEMMA InitInv == Init => IInv
<1> SUFFICES ASSUME Init PROVE IInv
    OBVIOUS
<1>1. TypeOK
    BY ListTypes DEF Init, TypeOK
<1>2. HeldInv /\ ListInv /\ PoolInv
    BY SkbAssumption DEF Init, HeldInv, ListInv, PoolInv, InHead, Skbs
<1> QED  BY <1>1, <1>2 DEF IInv

\* The paths that free or pass on all the ring has leave it empty.
LEMMA Emptied ==
    ASSUME IInv, NEW S,
           Unfinished(head) \subseteq S, Unfinished(jumbo_start) \subseteq S,
           Leave(S), head' = Null, jumbo_start' = Null,
           tail' \in Linear \cup {Null}, out' \in Seq(Skbs \cup {Foreign})
    PROVE  IInv'
<1>1. TypeOK'
    BY ListTypes DEF IInv, TypeOK, Leave
<1>2. \A m \in Skbs : state[m] = "held" => m \in S
    BY UnfinishedMembers DEF IInv, HeldInv
<1>3. \A m \in Skbs : state'[m] # "held"
    BY <1>2 DEF Leave
<1>4. HeldInv'
    BY <1>3, SkbAssumption DEF HeldInv, InHead
<1>5. ListInv'
    BY DEF ListInv
<1>6. PoolInv'
    BY DEF IInv, PoolInv, Leave, InitialSegs
<1> QED  BY <1>1, <1>4, <1>5, <1>6 DEF IInv

\* A buffer of the pool is in no unfinished frame.
LEMMA PoolIsOutside ==
    ASSUME IInv, NEW n \in Skbs, state[n] = "nss"
    PROVE  /\ n # head /\ n # jumbo_start /\ ~ InHead(n)
           /\ n \notin Unfinished(head) /\ n \notin Unfinished(jumbo_start)
<1>1. n # jumbo_start /\ ~ InHead(n)
    BY DEF IInv, HeldInv
<1>2. n # head
    BY <1>1, ListTypes DEF InHead
<1> QED  BY <1>1, <1>2, UnfinishedMembers DEF IInv

\* The frame being assembled is not touched by what leaves past it, and not
\* by what is allocated again.
LEMMA OutsideStep ==
    ASSUME IInv, NEW n \in Skbs, state[n] # "held",
           UNCHANGED << head, tail, jumbo_start >>,
           state' \in [Skbs -> {"nss", "held", "host"}],
           segs' \in [Skbs -> Seq(Skbs \cup {Foreign})],
           out' \in Seq(Skbs \cup {Foreign}),
           \A m \in Skbs \ {n} : state'[m] = state[m] /\ segs'[m] = segs[m],
           state'[n] # "held",
           state'[n] = "nss" => segs'[n] = InitialSegs(n)
    PROVE  IInv'
<1>1. TypeOK'
    BY DEF IInv, TypeOK
<1>2. head # Null => head \in Skbs /\ head # n /\ segs'[head] = segs[head]
    BY DEF IInv, TypeOK, HeldInv, InHead, Skbs
<1>3. \A m \in Skbs : InHead(m)' <=> InHead(m)
    BY <1>2 DEF InHead
<1>4. HeldInv'
    BY <1>3 DEF IInv, HeldInv
<1>5. ListInv'
    BY <1>2 DEF IInv, ListInv
<1>6. PoolInv'
    BY DEF IInv, PoolInv
<1> QED  BY <1>1, <1>4, <1>5, <1>6 DEF IInv

LEMMA PassStep ==
    ASSUME IInv, NEW n \in Skbs, RxDirect(n) \/ Refill(n)
    PROVE  IInv'
<1>1. CASE RxDirect(n)
  <2>1. /\ state' = [m \in Skbs |-> IF m = n THEN "host" ELSE state[m]]
        /\ segs' = [m \in Skbs |-> IF m = n THEN << >> ELSE segs[m]]
      BY <1>1 DEF RxDirect, Leave
  <2> QED  BY <1>1, <2>1, OutsideStep, ListTypes DEF RxDirect, IInv, TypeOK
<1>2. CASE Refill(n)
    BY <1>2, OutsideStep, ListTypes DEF Refill, IInv, TypeOK
<1> QED  BY <1>1, <1>2

LEMMA PagedStep ==
    ASSUME IInv, NEW n \in Paged, state[n] = "nss",
           NEW first \in BOOLEAN, NEW last \in BOOLEAN,
           nss_core_handle_nr_frag_skb(n, first, last)
    PROVE  IInv'
<1>0. /\ n \in Skbs /\ n \notin Linear
      /\ TypeOK /\ HeldInv
    BY SkbAssumption DEF Skbs, IInv
<1>1. CASE PagedFull(n)
    BY <1>0, <1>1, Emptied, ListTypes DEF PagedFull, TypeOK
<1>2. CASE PagedFirst(n)
  <2> DEFINE gone == Unfinished(head) \cup Unfinished(jumbo_start)
  <2>1. n \notin gone
      BY <1>0, PoolIsOutside
  <2>2. \A m \in Skbs : state[m] = "held" => m \in gone
      BY <1>0, UnfinishedMembers DEF HeldInv
  <2>3. TypeOK'
      BY <1>0, <1>2, ListTypes DEF PagedFirst, TypeOK
  <2>4. \A m \in Skbs : state'[m] = "held" <=> m = n
      BY <1>0, <1>2, <2>2 DEF PagedFirst
  <2>5. HeldInv'
      BY <1>2, <2>4 DEF PagedFirst, HeldInv, InHead
  <2>6. ListInv'
      BY <1>2 DEF PagedFirst, ListInv
  <2>7. PoolInv'
      BY <1>0, <1>2 DEF PagedFirst, IInv, PoolInv
  <2> QED  BY <2>3, <2>5, <2>6, <2>7 DEF IInv
<1>3. CASE PagedOrphan(n)
  <2>1. Unfinished(jumbo_start) = {}
      BY <1>3 DEF PagedOrphan, Unfinished
  <2> QED  BY <1>0, <1>3, <2>1, Emptied DEF PagedOrphan, TypeOK
<1>4. CASE PagedMiddle(n)
  <2>1. head = Null /\ Unfinished(head) = {} /\ jumbo_start \in Skbs
      BY <1>0, <1>4 DEF PagedMiddle, HeldInv, Unfinished, TypeOK, Skbs
  <2>2. Append(segs[jumbo_start], n) \in Seq(Skbs \cup {Foreign})
      BY <1>0, <2>1 DEF TypeOK
  <2>3. /\ state' = [m \in Skbs |-> IF m = n THEN "host" ELSE state[m]]
        /\ segs' = [m \in Skbs |-> IF m = jumbo_start THEN Append(segs[m], n)
                                   ELSE IF m = n THEN << >> ELSE segs[m]]
      BY <1>4, <2>1 DEF PagedMiddle
  <2>4. TypeOK'
      BY <1>0, <1>4, <2>2, <2>3, ListTypes DEF PagedMiddle, TypeOK
  <2>5. HeldInv'
      BY <1>0, <1>4, <2>1, <2>3 DEF PagedMiddle, HeldInv, InHead
  <2>6. ListInv'
      BY <1>4 DEF PagedMiddle, ListInv
  <2>7. state[jumbo_start] = "held"
      BY <1>0, <2>1 DEF HeldInv
  <2>8. PoolInv'
      BY <2>3, <2>7 DEF IInv, PoolInv
  <2> QED  BY <2>4, <2>5, <2>6, <2>8 DEF IInv
<1>5. CASE PagedLast(n)
  <2>1. jumbo_start \in Skbs /\ Unfinished(jumbo_start) = {jumbo_start}
      BY <1>0, <1>5, UnfinishedMembers DEF PagedLast, TypeOK, Skbs
  <2>2. Append(Frame(jumbo_start), n) \in Seq(Skbs \cup {Foreign})
      BY <1>0, <2>1, ListTypes DEF TypeOK, Frame
  <2> QED  BY <1>0, <1>5, <2>1, <2>2, Emptied DEF PagedLast, TypeOK
<1> QED  BY <1>1, <1>2, <1>3, <1>4, <1>5 DEF nss_core_handle_nr_frag_skb

LEMMA LinearStep ==
    ASSUME ~ ChainedMayInterrupt,
           IInv, NEW n \in Linear, state[n] = "nss",
           NEW first \in BOOLEAN, NEW last \in BOOLEAN,
           nss_core_handle_linear_skb(n, first, last)
    PROVE  IInv'
<1>0. /\ n \in Skbs /\ n # Null /\ TypeOK /\ HeldInv
      /\ segs[n] \in Seq(Skbs \cup {Foreign})
    BY SkbAssumption DEF Skbs, IInv, TypeOK
<1>1. CASE LinearFull(n)
  <2>1. Frame(n) \in Seq(Skbs \cup {Foreign})
      BY <1>0, ListTypes DEF Frame
  <2> QED  BY <1>0, <1>1, <2>1, Emptied DEF LinearFull, TypeOK
<1>2. CASE LinearFirst(n)
  <2> DEFINE gone == Unfinished(head) \cup Unfinished(jumbo_start)
  <2>1. n \notin gone
      BY <1>0, PoolIsOutside
  <2>2. \A m \in Skbs : state[m] = "held" => m \in gone
      BY <1>0, UnfinishedMembers DEF HeldInv
  <2>3. TypeOK'
      BY <1>0, <1>2, ListTypes DEF LinearFirst, TypeOK
  <2>4. \A m \in Skbs : state'[m] = "held" <=> m = n
      BY <1>0, <1>2, <2>2 DEF LinearFirst
  <2>5. head' = n /\ segs'[n] = << >> /\ jumbo_start' = Null
      BY <1>0, <1>2, <2>1 DEF LinearFirst
  <2>6. HeldInv'
      BY <1>0, <2>4, <2>5, ListTypes DEF HeldInv, InHead
  <2>7. ListInv'
      BY <2>5 DEF ListInv
  <2>8. PoolInv'
      BY <1>0, <1>2 DEF LinearFirst, IInv, PoolInv
  <2> QED  BY <2>3, <2>6, <2>7, <2>8 DEF IInv
<1>3. CASE LinearFirstChained(n)
  <2>1. head = Null
      BY <1>3 DEF LinearFirstChained
  <2> QED  BY <1>0, <1>3, <2>1, Emptied DEF LinearFirstChained, TypeOK
<1>4. CASE LinearOrphan(n)
  <2>1. Unfinished(head) = {}
      BY <1>4 DEF LinearOrphan, Unfinished
  <2> QED  BY <1>0, <1>4, <2>1, Emptied DEF LinearOrphan, TypeOK
<1>5. CASE LinearMiddle(n)
  <2> DEFINE s == segs[head]
             t == Append(s, n)
  <2>1. /\ head \in Skbs /\ jumbo_start = Null /\ Unfinished(jumbo_start) = {}
        /\ head # Null
      BY <1>0, <1>5 DEF LinearMiddle, HeldInv, Unfinished, TypeOK, Skbs
  <2>2. LinkedBehindTail(n) = t /\ s \in Seq(Skbs \cup {Foreign})
      BY <2>1, LinkedLast
  <2>3. /\ state' = [m \in Skbs |-> IF m = n THEN "held" ELSE state[m]]
        /\ segs' = [m \in Skbs |-> IF m = head THEN t ELSE segs[m]]
        /\ tail' = n /\ head' = head /\ jumbo_start' = Null /\ out' = out
      BY <1>5, <2>1, <2>2 DEF LinearMiddle
  <2>4. /\ t \in Seq(Skbs \cup {Foreign})
        /\ Len(t) = Len(s) + 1 /\ Len(s) \in Nat /\ t # << >>
        /\ \A i \in 1..Len(s) : t[i] = s[i]
        /\ t[Len(t)] = n
      BY <1>0, <2>2
  <2>5. TypeOK'
      BY <1>0, <2>1, <2>3, <2>4 DEF TypeOK
  <2>6. \A m \in Skbs : InHead(m)' <=> InHead(m) \/ m = n
    <3>1. segs'[head] = t
        BY <2>1, <2>3
    <3> HIDE DEF t, s
    <3>2. ASSUME NEW m \in Skbs, NEW i \in 1..Len(s), s[i] = m
          PROVE  \E k \in 1..Len(t) : t[k] = m
        BY <2>4, <3>2
    <3>3. \E k \in 1..Len(t) : t[k] = n
        BY <2>4
    <3>4. ASSUME NEW m \in Skbs, NEW k \in 1..Len(t), t[k] = m
          PROVE  m = n \/ \E i \in 1..Len(s) : s[i] = m
      <4>1. k \in 1..Len(s) \/ k = Len(t)
          BY <2>4
      <4> QED  BY <2>4, <3>4, <4>1
    <3>5. \A m \in Skbs : InHead(m) <=> m = head \/ \E i \in 1..Len(s) : s[i] = m
        BY <2>1 DEF InHead, s
    <3>6. \A m \in Skbs : InHead(m)' <=> m = head \/ \E i \in 1..Len(t) : t[i] = m
        BY <2>1, <2>3, <3>1 DEF InHead
    <3> QED  BY <3>2, <3>3, <3>4, <3>5, <3>6
  <2>7. HeldInv'
      BY <1>0, <2>1, <2>3, <2>6, ListTypes DEF HeldInv
  <2>8. ListInv'
    <3>1. segs'[head] = t
        BY <2>1, <2>3
    <3>2. n # head /\ \A i \in 1..Len(s) : s[i] # n
        BY <1>0, <2>1, PoolIsOutside DEF InHead
    <3>3. /\ \A i \in 1..Len(s) : s[i] \in Linear \ {head}
          /\ \A i, j \in 1..Len(s) : s[i] = s[j] => i = j
        BY <2>1 DEF IInv, ListInv
    <3> HIDE DEF t, s
    <3>4. \A i \in 1..Len(t) : i \in 1..Len(s) \/ i = Len(t)
        BY <2>4
    <3>5. \A i \in 1..Len(t) : t[i] \in Linear \ {head}
        BY <2>4, <3>2, <3>3, <3>4
    <3>6. \A i, j \in 1..Len(t) : t[i] = t[j] => i = j
        BY <2>4, <3>2, <3>3, <3>4
    <3>7. t # << >> => tail' = t[Len(t)]
        BY <2>3, <2>4
    <3>8. head' = head
        BY <2>3
    <3> QED  BY <3>1, <3>5, <3>6, <3>7, <3>8 DEF ListInv
  <2>9. state[head] = "held"
      BY <1>0, <2>1 DEF HeldInv, InHead
  <2>10. PoolInv'
      BY <2>3, <2>9 DEF IInv, PoolInv
  <2> QED  BY <2>5, <2>7, <2>8, <2>10 DEF IInv
<1>6. CASE LinearLast(n)
  <2>1. head \in Skbs
      BY <1>0, <1>6 DEF LinearLast, TypeOK, Skbs
  <2>2. out' = << head >> \o Append(segs[head], n)
      BY <1>6, LinkedLast DEF LinearLast
  <2>3. out' \in Seq(Skbs \cup {Foreign})
      BY <1>0, <2>1, <2>2, ListTypes DEF TypeOK
  <2> QED  BY <1>0, <1>6, <2>3, Emptied DEF LinearLast, TypeOK
<1> QED  BY <1>1, <1>2, <1>3, <1>4, <1>5, <1>6 DEF nss_core_handle_linear_skb

LEMMA NextInv ==
    ASSUME ~ ChainedMayInterrupt, IInv, [Next]_vars
    PROVE  IInv'
<1>1. ASSUME NEW n \in Skbs, RxDirect(n) \/ Refill(n)
      PROVE  IInv'
    BY <1>1, PassStep
<1>2. ASSUME NEW n \in Skbs, NEW first \in BOOLEAN, NEW last \in BOOLEAN,
             RxFrame(n, first, last)
      PROVE  IInv'
    BY <1>2, PagedStep, LinearStep DEF RxFrame
<1>3. CASE UNCHANGED vars
  <2>1. \A m \in Skbs : InHead(m)' <=> InHead(m)
      BY <1>3 DEF vars, InHead
  <2> QED  BY <1>3, <2>1 DEF vars, IInv, TypeOK, HeldInv, ListInv, PoolInv
<1> QED  BY <1>1, <1>2, <1>3 DEF Next

\* The invariant gives the properties.
LEMMA InvImplies == IInv => WellFormed /\ NoDanglingFrame /\ NothingLeaked
<1> SUFFICES ASSUME IInv PROVE WellFormed /\ NoDanglingFrame /\ NothingLeaked
    OBVIOUS
<1>1. WellFormed
    BY DEF IInv, ListInv, WellFormed, TailIsLast
<1>2. NoDanglingFrame
    BY DEF IInv, TypeOK, HeldInv, NoDanglingFrame, InHead, Skbs
<1>3. NothingLeaked
    BY UnfinishedMembers DEF IInv, HeldInv, NothingLeaked
<1> QED  BY <1>1, <1>2, <1>3

LEMMA Invariance ==
    ASSUME ~ ChainedMayInterrupt
    PROVE  Spec => []IInv
<1>1. Init => IInv
    BY InitInv
<1>2. IInv /\ [Next]_vars => IInv'
    BY NextInv
<1> QED  BY <1>1, <1>2, PTL DEF Spec

\* nss_core.c 745-842: a segment is linked nowhere but behind the last one of
\* the unfinished frame, although tail is seldom reset; for any sets of buffers.
THEOREM TailKept ==
    ASSUME ~ ChainedMayInterrupt
    PROVE  Spec => []WellFormed
    BY Invariance, InvImplies, PTL

\* nss_core.c 660-842: no path of the two assemblers leaves head or jumbo_start
\* at a buffer that was freed or passed on.
THEOREM NoneDangling ==
    ASSUME ~ ChainedMayInterrupt
    PROVE  Spec => []NoDanglingFrame
    BY Invariance, InvImplies, PTL

\* nss_core.c 660-842: no path of the two assemblers, the error paths included,
\* forgets a buffer.
THEOREM NoneLeaked ==
    ASSUME ~ ChainedMayInterrupt
    PROVE  Spec => []NothingLeaked
    BY Invariance, InvImplies, PTL

(***************************************************************************)
(* The ring implements FrameAssembly.                                      *)
(***************************************************************************)

\* A frame without a member that a buffer has brought along is as it is.
LEMMA RingFrames ==
    /\ FromRing(<< >>) = << >>
    /\ \A n \in Skbs : FromRing(<< n >>) = << n >>
    /\ \A n \in Skbs : FromRing(<< n, Foreign >>) = << n >>
    /\ \A n \in Skbs, s \in Seq(Skbs \cup {Foreign}) :
            FromRing(Append(s, n)) = Append(s, n)
<1>1. FromRing(<< >>) = << >>
    BY DEF FromRing
<1>2. ASSUME NEW n \in Skbs
      PROVE  FromRing(<< n >>) = << n >>
    BY ListTypes DEF FromRing
<1>3. ASSUME NEW n \in Skbs
      PROVE  FromRing(<< n, Foreign >>) = << n >>
  <2>1. << n, Foreign >> \in Seq(Skbs \cup {Foreign})
      OBVIOUS
  <2>2. Len(<< n, Foreign >>) = 2 /\ << n, Foreign >>[2] = Foreign
      OBVIOUS
  <2> DEFINE t == SubSeq(<< n, Foreign >>, 1, 1)
  <2>3. t \in Seq(Skbs \cup {Foreign}) /\ Len(t) = 1 /\ t[1] = n
      BY <2>1
  <2> HIDE DEF t
  <2>4. t = << n >>
      BY <2>3
  <2> QED  BY <2>2, <2>4 DEF FromRing, t
<1>4. ASSUME NEW n \in Skbs, NEW s \in Seq(Skbs \cup {Foreign})
      PROVE  FromRing(Append(s, n)) = Append(s, n)
  <2>1. Append(s, n)[Len(Append(s, n))] = n
      OBVIOUS
  <2> QED  BY <2>1, ListTypes DEF FromRing
<1> QED  BY <1>1, <1>2, <1>3, <1>4

\* What a segment of either kind continues.
LEMMA Continues ==
    ASSUME IInv, NEW n \in Skbs
    PROVE  /\ Frames!Continued(n, TRUE) = << >>
           /\ n \in Paged => Frames!Continued(n, FALSE) =
                    IF jumbo_start # Null THEN Frame(jumbo_start) ELSE << >>
           /\ n \in Linear => Frames!Continued(n, FALSE) =
                    IF head # Null THEN Frame(head) ELSE << >>
<1>1. Frames!Continued(n, TRUE) = << >>
    BY DEF Frames!Continued
<1>2. \A m \in Skbs : Frame(m) # << >> /\ Frame(m)[1] = m
    BY DEF IInv, TypeOK, Frame
<1>3. /\ head # Null => head \in Skbs /\ KindOf(head) = "linear" /\ jumbo_start = Null
      /\ jumbo_start # Null => jumbo_start \in Skbs /\ KindOf(jumbo_start) = "paged"
    BY SkbAssumption DEF IInv, TypeOK, HeldInv, KindOf, Skbs
<1>4. /\ n \in Paged => KindOf(n) = "paged"
      /\ n \in Linear => KindOf(n) = "linear"
    BY SkbAssumption DEF KindOf
<1> QED  BY <1>1, <1>2, <1>3, <1>4 DEF Frames!Continued, Opened

\* The frame being received is not touched by what passes by.
LEMMA OpenedKept ==
    ASSUME IInv, NEW n \in Skbs, state[n] # "held",
           UNCHANGED << head, jumbo_start >>,
           \A m \in Skbs \ {n} : segs'[m] = segs[m]
    PROVE  Opened' = Opened
<1>1. \A m \in {head, jumbo_start} \ {Null} : m \in Skbs /\ m # n
    BY DEF IInv, TypeOK, HeldInv, InHead, Skbs
<1> QED  BY <1>1 DEF Opened, Frame

LEMMA PassRefines ==
    ASSUME IInv, NEW n \in Skbs, RxDirect(n) \/ Refill(n)
    PROVE  [Frames!Next]_<< Opened, FromRing(out) >>
<1>1. Opened' = Opened
    BY OpenedKept DEF RxDirect, Refill, Leave, IInv, TypeOK
<1>2. CASE RxDirect(n)
  <2>1. FromRing(out)' = << n >>
      BY <1>2, RingFrames DEF RxDirect
  <2> QED  BY <1>1, <2>1 DEF Frames!Next, Frames!Pass
<1>3. CASE Refill(n)
  <2>1. FromRing(out)' = FromRing(out)
      BY <1>3 DEF Refill, FromRing
  <2> QED  BY <1>1, <2>1
<1> QED  BY <1>2, <1>3

LEMMA PagedRefines ==
    ASSUME IInv, NEW n \in Paged, state[n] = "nss",
           NEW first \in BOOLEAN, NEW last \in BOOLEAN,
           nss_core_handle_nr_frag_skb(n, first, last)
    PROVE  Frames!Receive(n, first, last)
<1>0. /\ n \in Skbs /\ n # Null /\ n \notin Chained /\ KindOf(n) = "paged"
      /\ TypeOK /\ HeldInv
    BY SkbAssumption DEF Skbs, IInv, KindOf
<1>1. CASE first /\ last /\ PagedFull(n)
  <2>1. Opened' = << >>
      BY <1>1 DEF PagedFull, Opened
  <2>2. FromRing(out)' \in {FromRing(out), << n >>}
      BY <1>0, <1>1, RingFrames DEF PagedFull
  <2>3. Append(<< >>, n) = << n >>
      OBVIOUS
  <2> QED  BY <1>0, <1>1, <2>1, <2>2, <2>3, Continues DEF Frames!Receive
<1>2. CASE first /\ ~ last /\ PagedFirst(n)
  <2>1. n \notin Unfinished(head) \cup Unfinished(jumbo_start)
      BY <1>0, PoolIsOutside
  <2>2. segs'[n] = << >>
      BY <1>0, <1>2, <2>1, PoolIsOutside
      DEF PagedFirst, IInv, PoolInv, InitialSegs
  <2>3. Opened' = << n >>
    <3>1. Opened' = << n >> \o << >>
        BY <1>0, <1>2, <2>2 DEF PagedFirst, Opened, Frame
    <3> QED  BY <3>1
  <2>4. FromRing(out)' = FromRing(out)
      BY <1>2 DEF PagedFirst
  <2>5. Append(<< >>, n) = << n >>
      OBVIOUS
  <2> QED  BY <1>0, <1>2, <2>3, <2>4, <2>5, Continues DEF Frames!Receive
<1>3. CASE ~ first /\ PagedOrphan(n)
  <2>1. Opened' = << >> /\ FromRing(out)' = FromRing(out)
      BY <1>3 DEF PagedOrphan, Opened
  <2>2. Frames!Continued(n, first) = << >>
      BY <1>0, <1>3, Continues DEF PagedOrphan
  <2> QED  BY <1>3, <2>1, <2>2 DEF Frames!Receive
<1>4. CASE ~ first /\ ~ last /\ PagedMiddle(n)
  <2>1. /\ head = Null /\ jumbo_start \in Skbs /\ jumbo_start # Null
        /\ segs[jumbo_start] \in Seq(Skbs \cup {Foreign})
      BY <1>0, <1>4 DEF PagedMiddle, HeldInv, TypeOK, Skbs
  <2>2. Frames!Continued(n, first) = Frame(jumbo_start)
      BY <1>0, <1>4, <2>1, Continues
  <2>3. segs'[jumbo_start] = Append(segs[jumbo_start], n)
      BY <1>4, <2>1 DEF PagedMiddle
  <2>4. Opened' = << jumbo_start >> \o Append(segs[jumbo_start], n)
      BY <1>4, <2>1, <2>3 DEF PagedMiddle, Opened, Frame
  <2>5. Opened' = Append(Frame(jumbo_start), n)
      BY <1>0, <2>1, <2>4 DEF Frame
  <2>6. FromRing(out)' = FromRing(out) /\ Frame(jumbo_start) # << >>
      BY <1>4, <2>1 DEF PagedMiddle, Frame
  <2> QED  BY <1>4, <2>2, <2>5, <2>6 DEF Frames!Receive
<1>5. CASE ~ first /\ last /\ PagedLast(n)
  <2>1. jumbo_start \in Skbs /\ jumbo_start # Null
      BY <1>0, <1>5 DEF PagedLast, TypeOK, Skbs
  <2>2. Frames!Continued(n, first) = Frame(jumbo_start)
      BY <1>0, <1>5, <2>1, Continues
  <2>3. Frame(jumbo_start) \in Seq(Skbs \cup {Foreign}) /\ Frame(jumbo_start) # << >>
      BY <1>0, <2>1, ListTypes DEF TypeOK, Frame
  <2>4. Opened' = << >>
      BY <1>5 DEF PagedLast, Opened
  <2>5. FromRing(out)' \in {FromRing(out), Append(Frame(jumbo_start), n)}
      BY <1>0, <1>5, <2>3, RingFrames DEF PagedLast
  <2> QED  BY <1>0, <1>5, <2>2, <2>3, <2>4, <2>5 DEF Frames!Receive
<1> QED  BY <1>1, <1>2, <1>3, <1>4, <1>5 DEF nss_core_handle_nr_frag_skb

LEMMA LinearRefines ==
    ASSUME ~ ChainedMayInterrupt,
           IInv, NEW n \in Linear, state[n] = "nss",
           NEW first \in BOOLEAN, NEW last \in BOOLEAN,
           nss_core_handle_linear_skb(n, first, last)
    PROVE  Frames!Receive(n, first, last)
<1>0. /\ n \in Skbs /\ n # Null /\ KindOf(n) = "linear"
      /\ segs[n] = InitialSegs(n)
      /\ TypeOK /\ HeldInv
    BY SkbAssumption DEF Skbs, IInv, KindOf, PoolInv
<1>1. << n >> \o << >> = << n >> /\ Append(<< >>, n) = << n >>
    OBVIOUS
<1>2. CASE first /\ last /\ LinearFull(n)
  <2>1. Opened' = << >>
      BY <1>2 DEF LinearFull, Opened
  <2>2. << n >> \o << Foreign >> = << n, Foreign >>
    <3> DEFINE t == << n >> \o << Foreign >>
    <3>1. t \in Seq(Skbs \cup {Foreign}) /\ Len(t) = 2 /\ t[1] = n /\ t[2] = Foreign
        BY <1>0
    <3> HIDE DEF t
    <3>2. t = << n, Foreign >>
        BY <3>1
    <3> QED  BY <3>2 DEF t
  <2>3. Frame(n) \in {<< n >>, << n, Foreign >>}
      BY <1>0, <1>1, <2>2 DEF Frame, InitialSegs
  <2>4. FromRing(out)' = << n >>
    <3>1. out' \in {<< n >>, << n, Foreign >>}
        BY <1>2, <2>3 DEF LinearFull
    <3> QED  BY <1>0, <3>1, RingFrames
  <2> QED  BY <1>0, <1>1, <1>2, <2>1, <2>4, Continues DEF Frames!Receive
<1>3. CASE first /\ ~ last /\ LinearFirst(n)
  <2>1. n \notin Unfinished(head) \cup Unfinished(jumbo_start)
      BY <1>0, PoolIsOutside
  <2>2. segs'[n] = << >> /\ n \notin Chained
      BY <1>0, <1>3, <2>1 DEF LinearFirst, InitialSegs
  <2>3. Opened' = << n >>
    <3>1. Opened' = << n >> \o << >>
        BY <1>0, <1>3, <2>2 DEF LinearFirst, Opened, Frame
    <3> QED  BY <3>1
  <2>4. FromRing(out)' = FromRing(out)
      BY <1>3 DEF LinearFirst
  <2> QED  BY <1>0, <1>1, <1>3, <2>2, <2>3, <2>4, Continues DEF Frames!Receive
<1>4. CASE first /\ ~ last /\ LinearFirstChained(n)
  <2>1. n \in Chained
      BY <1>0, <1>4 DEF LinearFirstChained, InitialSegs
  <2>2. Opened' = << >> /\ FromRing(out)' = FromRing(out)
      BY <1>4 DEF LinearFirstChained, Opened
  <2> QED  BY <1>4, <2>1, <2>2 DEF Frames!Receive
<1>5. CASE ~ first /\ LinearOrphan(n)
  <2>1. Opened' = << >> /\ FromRing(out)' = FromRing(out)
      BY <1>5 DEF LinearOrphan, Opened
  <2>2. Frames!Continued(n, first) = << >>
      BY <1>0, <1>5, Continues DEF LinearOrphan
  <2> QED  BY <1>5, <2>1, <2>2 DEF Frames!Receive
<1>6. CASE ~ first /\ ~ last /\ LinearMiddle(n)
  <2>1. head # Null /\ head \in Skbs
      BY <1>0, <1>6 DEF LinearMiddle, TypeOK, Skbs
  <2>2. /\ LinkedBehindTail(n) = Append(segs[head], n)
        /\ segs[head] \in Seq(Skbs \cup {Foreign})
      BY <2>1, LinkedLast
  <2>3. Frames!Continued(n, first) = Frame(head)
      BY <1>0, <1>6, <2>1, Continues
  <2>4. segs'[head] = Append(segs[head], n)
      BY <1>6, <2>1, <2>2 DEF LinearMiddle
  <2>5. Opened' = << head >> \o Append(segs[head], n)
      BY <1>6, <2>1, <2>4 DEF LinearMiddle, Opened, Frame
  <2>6. Opened' = Append(Frame(head), n)
      BY <1>0, <2>1, <2>2, <2>5 DEF Frame
  <2>7. FromRing(out)' = FromRing(out) /\ Frame(head) # << >>
      BY <1>6, <2>1, <2>2 DEF LinearMiddle, Frame
  <2> QED  BY <1>6, <2>3, <2>6, <2>7 DEF Frames!Receive
<1>7. CASE ~ first /\ last /\ LinearLast(n)
  <2>1. head # Null /\ head \in Skbs
      BY <1>0, <1>7 DEF LinearLast, TypeOK, Skbs
  <2>2. /\ LinkedBehindTail(n) = Append(segs[head], n)
        /\ segs[head] \in Seq(Skbs \cup {Foreign})
      BY <2>1, LinkedLast
  <2>3. Frames!Continued(n, first) = Frame(head)
      BY <1>0, <1>7, <2>1, Continues
  <2>4. /\ Frame(head) \in Seq(Skbs \cup {Foreign}) /\ Frame(head) # << >>
        /\ << head >> \o Append(segs[head], n) = Append(Frame(head), n)
      BY <1>0, <2>1, <2>2, ListTypes DEF Frame
  <2>5. Opened' = << >>
      BY <1>7 DEF LinearLast, Opened
  <2>6. FromRing(out)' = Append(Frame(head), n)
    <3>1. out' = Append(Frame(head), n)
        BY <1>7, <2>2, <2>4 DEF LinearLast
    <3> QED  BY <1>0, <2>4, <3>1, RingFrames
  <2> QED  BY <1>7, <2>3, <2>4, <2>5, <2>6 DEF Frames!Receive
<1> QED  BY <1>2, <1>3, <1>4, <1>5, <1>6, <1>7 DEF nss_core_handle_linear_skb

LEMMA StepRefines ==
    ASSUME ~ ChainedMayInterrupt, IInv, [Next]_vars
    PROVE  [Frames!Next]_<< Opened, FromRing(out) >>
<1>1. ASSUME NEW n \in Skbs, RxDirect(n) \/ Refill(n)
      PROVE  [Frames!Next]_<< Opened, FromRing(out) >>
    BY <1>1, PassRefines
<1>2. ASSUME NEW n \in Skbs, NEW first \in BOOLEAN, NEW last \in BOOLEAN,
             RxFrame(n, first, last)
      PROVE  Frames!Next
  <2>1. Frames!Receive(n, first, last)
      BY <1>2, PagedRefines, LinearRefines DEF RxFrame
  <2> QED  BY <2>1 DEF Frames!Next
<1>3. CASE UNCHANGED vars
    BY <1>3 DEF vars, Opened, Frame, FromRing
<1> QED  BY <1>1, <1>2, <1>3 DEF Next

\* nss_core.c 660-842: what the two assemblers hand to nss_core_rx_pbuf() is
\* what FrameAssembly promises: the segments of one frame, complete and in
\* order; every descriptor is one of its steps or none.
THEOREM Refinement ==
    ASSUME ~ ChainedMayInterrupt
    PROVE  Spec => ImplementsFrameAssembly
<1>1. Init => Frames!Init
    BY RingFrames DEF Init, Frames!Init, Opened
<1>2. IInv /\ [Next]_vars => [Frames!Next]_<< Opened, FromRing(out) >>
    BY StepRefines
<1> QED  BY <1>1, <1>2, Invariance, PTL DEF Spec, ImplementsFrameAssembly, Frames!Spec
=============================================================================
