--------------------------- MODULE VirtIf_proofs ---------------------------
(***************************************************************************)
(* The interfaces of VirtIf for any processes, numbers, handles and room   *)
(* in the rings: no answer meets freed memory, an interface in use is      *)
(* known everywhere, and devices are referenced.                           *)
(*                                                                         *)
(* The code has no lock around any of this.  What protects a number, and a *)
(* handle, is that at each moment they belong to one place: to a process   *)
(* in the middle of a call, to the user, or to a message.                  *)
(***************************************************************************)
EXTENDS VirtIf, FiniteSetTheorems, TLAPS

(***************************************************************************)
(* The inductive invariant.                                                *)
(***************************************************************************)

\* Where a process works on the handle of its job, and where the number of
\* its job belongs to it.
Working == {"register", "create", "wait", "ndev", "hold", "put", "destroy",
            "dealloc", "dealloc_wait", "free", "async"}
Having == {"handle", "register", "create", "wait", "ndev", "hold", "put",
           "destroy", "dealloc", "async"}
Places == Working \cup Having \cup {"idle", "alloc", "alloc_wait", "unregister"}

Holds(c, h) == pc[c] \in Working /\ job[c].h = h

Has(c, i) ==
    \/ pc[c] \in Having /\ job[c].i = i
    \/ pc[c] = "alloc_wait" /\ got[c] # Null /\ got[c].ack /\ got[c].i = i

Owned(h) == hd[h].owner # Null

\* The handler of its number was registered by c, and is c's to unregister.
Registered(c) ==
    \/ pc[c] \in {"create", "wait", "ndev", "hold", "unregister"}
    \/ /\ pc[c] \in {"put", "destroy", "dealloc", "dealloc_wait", "free", "async"}
       /\ job[c].user /\ job[c].file # "wifi"

Jobs == [file : Files, h : Handles \cup {Null}, i : IfNums \cup {Null},
         user : BOOLEAN, dev : Callers \cup {Null}, next : {"destroy", "async"}]

\* What a process works with.
JobOK(c) ==
    /\ pc[c] \in {"alloc", "alloc_wait", "handle", "register"} => ~ job[c].user
    /\ pc[c] \in {"alloc", "alloc_wait"} => job[c].i = Null
    /\ pc[c] \in {"alloc", "alloc_wait", "handle"} => job[c].h = Null
    /\ pc[c] \in Having \cup {"dealloc_wait", "free", "unregister"} =>
            job[c].i \in IfNums
    /\ pc[c] \in Working \ {"dealloc", "dealloc_wait"} => job[c].h \in Handles
    /\ pc[c] = "put" => job[c].user /\ job[c].dev \in Callers
    /\ pc[c] = "put" /\ job[c].next = "async" => job[c].file = "virt_if"
    /\ pc[c] = "async" => job[c].user /\ job[c].file = "virt_if"
    /\ got[c] # Null =>
            \/ pc[c] = "alloc_wait" /\ (got[c].ack => got[c].i \in IfNums)
            \/ pc[c] = "dealloc_wait"

JobInv == job \in [Callers -> Jobs] /\ \A c \in Callers : JobOK(c)

\* A handle that is worked on is live, as its job says, and no one else's.
HandleInv ==
    /\ \A c \in Callers, h \in Handles : Holds(c, h) =>
            /\ hd[h].st = "live" /\ hd[h].owner = Null
            /\ hd[h].i = job[c].i /\ hd[h].file = job[c].file
            /\ pc[c] \in {"register", "create"} => hd[h].done = "no"
    /\ \A c, d \in Callers, h \in Handles : Holds(c, h) /\ Holds(d, h) => c = d
    /\ \A h \in Handles : hd[h].st = "new" =>
            /\ hd[h].file = "virt_if" /\ hd[h].i = Null
            /\ hd[h].owner = Null /\ hd[h].done = "no"
    /\ \A h \in Handles : Owned(h) => hd[h].st = "live" /\ hd[h].i \in IfNums

\* The messages on their way: those in the rings, and the poll's.
InRings == {cmds[k] : k \in DOMAIN cmds} \cup {replies[k] : k \in DOMAIN replies}
InFlight == InRings \cup (IF cur = Null THEN {} ELSE {cur.m})

\* A handle that waits for its number gets it when the poll has the answer.
NumberOK(m) ==
    hd[m.h].i # Null => hd[m.h].i = m.i /\ cur # Null /\ cur.m.h = m.h

\* What a message is about, by its kind: the answer to a synchronous call, a
\* handle that has its node allocated or given back without waiting, or the
\* CREATE of a handle that its process still waits for, or no longer does.
MsgOK(m) ==
    /\ m.op = "alloc" => (m.i \in IfNums <=> m.ack)
    /\ m.op # "alloc" => m.i \in IfNums
    /\ m.h = Null /\ m.from # Null =>
            /\ m.op \in {"alloc", "dealloc"}
            /\ pc[m.from] = IF m.op = "alloc" THEN "alloc_wait" ELSE "dealloc_wait"
            /\ got[m.from] = Null
            /\ m.op = "dealloc" => m.i = job[m.from].i
    /\ m.h # Null => /\ m.op \in {"alloc", "dealloc", "create"}
                     /\ hd[m.h].st = "live" /\ hd[m.h].owner = Null
    /\ m.h # Null /\ m.op \in {"alloc", "dealloc"} =>
            /\ hd[m.h].file = "virt_if"
            /\ m.op = "alloc" => NumberOK(m)
            /\ m.op = "dealloc" => hd[m.h].i = m.i
            /\ \A c \in Callers : ~ Holds(c, m.h)
            /\ m.op = "alloc" => m.from \in Callers
    /\ m.h # Null /\ m.op = "create" =>
            /\ hd[m.h].i = m.i /\ hd[m.h].done = "no"
            /\ \A c \in Callers : Holds(c, m.h) =>
                    \/ pc[c] \in {"wait", "destroy", "dealloc"}
                    \/ pc[c] = "dealloc_wait" /\ got[c] = Null

CurOK ==
    cur # Null =>
        /\ cur \in [m : Msgs, h : Handles \cup {Null}]
        /\ cur.m.op \in {"alloc", "dealloc"} => cur.h = cur.m.h
        /\ cur.m.op \in {"create", "stats"} =>
                /\ cur.h \in Handles
                /\ hd[cur.h].st # "new"
                /\ hd[cur.h].file = "wifi" =>
                        /\ hd[cur.h].st = "live"
                        /\ \A c \in Callers : Holds(c, cur.h) =>
                                /\ pc[c] # "free"
                                /\ pc[c] = "dealloc_wait" => got[c] = Null

MsgInv ==
    /\ \A m \in InFlight : MsgOK(m)
    /\ \A k \in DOMAIN cmds : ~ cmds[k].ack /\ cmds[k].op # "stats"
    /\ CurOK

\* A message that has a number with it: an allocated one, or one to be given
\* back; and one that speaks of the end of a number.
Claims(m) == (m.op = "alloc" /\ m.ack) \/ (m.op = "dealloc" /\ ~ m.ack)
Touches(m) == Claims(m) \/ m.op = "dealloc"

\* Of two messages, x before y: they have different handles and callers, a
\* number is in one of them only, and the answer to a CREATE never comes behind
\* the message that gives the node back.
Apart(x, y) ==
    /\ x.h # Null => x.h # y.h
    /\ x.h = Null /\ y.h = Null /\ x.from # Null => x.from # y.from
    /\ Claims(x) /\ Touches(y) => x.i # y.i
    /\ x.op = "dealloc" /\ y.op = "create" /\ y.h # Null => x.i # y.i

PairInv ==
    /\ \A p, q \in DOMAIN cmds : p < q => Apart(cmds[p], cmds[q])
    /\ \A p, q \in DOMAIN replies : p < q => Apart(replies[p], replies[q])
    /\ \A p \in DOMAIN replies, q \in DOMAIN cmds : Apart(replies[p], cmds[q])
    /\ cur # Null =>
            /\ \A q \in DOMAIN replies : Apart(cur.m, replies[q])
            /\ \A q \in DOMAIN cmds : Apart(cur.m, cmds[q])

\* A number that belongs to someone is allocated, and belongs to no one else.
NumInv ==
    /\ \A i \in IfNums, c \in Callers : Has(c, i) =>
            /\ i \in node
            /\ \A d \in Callers : Has(d, i) => c = d
            /\ \A h \in Handles : Owned(h) => hd[h].i # i
            /\ \A m \in InFlight : Touches(m) => m.i # i
    /\ \A h \in Handles : Owned(h) =>
            /\ hd[h].i \in node
            /\ \A k \in Handles : Owned(k) /\ hd[k].i = hd[h].i => h = k
            /\ \A m \in InFlight : Touches(m) => m.i # hd[h].i
    /\ \A m \in InFlight : Claims(m) => m.i \in node

\* So does the handler of a number.
RegInv ==
    /\ \A c \in Callers : Registered(c) =>
            /\ handlers[job[c].i] = job[c].file
            /\ \A d \in Callers : Registered(d) /\ job[d].i = job[c].i => c = d
            /\ \A h \in Handles : Owned(h) => hd[h].i # job[c].i
    /\ \A h \in Handles : Owned(h) => handlers[hd[h].i] = hd[h].file

Kept(h) == table[hd[h].file][hd[h].i] = h \/ h \in evicted

\* The tables have handles where they belong, those of nss_wifi_if.c none that
\* is being given back.
Entered(f, i) ==
    table[f][i] # Null =>
        LET h == table[f][i] IN
        /\ hd[h].st = "live" /\ hd[h].file = f /\ hd[h].i = i
        /\ f = "wifi" => \A c \in Callers :
                Holds(c, h) => pc[c] \notin {"dealloc", "dealloc_wait", "free"}

\* They have those of processes that have had their CREATE answered, unless
\* these were evicted; of the others at least no one else.
Enters(c) ==
    /\ pc[c] \in {"register", "create", "wait", "ndev", "hold"} =>
            table[job[c].file][job[c].i] \in {job[c].h, Null}
    /\ pc[c] \in {"ndev", "hold"} => Kept(job[c].h)
    /\ pc[c] = "wait" =>
            /\ hd[job[c].h].done = "ACK" => Kept(job[c].h)
            /\ cur # Null /\ cur.m.h = job[c].h => Kept(job[c].h)

\* The poll has entered the handle that it works on, of which the lock has been
\* released and the handler is still to be registered.
Halfway ==
    cur # Null /\ cur.m.op = "alloc" /\ cur.h \in Handles /\ hd[cur.h].i # Null

\* And they have those of interfaces in use, or about to be.
TableInv ==
    /\ \A f \in Files, i \in IfNums : Entered(f, i)
    /\ \A h \in Handles : Owned(h) => Kept(h)
    /\ \A c \in Callers : Enters(c)
    /\ Halfway => Kept(cur.h)

\* A device that a number leads to is its user's, or is about to be; and each
\* reference is for one interface, or about to be dropped.
DevInv ==
    /\ \A i \in IfNums : ndev[i] # Null =>
            \/ \E h \in Handles : hd[h].owner = ndev[i] /\ hd[h].i = i
            \/ pc[ndev[i]] = "hold" /\ job[ndev[i]].i = i
    /\ \A c \in Callers :
            refs[c] = Cardinality({h \in Handles : hd[h].owner = c})
                + Cardinality({d \in Callers : pc[d] = "put" /\ job[d].dev = c})

IInv == /\ TypeOK /\ JobInv /\ HandleInv /\ MsgInv /\ PairInv
        /\ NumInv /\ RegInv /\ TableInv /\ DevInv

(***************************************************************************)
(* Messages and rings.                                                     *)
(***************************************************************************)

LEMMA MsgTypes ==
    ASSUME NEW op \in {"alloc", "dealloc", "create", "stats"},
           NEW i \in IfNums \cup {Null}, NEW h \in Handles \cup {Null},
           NEW c \in Callers \cup {Null}
    PROVE  /\ Msg(op, i, h, c) \in Msgs
           /\ Msg(op, i, h, c).op = op /\ Msg(op, i, h, c).i = i
           /\ Msg(op, i, h, c).h = h /\ Msg(op, i, h, c).from = c
           /\ ~ Msg(op, i, h, c).ack
    BY DEF Msg, Msgs

LEMMA FlightTypes ==
    ASSUME TypeOK, MsgInv
    PROVE  /\ cmds \in Seq(Msgs) /\ replies \in Seq(Msgs)
           /\ cur # Null => cur \in [m : Msgs, h : Handles \cup {Null}] /\ cur.m \in Msgs
           /\ InFlight \subseteq Msgs /\ InRings \subseteq InFlight
    BY DEF TypeOK, MsgInv, CurOK, InFlight, InRings

\* What is still in the rings is apart from what the poll works on.
LEMMA Behind ==
    ASSUME PairInv, cur # Null
    PROVE  \A x \in InRings : Apart(cur.m, x)
    BY DEF PairInv, InRings

\* A message is sent, while the poll goes on or is done with its own.
LEMMA SendPairs ==
    ASSUME TypeOK, PairInv, NEW m \in Msgs,
           cmds' = Append(cmds, m), replies' = replies,
           \A x \in InRings : Apart(x, m),
           \/ cur' = Null
           \/ cur' = cur /\ (cur # Null => Apart(cur.m, m))
    PROVE  /\ PairInv'
           /\ InRings' = InRings \cup {m}
           /\ InFlight' \subseteq InFlight \cup {m}
           /\ \A k \in DOMAIN cmds' : cmds'[k] = m \/ \E j \in DOMAIN cmds : cmds'[k] = cmds[j]
<1>1. /\ cmds \in Seq(Msgs) /\ DOMAIN cmds = 1..Len(cmds) /\ Len(cmds) \in Nat
      /\ DOMAIN cmds' = 1..(Len(cmds) + 1)
      /\ \A k \in 1..Len(cmds) : cmds'[k] = cmds[k]
      /\ cmds'[Len(cmds) + 1] = m
    BY DEF TypeOK
<1>2. InRings' = InRings \cup {m}
    BY <1>1 DEF InRings
<1>3. \A p, q \in DOMAIN cmds' : p < q => Apart(cmds'[p], cmds'[q])
  <2> SUFFICES ASSUME NEW p \in DOMAIN cmds', NEW q \in DOMAIN cmds', p < q
               PROVE  Apart(cmds'[p], cmds'[q])
      OBVIOUS
  <2>1. p \in DOMAIN cmds /\ cmds'[p] = cmds[p] /\ cmds[p] \in InRings
      BY <1>1 DEF InRings
  <2>2. CASE q = Len(cmds) + 1
      BY <1>1, <2>1, <2>2
  <2>3. CASE q # Len(cmds) + 1
    <3>1. q \in DOMAIN cmds /\ cmds'[q] = cmds[q]
        BY <1>1, <2>3
    <3> QED  BY <2>1, <3>1 DEF PairInv
  <2> QED  BY <2>2, <2>3
<1>4. \A p \in DOMAIN replies, q \in DOMAIN cmds' : Apart(replies[p], cmds'[q])
  <2> SUFFICES ASSUME NEW p \in DOMAIN replies, NEW q \in DOMAIN cmds'
               PROVE  Apart(replies[p], cmds'[q])
      OBVIOUS
  <2>1. replies[p] \in InRings
      BY DEF InRings
  <2>2. CASE q = Len(cmds) + 1
      BY <1>1, <2>1, <2>2
  <2>3. CASE q # Len(cmds) + 1
    <3>1. q \in DOMAIN cmds /\ cmds'[q] = cmds[q]
        BY <1>1, <2>3
    <3> QED  BY <3>1 DEF PairInv
  <2> QED  BY <2>2, <2>3
<1>5. cur' # Null => /\ \A q \in DOMAIN replies : Apart(cur'.m, replies[q])
                     /\ \A q \in DOMAIN cmds' : Apart(cur'.m, cmds'[q])
    BY <1>1 DEF PairInv
<1>6. \A p, q \in DOMAIN replies : p < q => Apart(replies[p], replies[q])
    BY DEF PairInv
<1>7. PairInv'
    BY <1>3, <1>4, <1>5, <1>6 DEF PairInv
<1>8. InFlight' \subseteq InFlight \cup {m}
    BY <1>2 DEF InFlight
<1>9. \A k \in DOMAIN cmds' : cmds'[k] = m \/ \E j \in DOMAIN cmds : cmds'[k] = cmds[j]
    BY <1>1
<1> QED  BY <1>2, <1>7, <1>8, <1>9

\* The poll is done with its message and sends nothing.
LEMMA DropPairs ==
    ASSUME PairInv, cur' = Null, UNCHANGED << cmds, replies >>
    PROVE  PairInv' /\ InFlight' = InRings /\ InRings' = InRings
    BY DEF PairInv, InFlight, InRings

LEMMA KeepPairs ==
    ASSUME PairInv, UNCHANGED << cur, cmds, replies >>
    PROVE  PairInv' /\ InFlight' = InFlight /\ InRings' = InRings
    BY DEF PairInv, InFlight, InRings

\* The poll takes a message, or drops it.
LEMMA ReceivePairs ==
    ASSUME TypeOK, PairInv, cur = Null, replies # << >>, replies' = Tail(replies),
           cmds' = cmds, cur' # Null => cur'.m = Head(replies)
    PROVE  /\ PairInv'
           /\ InFlight' \subseteq InFlight
           /\ Head(replies) \in InFlight /\ Head(replies) \in Msgs
<1>1. /\ replies \in Seq(Msgs) /\ Len(replies) \in Nat /\ Len(replies) >= 1
      /\ DOMAIN replies = 1..Len(replies)
      /\ Head(replies) = replies[1] /\ 1 \in DOMAIN replies
      /\ DOMAIN replies' = 1..(Len(replies) - 1)
      /\ \A k \in DOMAIN replies' : replies'[k] = replies[k + 1] /\ k + 1 \in DOMAIN replies
    BY DEF TypeOK
<1>2. \A p, q \in DOMAIN replies' : p < q => Apart(replies'[p], replies'[q])
  <2> SUFFICES ASSUME NEW p \in DOMAIN replies', NEW q \in DOMAIN replies', p < q
               PROVE  Apart(replies'[p], replies'[q])
      OBVIOUS
  <2>1. /\ p + 1 \in DOMAIN replies /\ q + 1 \in DOMAIN replies /\ p + 1 < q + 1
        /\ replies'[p] = replies[p + 1] /\ replies'[q] = replies[q + 1]
      BY <1>1
  <2>2. Apart(replies[p + 1], replies[q + 1])
      BY <2>1 DEF PairInv
  <2> QED  BY <2>1, <2>2
<1>3. \A p \in DOMAIN replies', q \in DOMAIN cmds : Apart(replies'[p], cmds[q])
    BY <1>1 DEF PairInv
<1>4. cur' # Null => /\ \A q \in DOMAIN replies' : Apart(cur'.m, replies'[q])
                     /\ \A q \in DOMAIN cmds : Apart(cur'.m, cmds[q])
  <2> SUFFICES ASSUME cur' # Null, cur'.m = replies[1]
               PROVE  /\ \A q \in DOMAIN replies' : Apart(cur'.m, replies'[q])
                      /\ \A q \in DOMAIN cmds : Apart(cur'.m, cmds[q])
      BY <1>1
  <2>1. \A q \in DOMAIN replies' : Apart(replies[1], replies[q + 1])
    <3> SUFFICES ASSUME NEW q \in DOMAIN replies' PROVE Apart(replies[1], replies[q + 1])
        OBVIOUS
    <3>1. q + 1 \in DOMAIN replies /\ 1 < q + 1
        BY <1>1
    <3> QED  BY <1>1, <3>1 DEF PairInv
  <2>2. \A q \in DOMAIN cmds : Apart(replies[1], cmds[q])
      BY <1>1 DEF PairInv
  <2>3. \A q \in DOMAIN replies' : replies'[q] = replies[q + 1]
      BY <1>1
  <2> QED  BY <2>1, <2>2, <2>3
<1>5. \A p, q \in DOMAIN cmds : p < q => Apart(cmds[p], cmds[q])
    BY DEF PairInv
<1>6. PairInv'
    BY <1>2, <1>3, <1>4, <1>5 DEF PairInv
<1>7. Head(replies) \in InFlight /\ Head(replies) \in Msgs
    BY <1>1 DEF InFlight, InRings
<1>8. InFlight' \subseteq InFlight
  <2>1. \A k \in DOMAIN replies' : replies'[k] \in InRings
      BY <1>1 DEF InRings
  <2>2. InRings' \subseteq InRings
      BY <2>1 DEF InRings
  <2> QED  BY <1>7, <2>2 DEF InFlight
<1> QED  BY <1>6, <1>7, <1>8

\* The NSS answers: what was the first of the commands is now the last of the
\* replies.
LEMMA AnswerPairs ==
    ASSUME TypeOK, PairInv, cmds # << >>, NEW r \in Msgs,
           cmds' = Tail(cmds), replies' = Append(replies, r), cur' = cur,
           \A x \in InFlight : Apart(x, Head(cmds)) => Apart(x, r),
           \A k \in DOMAIN cmds : Apart(Head(cmds), cmds[k]) => Apart(r, cmds[k])
    PROVE  /\ PairInv'
           /\ Head(cmds) \in InFlight /\ Head(cmds) \in Msgs
           /\ \A x \in InFlight' :
                \/ x = r
                \/ x \in InFlight /\ (Apart(x, Head(cmds)) \/ Apart(Head(cmds), x))
           /\ \A k \in DOMAIN cmds' : k + 1 \in DOMAIN cmds /\ cmds'[k] = cmds[k + 1]
<1> DEFINE m == Head(cmds)
<1>1. /\ cmds \in Seq(Msgs) /\ Len(cmds) \in Nat /\ Len(cmds) >= 1
      /\ DOMAIN cmds = 1..Len(cmds) /\ m = cmds[1] /\ 1 \in DOMAIN cmds
      /\ DOMAIN cmds' = 1..(Len(cmds) - 1)
      /\ \A k \in DOMAIN cmds' : cmds'[k] = cmds[k + 1] /\ k + 1 \in DOMAIN cmds
    BY DEF TypeOK
<1>2. /\ replies \in Seq(Msgs) /\ Len(replies) \in Nat
      /\ DOMAIN replies = 1..Len(replies) /\ DOMAIN replies' = 1..(Len(replies) + 1)
      /\ \A k \in DOMAIN replies : replies'[k] = replies[k]
      /\ replies'[Len(replies) + 1] = r
    BY DEF TypeOK
<1>3. m \in InFlight /\ m \in Msgs
    BY <1>1 DEF InFlight, InRings
<1>4. /\ \A k \in DOMAIN replies : Apart(replies[k], m) /\ replies[k] \in InFlight
      /\ \A k \in DOMAIN cmds' : Apart(m, cmds[k + 1]) /\ cmds[k + 1] \in InFlight
      /\ cur # Null => Apart(cur.m, m) /\ cur.m \in InFlight
  <2>1. \A k \in DOMAIN replies : Apart(replies[k], m) /\ replies[k] \in InFlight
      BY <1>1 DEF PairInv, InFlight, InRings
  <2>2. \A k \in DOMAIN cmds' : Apart(m, cmds[k + 1]) /\ cmds[k + 1] \in InFlight
    <3> SUFFICES ASSUME NEW k \in DOMAIN cmds'
                 PROVE  Apart(m, cmds[k + 1]) /\ cmds[k + 1] \in InFlight
        OBVIOUS
    <3>1. k + 1 \in DOMAIN cmds /\ 1 < k + 1
        BY <1>1
    <3> QED  BY <1>1, <3>1 DEF PairInv, InFlight, InRings
  <2>3. cur # Null => Apart(cur.m, m) /\ cur.m \in InFlight
      BY <1>1 DEF PairInv, InFlight
  <2> QED  BY <2>1, <2>2, <2>3
<1>5. /\ \A k \in DOMAIN replies : Apart(replies[k], r)
      /\ \A k \in DOMAIN cmds' : Apart(r, cmds'[k])
      /\ cur # Null => Apart(cur.m, r)
    BY <1>1, <1>4
<1>6. \A p, q \in DOMAIN cmds' : p < q => Apart(cmds'[p], cmds'[q])
  <2> SUFFICES ASSUME NEW p \in DOMAIN cmds', NEW q \in DOMAIN cmds', p < q
               PROVE  Apart(cmds'[p], cmds'[q])
      OBVIOUS
  <2>1. /\ p + 1 \in DOMAIN cmds /\ q + 1 \in DOMAIN cmds /\ p + 1 < q + 1
        /\ cmds'[p] = cmds[p + 1] /\ cmds'[q] = cmds[q + 1]
      BY <1>1
  <2>2. Apart(cmds[p + 1], cmds[q + 1])
      BY <2>1 DEF PairInv
  <2> QED  BY <2>1, <2>2
<1>7. \A p, q \in DOMAIN replies' : p < q => Apart(replies'[p], replies'[q])
  <2> SUFFICES ASSUME NEW p \in DOMAIN replies', NEW q \in DOMAIN replies', p < q
               PROVE  Apart(replies'[p], replies'[q])
      OBVIOUS
  <2>1. p \in DOMAIN replies /\ replies'[p] = replies[p]
      BY <1>2
  <2>2. CASE q = Len(replies) + 1
      BY <1>2, <1>5, <2>1, <2>2
  <2>3. CASE q # Len(replies) + 1
    <3>1. q \in DOMAIN replies /\ replies'[q] = replies[q]
        BY <1>2, <2>3
    <3> QED  BY <2>1, <3>1 DEF PairInv
  <2> QED  BY <2>2, <2>3
<1>8. \A p \in DOMAIN replies', q \in DOMAIN cmds' : Apart(replies'[p], cmds'[q])
  <2> SUFFICES ASSUME NEW p \in DOMAIN replies', NEW q \in DOMAIN cmds'
               PROVE  Apart(replies'[p], cmds'[q])
      OBVIOUS
  <2>1. CASE p = Len(replies) + 1
      BY <1>2, <1>5, <2>1
  <2>2. CASE p # Len(replies) + 1
    <3>1. p \in DOMAIN replies /\ replies'[p] = replies[p]
        BY <1>2, <2>2
    <3> QED  BY <1>1, <3>1 DEF PairInv
  <2> QED  BY <2>1, <2>2
<1>9. cur' # Null => /\ \A q \in DOMAIN replies' : Apart(cur'.m, replies'[q])
                     /\ \A q \in DOMAIN cmds' : Apart(cur'.m, cmds'[q])
  <2> SUFFICES ASSUME cur # Null
               PROVE  /\ \A q \in DOMAIN replies' : Apart(cur.m, replies'[q])
                      /\ \A q \in DOMAIN cmds' : Apart(cur.m, cmds'[q])
      OBVIOUS
  <2>1. \A q \in DOMAIN replies : Apart(cur.m, replies[q])
      BY DEF PairInv
  <2>2. \A q \in DOMAIN cmds : Apart(cur.m, cmds[q])
      BY DEF PairInv
  <2>3. \A q \in DOMAIN replies' : q \in DOMAIN replies \/ q = Len(replies) + 1
      BY <1>2
  <2>4. \A q \in DOMAIN replies' : Apart(cur.m, replies'[q])
      BY <1>2, <1>5, <2>1, <2>3
  <2>5. \A q \in DOMAIN cmds' : Apart(cur.m, cmds'[q])
      BY <1>1, <2>2
  <2> QED  BY <2>4, <2>5
<1>10. PairInv'
    BY <1>6, <1>7, <1>8, <1>9 DEF PairInv
<1>11. ASSUME NEW x \in InFlight'
       PROVE  \/ x = r
              \/ x \in InFlight /\ (Apart(x, m) \/ Apart(m, x))
  <2>1. CASE x \in {replies'[k] : k \in DOMAIN replies'}
    <3>1. PICK k \in DOMAIN replies' : x = replies'[k]
        BY <2>1
    <3>2. k \in DOMAIN replies \/ k = Len(replies) + 1
        BY <1>2
    <3> QED  BY <1>2, <1>4, <3>1, <3>2
  <2>2. CASE x \in {cmds'[k] : k \in DOMAIN cmds'}
      BY <1>1, <1>4, <2>2
  <2>3. CASE cur # Null /\ x = cur.m
      BY <1>4, <2>3
  <2> QED  BY <2>1, <2>2, <2>3 DEF InFlight, InRings
<1> QED  BY <1>1, <1>3, <1>10, <1>11

\* Statistics come unasked.
LEMMA StatsPairs ==
    ASSUME TypeOK, PairInv, NEW r \in Msgs, r.op = "stats", r.h = Null, r.from = Null,
           replies' = Append(replies, r), UNCHANGED << cmds, cur >>
    PROVE  PairInv' /\ InFlight' \subseteq InFlight \cup {r}
<1>1. /\ replies \in Seq(Msgs) /\ Len(replies) \in Nat
      /\ DOMAIN replies = 1..Len(replies) /\ DOMAIN replies' = 1..(Len(replies) + 1)
      /\ \A k \in DOMAIN replies : replies'[k] = replies[k]
      /\ replies'[Len(replies) + 1] = r
    BY DEF TypeOK
<1>2. \A x : Apart(x, r) /\ Apart(r, x)
    BY DEF Apart, Touches, Claims
<1>3. \A p, q \in DOMAIN replies' : p < q => Apart(replies'[p], replies'[q])
  <2> SUFFICES ASSUME NEW p \in DOMAIN replies', NEW q \in DOMAIN replies', p < q
               PROVE  Apart(replies'[p], replies'[q])
      OBVIOUS
  <2>1. p \in DOMAIN replies /\ replies'[p] = replies[p]
      BY <1>1
  <2>2. CASE q = Len(replies) + 1
      BY <1>1, <1>2, <2>2
  <2>3. CASE q # Len(replies) + 1
    <3>1. q \in DOMAIN replies /\ replies'[q] = replies[q]
        BY <1>1, <2>3
    <3> QED  BY <2>1, <3>1 DEF PairInv
  <2> QED  BY <2>2, <2>3
<1>4. \A q \in DOMAIN replies' : q \in DOMAIN replies \/ replies'[q] = r
    BY <1>1
<1>5. \A p \in DOMAIN replies', q \in DOMAIN cmds : Apart(replies'[p], cmds[q])
    BY <1>1, <1>2, <1>4 DEF PairInv
<1>6. cur # Null => /\ \A q \in DOMAIN replies' : Apart(cur.m, replies'[q])
                    /\ \A q \in DOMAIN cmds : Apart(cur.m, cmds[q])
    BY <1>1, <1>2, <1>4 DEF PairInv
<1>7. \A p, q \in DOMAIN cmds : p < q => Apart(cmds[p], cmds[q])
    BY DEF PairInv
<1>8. PairInv'
    BY <1>3, <1>5, <1>6, <1>7 DEF PairInv
<1>9. InFlight' \subseteq InFlight \cup {r}
    BY <1>1, <1>4 DEF InFlight, InRings
<1> QED  BY <1>8, <1>9

\* What a caller that gives up leaves of its message.
LEMMA DisownedMsg ==
    ASSUME NEW c \in Callers, NEW m \in Msgs
    PROVE  /\ Disowned(c, m) \in Msgs
           /\ Disowned(c, m).op = m.op /\ Disowned(c, m).i = m.i
           /\ Disowned(c, m).h = m.h /\ Disowned(c, m).ack = m.ack
           /\ Disowned(c, m).from = IF m.from = c /\ m.h = Null THEN Null ELSE m.from
    BY DEF Disowned, Msgs

LEMMA DisownPairs ==
    ASSUME TypeOK, MsgInv, PairInv, NEW c \in Callers,
           cmds' = [n \in DOMAIN cmds |-> Disowned(c, cmds[n])],
           replies' = [n \in DOMAIN replies |-> Disowned(c, replies[n])],
           cur' = IF cur = Null THEN Null ELSE [cur EXCEPT !.m = Disowned(c, @)]
    PROVE  /\ PairInv'
           /\ \A x \in InFlight' : \E m \in InFlight : x = Disowned(c, m)
           /\ cmds' \in Seq(Msgs) /\ replies' \in Seq(Msgs)
           /\ \A k \in DOMAIN cmds' : k \in DOMAIN cmds /\ cmds'[k] = Disowned(c, cmds[k])
           /\ cur' # Null =>
                /\ cur # Null /\ cur' \in [m : Msgs, h : Handles \cup {Null}]
                /\ cur'.m = Disowned(c, cur.m) /\ cur'.h = cur.h
<1>1. /\ cmds \in Seq(Msgs) /\ replies \in Seq(Msgs)
      /\ cur # Null => cur \in [m : Msgs, h : Handles \cup {Null}] /\ cur.m \in Msgs
    BY FlightTypes
<1>2. /\ DOMAIN cmds = 1..Len(cmds) /\ Len(cmds) \in Nat
      /\ DOMAIN replies = 1..Len(replies) /\ Len(replies) \in Nat
      /\ \A k \in DOMAIN cmds : cmds[k] \in Msgs
      /\ \A k \in DOMAIN replies : replies[k] \in Msgs
    BY <1>1
<1>3. /\ DOMAIN cmds' = DOMAIN cmds /\ DOMAIN replies' = DOMAIN replies
      /\ \A k \in DOMAIN cmds : cmds'[k] = Disowned(c, cmds[k])
      /\ \A k \in DOMAIN replies : replies'[k] = Disowned(c, replies[k])
    OBVIOUS
<1>4. cmds' \in Seq(Msgs) /\ replies' \in Seq(Msgs)
    BY <1>2, <1>3, DisownedMsg
<1>5. cur' # Null => /\ cur # Null /\ cur' \in [m : Msgs, h : Handles \cup {Null}]
                     /\ cur'.m = Disowned(c, cur.m) /\ cur'.h = cur.h
  <2> SUFFICES ASSUME cur' # Null
               PROVE  /\ cur # Null /\ cur' \in [m : Msgs, h : Handles \cup {Null}]
                      /\ cur'.m = Disowned(c, cur.m) /\ cur'.h = cur.h
      OBVIOUS
  <2>1. cur # Null /\ cur' = [cur EXCEPT !.m = Disowned(c, cur.m)]
      OBVIOUS
  <2>2. Disowned(c, cur.m) \in Msgs
      BY <1>1, <2>1, DisownedMsg
  <2> QED  BY <1>1, <2>1, <2>2
<1>6. \A x, y \in Msgs : Apart(x, y) => Apart(Disowned(c, x), Disowned(c, y))
  <2> SUFFICES ASSUME NEW x \in Msgs, NEW y \in Msgs, Apart(x, y)
               PROVE  Apart(Disowned(c, x), Disowned(c, y))
      OBVIOUS
  <2> DEFINE u == Disowned(c, x)
             v == Disowned(c, y)
  <2>1. /\ u.op = x.op /\ u.i = x.i /\ u.h = x.h /\ u.ack = x.ack
        /\ u.from = IF x.from = c /\ x.h = Null THEN Null ELSE x.from
        /\ v.op = y.op /\ v.i = y.i /\ v.h = y.h /\ v.ack = y.ack
        /\ v.from = IF y.from = c /\ y.h = Null THEN Null ELSE y.from
      BY DisownedMsg
  <2> HIDE DEF u, v
  <2>2. Apart(u, v)
      BY <2>1 DEF Apart, Claims, Touches
  <2> QED  BY <2>2 DEF u, v
<1>7. PairInv'
  <2>1. \A p, q \in DOMAIN cmds : p < q => Apart(Disowned(c, cmds[p]), Disowned(c, cmds[q]))
      BY <1>2, <1>6 DEF PairInv
  <2>2. \A p, q \in DOMAIN replies :
            p < q => Apart(Disowned(c, replies[p]), Disowned(c, replies[q]))
      BY <1>2, <1>6 DEF PairInv
  <2>3. \A p \in DOMAIN replies, q \in DOMAIN cmds :
            Apart(Disowned(c, replies[p]), Disowned(c, cmds[q]))
      BY <1>2, <1>6 DEF PairInv
  <2>4. cur # Null =>
            /\ \A q \in DOMAIN replies : Apart(Disowned(c, cur.m), Disowned(c, replies[q]))
            /\ \A q \in DOMAIN cmds : Apart(Disowned(c, cur.m), Disowned(c, cmds[q]))
      BY <1>1, <1>2, <1>6 DEF PairInv
  <2> QED  BY <1>3, <1>5, <2>1, <2>2, <2>3, <2>4 DEF PairInv
<1>8. ASSUME NEW x \in InFlight'
      PROVE  \E m \in InFlight : x = Disowned(c, m)
    BY <1>3, <1>5 DEF InFlight, InRings
<1> QED  BY <1>3, <1>4, <1>5, <1>7, <1>8

(***************************************************************************)
(* What a step leaves alone.                                               *)
(***************************************************************************)

SameCaller(d) == pc'[d] = pc[d] /\ job'[d] = job[d] /\ got'[d] = got[d]

\* Nothing but c's own work changes.
OnlyCaller(c) == \A d \in Callers \ {c} : SameCaller(d)

LEMMA SameFacts ==
    ASSUME NEW d \in Callers, SameCaller(d)
    PROVE  /\ \A h : Holds(d, h)' <=> Holds(d, h)
           /\ \A i : Has(d, i)' <=> Has(d, i)
           /\ Registered(d)' <=> Registered(d)
           /\ JobOK(d)' <=> JobOK(d)
<1>1. \A h : Holds(d, h)' <=> Holds(d, h)
    BY DEF SameCaller, Holds
<1>2. \A i : Has(d, i)' <=> Has(d, i)
    BY DEF SameCaller, Has
<1>3. Registered(d)' <=> Registered(d)
    BY DEF SameCaller, Registered
<1>4. JobOK(d)' <=> JobOK(d)
    BY DEF SameCaller, JobOK
<1> QED  BY <1>1, <1>2, <1>3, <1>4

LEMMA HandleStep ==
    ASSUME HandleInv, hd' = hd, NEW c \in Callers, OnlyCaller(c),
           \A h \in Handles : Holds(c, h)' =>
                Holds(c, h) /\ job'[c].i = job[c].i /\ job'[c].file = job[c].file,
           pc'[c] \in {"register", "create"} => pc[c] \in {"register", "create"}
    PROVE  HandleInv'
<1>1. \A d \in Callers, h \in Handles : Holds(d, h)' =>
            /\ Holds(d, h) /\ job'[d].i = job[d].i /\ job'[d].file = job[d].file
            /\ pc'[d] \in {"register", "create"} => pc[d] \in {"register", "create"}
    BY SameFacts DEF OnlyCaller, SameCaller
<1> HIDE DEF Holds
<1>2. \A d \in Callers, h \in Handles : Holds(d, h)' =>
            /\ hd'[h].st = "live" /\ hd'[h].owner = Null
            /\ hd'[h].i = job'[d].i /\ hd'[h].file = job'[d].file
            /\ pc'[d] \in {"register", "create"} => hd'[h].done = "no"
    BY <1>1 DEF HandleInv
<1>3. \A d, e \in Callers, h \in Handles : Holds(d, h)' /\ Holds(e, h)' => d = e
    BY <1>1 DEF HandleInv
<1> QED  BY <1>2, <1>3 DEF HandleInv, Owned

\* A number may pass from c to a message.
LEMMA NumStep ==
    ASSUME NumInv, node' = node, NEW c \in Callers, OnlyCaller(c),
           \A h \in Handles : Owned(h)' => Owned(h) /\ hd'[h].i = hd[h].i,
           \A i \in IfNums : Has(c, i)' => Has(c, i),
           \A m \in InFlight' : Touches(m) =>
                \/ \E x \in InFlight : /\ Touches(x) /\ x.i = m.i
                                       /\ Claims(m) => Claims(x)
                \/ /\ m.i \in IfNums /\ Has(c, m.i)
                   /\ ~ Has(c, m.i)'
    PROVE  NumInv'
<1>1. \A d \in Callers, i \in IfNums : Has(d, i)' => Has(d, i)
    BY SameFacts DEF OnlyCaller
<1>2. \A m \in InFlight' : Claims(m) => m.i \in node'
    BY DEF NumInv, Touches
<1>3. ASSUME NEW i \in IfNums, NEW d \in Callers, Has(d, i)'
      PROVE  /\ i \in node'
             /\ \A e \in Callers : Has(e, i)' => d = e
             /\ \A h \in Handles : Owned(h)' => hd'[h].i # i
             /\ \A m \in InFlight' : Touches(m) => m.i # i
  <2>1. /\ i \in node'
        /\ \A e \in Callers : Has(e, i)' => d = e
        /\ \A h \in Handles : Owned(h)' => hd'[h].i # i
      BY <1>1, <1>3 DEF NumInv
  <2>2. ASSUME NEW m \in InFlight', Touches(m), m.i = i
        PROVE  FALSE
      BY <1>1, <1>3, <2>2 DEF NumInv
  <2> QED  BY <2>1, <2>2
<1>4. ASSUME NEW h \in Handles, Owned(h)'
      PROVE  /\ hd'[h].i \in node'
             /\ \A k \in Handles : Owned(k)' /\ hd'[k].i = hd'[h].i => h = k
             /\ \A m \in InFlight' : Touches(m) => m.i # hd'[h].i
    BY <1>4 DEF NumInv
<1> QED  BY <1>2, <1>3, <1>4 DEF NumInv

LEMMA RegStep ==
    ASSUME RegInv, handlers' = handlers, NEW c \in Callers, OnlyCaller(c),
           \A h \in Handles : Owned(h)' =>
                Owned(h) /\ hd'[h].i = hd[h].i /\ hd'[h].file = hd[h].file,
           Registered(c)' =>
                Registered(c) /\ job'[c].i = job[c].i /\ job'[c].file = job[c].file
    PROVE  RegInv'
<1>1. \A d \in Callers : Registered(d)' =>
            Registered(d) /\ job'[d].i = job[d].i /\ job'[d].file = job[d].file
    BY SameFacts DEF OnlyCaller, SameCaller
<1>2. ASSUME NEW d \in Callers, Registered(d)'
      PROVE  /\ handlers'[job'[d].i] = job'[d].file
             /\ \A e \in Callers : Registered(e)' /\ job'[e].i = job'[d].i => d = e
             /\ \A h \in Handles : Owned(h)' => hd'[h].i # job'[d].i
    BY <1>1, <1>2 DEF RegInv
<1>3. \A h \in Handles : Owned(h)' => handlers'[hd'[h].i] = hd'[h].file
    BY DEF RegInv
<1> QED  BY <1>2, <1>3 DEF RegInv

LEMMA DevStep ==
    ASSUME DevInv, ndev' = ndev, refs' = refs,
           \A h \in Handles : /\ hd'[h].owner = hd[h].owner
                              /\ Owned(h) => hd'[h].i = hd[h].i,
           NEW c \in Callers, OnlyCaller(c), Null \notin Callers,
           ndev \in [IfNums -> Callers \cup {Null}],
           pc[c] \notin {"hold", "put"}, pc'[c] \notin {"hold", "put"}
    PROVE  DevInv'
<1>1. \A d \in Callers : /\ pc[d] = "put" <=> pc'[d] = "put"
                         /\ pc[d] = "put" => job'[d].dev = job[d].dev
                         /\ pc[d] = "hold" <=> pc'[d] = "hold"
                         /\ pc[d] = "hold" => job'[d].i = job[d].i
    BY DEF OnlyCaller, SameCaller
<1>2. \A e \in Callers : {d \in Callers : pc'[d] = "put" /\ job'[d].dev = e}
                            = {d \in Callers : pc[d] = "put" /\ job[d].dev = e}
    BY <1>1
<1>3. \A i \in IfNums : ndev[i] # Null => ndev[i] \in Callers
    OBVIOUS
<1>4. \A i \in IfNums : ndev'[i] # Null =>
            \/ \E h \in Handles : hd'[h].owner = ndev'[i] /\ hd'[h].i = i
            \/ pc'[ndev'[i]] = "hold" /\ job'[ndev'[i]].i = i
    BY <1>1, <1>3 DEF DevInv, Owned
<1>5. \A e \in Callers : {h \in Handles : hd'[h].owner = e} = {h \in Handles : hd[h].owner = e}
    OBVIOUS
<1>6. \A e \in Callers :
            refs'[e] = Cardinality({h \in Handles : hd'[h].owner = e})
                + Cardinality({d \in Callers : pc'[d] = "put" /\ job'[d].dev = e})
    BY <1>2, <1>5 DEF DevInv
<1> QED  BY <1>4, <1>6 DEF DevInv

LEMMA TableStep ==
    ASSUME TableInv, TypeOK, JobInv, table' = table, evicted' = evicted,
           \A h \in Handles :
                /\ hd[h].st = "live" => hd'[h].st = "live"
                /\ hd'[h].file = hd[h].file
                /\ hd'[h].i = hd[h].i /\ hd'[h].done = hd[h].done,
           \A h \in Handles : Owned(h)' => Owned(h) \/ Kept(h),
           NEW c \in Callers, OnlyCaller(c),
           cur' # Null => /\ cur # Null /\ cur'.h = cur.h
                          /\ cur'.m.op = cur.m.op /\ cur'.m.h = cur.m.h,
           Enters(c)',
           \A i \in IfNums : table["wifi"][i] # Null /\ Holds(c, table["wifi"][i])' =>
                pc'[c] \notin {"dealloc", "dealloc_wait", "free"}
    PROVE  TableInv'
<1>1. \A d \in Callers \ {c} : /\ \A h : Holds(d, h)' <=> Holds(d, h)
                               /\ SameCaller(d)
    BY SameFacts DEF OnlyCaller
<1>2. ASSUME NEW f \in Files, NEW i \in IfNums
      PROVE  Entered(f, i)'
  <2> SUFFICES ASSUME table[f][i] # Null
               PROVE  LET h == table[f][i] IN
                      /\ hd'[h].st = "live" /\ hd'[h].file = f /\ hd'[h].i = i
                      /\ f = "wifi" => \A d \in Callers :
                            Holds(d, h)' => pc'[d] \notin {"dealloc", "dealloc_wait", "free"}
      BY DEF Entered
  <2>1. Entered(f, i) /\ table[f][i] \in Handles
      BY DEF TableInv, TypeOK
  <2>2. ASSUME f = "wifi", NEW d \in Callers, Holds(d, table[f][i])'
        PROVE  pc'[d] \notin {"dealloc", "dealloc_wait", "free"}
    <3>1. CASE d = c
        BY <2>2, <3>1
    <3>2. CASE d # c
        BY <1>1, <2>1, <2>2, <3>2 DEF Entered, SameCaller
    <3> QED  BY <3>1, <3>2
  <2> QED  BY <2>1, <2>2 DEF Entered
<1>3. \A h \in Handles : Kept(h)' <=> Kept(h)
    BY DEF Kept
<1>4. \A h \in Handles : Owned(h)' => Kept(h)'
    BY <1>3 DEF TableInv
<1>5. ASSUME NEW d \in Callers \ {c}
      PROVE  Enters(d)'
  <2> SUFFICES ASSUME pc[d] \in {"register", "create", "wait", "ndev", "hold"}
               PROVE  Enters(d)'
      BY <1>1 DEF Enters, SameCaller
  <2>1. PICK h \in Handles : h = job[d].h
      BY DEF JobInv, JobOK, Working
  <2>2. Enters(d) /\ SameCaller(d) /\ job'[d].h = h
      BY <1>1, <2>1 DEF TableInv, SameCaller
  <2> QED  BY <1>3, <2>1, <2>2 DEF Enters, SameCaller
<1>6. \A d \in Callers : Enters(d)'
    BY <1>5
<1>7. Halfway' => Kept(cur.h)' /\ cur'.h = cur.h
    BY <1>3 DEF Halfway, TableInv
<1>8. Halfway' => Kept(cur.h)'
    BY <1>7
<1> QED  BY <1>2, <1>4, <1>6, <1>8 DEF TableInv

LEMMA JobStep ==
    ASSUME JobInv, NEW c \in Callers, OnlyCaller(c),
           job' \in [Callers -> Jobs], JobOK(c)'
    PROVE  JobInv'
<1>1. \A d \in Callers \ {c} : JobOK(d)' <=> JobOK(d)
    BY SameFacts DEF OnlyCaller
<1> QED  BY <1>1 DEF JobInv

\* Messages are as they should be when those that c has to do with are; none
\* of them carries a handle that changes.
LEMMA MsgStep ==
    ASSUME TypeOK, MsgInv, NEW c \in Callers, OnlyCaller(c),
           \A m \in InFlight' : m \in InFlight \/ MsgOK(m)',
           \A k \in DOMAIN cmds' : ~ cmds'[k].ack /\ cmds'[k].op # "stats",
           \A m \in InFlight' : m \in InFlight =>
                /\ m.h # Null => hd'[m.h] = hd[m.h]
                /\ m.h = Null => m.from # c
                /\ m.h # Null /\ m.op \in {"alloc", "dealloc"} => ~ Holds(c, m.h)'
                /\ m.h # Null /\ m.op = "create" /\ Holds(c, m.h)' =>
                        \/ pc'[c] \in {"wait", "destroy", "dealloc"}
                        \/ pc'[c] = "dealloc_wait" /\ got'[c] = Null,
           cur' = cur,
           cur # Null /\ cur.m.op \in {"create", "stats"} =>
                /\ hd'[cur.h].file = hd[cur.h].file /\ hd'[cur.h].st # "new"
                /\ hd[cur.h].file = "wifi" =>
                        /\ hd'[cur.h].st = hd[cur.h].st
                        /\ Holds(c, cur.h)' =>
                                /\ pc'[c] # "free"
                                /\ pc'[c] = "dealloc_wait" => got'[c] = Null
    PROVE  MsgInv'
<1>1. \A d \in Callers \ {c} : /\ \A h : Holds(d, h)' <=> Holds(d, h)
                               /\ SameCaller(d)
    BY SameFacts DEF OnlyCaller
<1>2. ASSUME NEW m \in InFlight', m \in InFlight
      PROVE  MsgOK(m)'
  <2>1. MsgOK(m)
      BY <1>2 DEF MsgInv
  <2>2. m.op = "alloc" => (m.i \in IfNums <=> m.ack)
      BY <2>1 DEF MsgOK
  <2>3. m.op # "alloc" => m.i \in IfNums
      BY <2>1 DEF MsgOK
  <2>4. m.h = Null /\ m.from # Null =>
            /\ m.op \in {"alloc", "dealloc"}
            /\ pc'[m.from] = IF m.op = "alloc" THEN "alloc_wait" ELSE "dealloc_wait"
            /\ got'[m.from] = Null
            /\ m.op = "dealloc" => m.i = job'[m.from].i
    <3> SUFFICES ASSUME m.h = Null, m.from # Null
                 PROVE  /\ m.op \in {"alloc", "dealloc"}
                        /\ pc'[m.from] = IF m.op = "alloc" THEN "alloc_wait"
                                         ELSE "dealloc_wait"
                        /\ got'[m.from] = Null
                        /\ m.op = "dealloc" => m.i = job'[m.from].i
        OBVIOUS
    <3>1. m.from # c
        BY <1>2
    <3>2. m \in Msgs
        BY <1>2, FlightTypes
    <3>3. m.from \in Callers \ {c}
        BY <3>1, <3>2 DEF Msgs
    <3> QED  BY <1>1, <2>1, <3>3 DEF MsgOK, SameCaller
  <2>5. m.h # Null => /\ m.op \in {"alloc", "dealloc", "create"}
                      /\ hd'[m.h].st = "live" /\ hd'[m.h].owner = Null
      BY <1>2, <2>1 DEF MsgOK
  <2>6. m.h # Null /\ m.op \in {"alloc", "dealloc"} =>
            /\ hd'[m.h].file = "virt_if"
            /\ m.op = "alloc" => NumberOK(m)'
            /\ m.op = "dealloc" => hd'[m.h].i = m.i
            /\ \A d \in Callers : ~ Holds(d, m.h)'
            /\ m.op = "alloc" => m.from \in Callers
      BY <1>1, <1>2, <2>1 DEF MsgOK, NumberOK
  <2>7. m.h # Null /\ m.op = "create" =>
            /\ hd'[m.h].i = m.i /\ hd'[m.h].done = "no"
            /\ \A d \in Callers : Holds(d, m.h)' =>
                    \/ pc'[d] \in {"wait", "destroy", "dealloc"}
                    \/ pc'[d] = "dealloc_wait" /\ got'[d] = Null
    <3> SUFFICES ASSUME m.h # Null, m.op = "create"
                 PROVE  /\ hd'[m.h].i = m.i /\ hd'[m.h].done = "no"
                        /\ \A d \in Callers : Holds(d, m.h)' =>
                                \/ pc'[d] \in {"wait", "destroy", "dealloc"}
                                \/ pc'[d] = "dealloc_wait" /\ got'[d] = Null
        OBVIOUS
    <3>1. hd'[m.h].i = m.i /\ hd'[m.h].done = "no"
        BY <1>2, <2>1 DEF MsgOK
    <3>2. \A d \in Callers \ {c} : Holds(d, m.h)' =>
                    \/ pc'[d] \in {"wait", "destroy", "dealloc"}
                    \/ pc'[d] = "dealloc_wait" /\ got'[d] = Null
        BY <1>1, <2>1 DEF MsgOK, SameCaller
    <3>3. Holds(c, m.h)' => \/ pc'[c] \in {"wait", "destroy", "dealloc"}
                            \/ pc'[c] = "dealloc_wait" /\ got'[c] = Null
        BY <1>2
    <3> QED  BY <3>1, <3>2, <3>3
  <2> QED  BY <2>2, <2>3, <2>4, <2>5, <2>6, <2>7 DEF MsgOK
<1>3. CurOK'
  <2> SUFFICES ASSUME cur # Null
               PROVE  /\ cur \in [m : Msgs, h : Handles \cup {Null}]
                      /\ cur.m.op \in {"alloc", "dealloc"} => cur.h = cur.m.h
                      /\ cur.m.op \in {"create", "stats"} =>
                            /\ cur.h \in Handles
                            /\ hd'[cur.h].st # "new"
                            /\ hd'[cur.h].file = "wifi" =>
                                /\ hd'[cur.h].st = "live"
                                /\ \A d \in Callers : Holds(d, cur.h)' =>
                                        /\ pc'[d] # "free"
                                        /\ pc'[d] = "dealloc_wait" => got'[d] = Null
      BY DEF CurOK
  <2>1. CurOK
      BY DEF MsgInv
  <2>2. /\ cur \in [m : Msgs, h : Handles \cup {Null}]
        /\ cur.m.op \in {"alloc", "dealloc"} => cur.h = cur.m.h
      BY <2>1 DEF CurOK
  <2>3. ASSUME cur.m.op \in {"create", "stats"}
        PROVE  /\ cur.h \in Handles
               /\ hd'[cur.h].st # "new"
               /\ hd'[cur.h].file = "wifi" => hd'[cur.h].st = "live"
      BY <2>1, <2>3 DEF CurOK
  <2>4. ASSUME cur.m.op \in {"create", "stats"}, hd'[cur.h].file = "wifi",
               NEW d \in Callers, Holds(d, cur.h)'
        PROVE  /\ pc'[d] # "free"
               /\ pc'[d] = "dealloc_wait" => got'[d] = Null
    <3>1. CASE d = c
        BY <2>4, <3>1
    <3>2. CASE d # c
        BY <1>1, <2>1, <2>4, <3>2 DEF CurOK, SameCaller
    <3> QED  BY <3>1, <3>2
  <2> QED  BY <2>2, <2>3, <2>4
<1> QED  BY <1>2, <1>3 DEF MsgInv

\* A process goes on and leaves all handles, tables and devices as they are.
LEMMA PlainStep ==
    ASSUME IInv, NEW c \in Callers, OnlyCaller(c),
           UNCHANGED << hd, shared, node >>,
           job' \in [Callers -> Jobs], JobOK(c)',
           \A h \in Handles : Holds(c, h)' =>
                Holds(c, h) /\ job'[c].i = job[c].i /\ job'[c].file = job[c].file,
           Registered(c)' =>
                Registered(c) /\ job'[c].i = job[c].i /\ job'[c].file = job[c].file,
           pc[c] \notin {"hold", "put"}, pc'[c] \notin {"hold", "put", "register", "create"},
           cur' # Null => /\ cur # Null /\ cur'.h = cur.h
                          /\ cur'.m.op = cur.m.op /\ cur'.m.h = cur.m.h,
           Enters(c)',
           pc'[c] \in {"dealloc", "dealloc_wait", "free"} /\ job[c].file = "wifi"
                /\ job'[c].h # Null => \A i \in IfNums : table["wifi"][i] # job'[c].h
    PROVE  JobInv' /\ HandleInv' /\ RegInv' /\ TableInv' /\ DevInv'
<1> USE DEF shared
<1>1. JobInv'
    BY JobStep DEF IInv
<1>2. HandleInv'
    BY HandleStep DEF IInv
<1>3. RegInv'
    BY RegStep DEF IInv, Owned
<1>4. DevInv'
    BY DevStep, NullAssumption DEF IInv, TypeOK, Owned
<1>5. ASSUME NEW i \in IfNums, table["wifi"][i] # Null, Holds(c, table["wifi"][i])'
      PROVE  pc'[c] \notin {"dealloc", "dealloc_wait", "free"}
  <2>1. Entered("wifi", i)
      BY DEF IInv, TableInv, Files
  <2>2. table["wifi"][i] \in Handles
      BY <1>5 DEF IInv, TypeOK, Files
  <2>3. hd[table["wifi"][i]].file = "wifi" /\ job'[c].h = table["wifi"][i]
      BY <1>5, <2>1 DEF Entered, Holds
  <2>4. job[c].file = "wifi"
      BY <1>5, <2>2, <2>3 DEF IInv, HandleInv
  <2> QED  BY <1>5, <2>3, <2>4
<1>6. TableInv'
    BY <1>5, TableStep DEF IInv, Owned
<1> QED  BY <1>1, <1>2, <1>3, <1>4, <1>6

\* ... and does nothing about messages.
LEMMA LocalStep ==
    ASSUME IInv, NEW c \in Callers, OnlyCaller(c),
           UNCHANGED << hd, shared, nss >>,
           JobInv' /\ HandleInv' /\ RegInv' /\ TableInv' /\ DevInv',
           pc' \in [Callers -> Places],
           got' \in [Callers -> Msgs \cup {Null}],
           pc[c] \notin {"alloc_wait", "dealloc_wait"} \/ got[c] # Null,
           \A h \in Handles : Holds(c, h)' => Holds(c, h),
           \A i \in IfNums : Has(c, i)' => Has(c, i),
           pc'[c] \in Working /\ job'[c].h # Null =>
                \/ pc[c] \in {"create", "wait"} /\ pc'[c] = "destroy"
                \/ pc[c] = "wait" /\ pc'[c] = "ndev" /\ hd[job[c].h].done # "no"
                \/ pc[c] = "dealloc_wait"
    PROVE  IInv'
<1> USE DEF shared, nss
<1>1. TypeOK'
    BY DEF IInv, TypeOK, Places, Working, Having
<1>2. PairInv' /\ InFlight' = InFlight /\ InRings' = InRings
    BY KeepPairs DEF IInv
<1>3. NumInv'
  <2>1. \A m \in InFlight' : Touches(m) =>
            \E x \in InFlight : Touches(x) /\ x.i = m.i /\ (Claims(m) => Claims(x))
      BY <1>2
  <2> QED  BY <2>1, NumStep DEF IInv, Owned
<1>4. \A m \in InFlight : MsgOK(m) /\ m \in Msgs
    BY FlightTypes DEF IInv, MsgInv
<1>5. \A m \in InFlight' : m \in InFlight => (m.h # Null => hd'[m.h] = hd[m.h])
    OBVIOUS
<1>6. \A m \in InFlight' : m \in InFlight => (m.h = Null => m.from # c)
    BY <1>4, NullAssumption DEF MsgOK
<1>7. ASSUME NEW m \in InFlight, m.h # Null, m.op \in {"alloc", "dealloc"}
      PROVE  ~ Holds(c, m.h)'
    BY <1>4, <1>7 DEF MsgOK, Msgs
<1>8. ASSUME NEW m \in InFlight, m.h # Null, m.op = "create", Holds(c, m.h)'
      PROVE  \/ pc'[c] \in {"wait", "destroy", "dealloc"}
             \/ pc'[c] = "dealloc_wait" /\ got'[c] = Null
  <2>1. m.h \in Handles
      BY <1>4, <1>8 DEF Msgs
  <2>2. Holds(c, m.h)
      BY <1>8, <2>1
  <2>3. job[c].h = m.h /\ pc'[c] \in Working /\ job'[c].h = m.h
      BY <1>8, <2>2 DEF Holds
  <2>4. /\ \/ pc[c] \in {"wait", "destroy", "dealloc"}
           \/ pc[c] = "dealloc_wait" /\ got[c] = Null
        /\ hd[m.h].done = "no"
      BY <1>4, <1>8, <2>2 DEF MsgOK
  <2> QED  BY <1>8, <2>3, <2>4
<1>9. \A k \in DOMAIN cmds' : ~ cmds'[k].ack /\ cmds'[k].op # "stats"
    BY DEF IInv, MsgInv
<1>10. ASSUME cur # Null, cur.m.op \in {"create", "stats"}
       PROVE  /\ hd'[cur.h].file = hd[cur.h].file /\ hd'[cur.h].st # "new"
              /\ hd[cur.h].file = "wifi" =>
                    /\ hd'[cur.h].st = hd[cur.h].st
                    /\ Holds(c, cur.h)' =>
                            /\ pc'[c] # "free"
                            /\ pc'[c] = "dealloc_wait" => got'[c] = Null
  <2>1. CurOK
      BY DEF IInv, MsgInv
  <2>2. cur.h \in Handles /\ hd[cur.h].st # "new" /\ cur.h # Null
      BY <1>10, <2>1, NullAssumption DEF CurOK
  <2>3. ASSUME hd[cur.h].file = "wifi", Holds(c, cur.h)'
        PROVE  pc'[c] # "free" /\ (pc'[c] = "dealloc_wait" => got'[c] = Null)
    <3>1. Holds(c, cur.h)
        BY <2>2, <2>3
    <3>2. job[c].h = cur.h /\ pc'[c] \in Working /\ job'[c].h = cur.h
        BY <2>3, <3>1 DEF Holds
    <3>3. pc[c] = "dealloc_wait" => got[c] = Null
        BY <1>10, <2>1, <2>3, <3>1 DEF CurOK
    <3> QED  BY <2>2, <2>3, <3>2, <3>3
  <2> QED  BY <2>2, <2>3
<1>11. MsgInv'
    BY <1>2, <1>5, <1>6, <1>7, <1>8, <1>9, <1>10, MsgStep DEF IInv
<1> QED  BY <1>1, <1>2, <1>3, <1>11 DEF IInv

\* A step of a process on its own, with the job j, to the place s.
LEMMA GoOn ==
    ASSUME IInv, NEW c \in Callers, NEW j \in Jobs,
           NEW s \in Places \ {"hold", "put", "register", "create"},
           pc' = [pc EXCEPT ![c] = s], job' = [job EXCEPT ![c] = j],
           got' = [got EXCEPT ![c] = Null],
           UNCHANGED << hd, shared, nss >>,
           JobOK(c)', Enters(c)',
           pc[c] \notin {"hold", "put"},
           pc[c] \notin {"alloc_wait", "dealloc_wait"} \/ got[c] # Null,
           s \in Working => j.h = Null \/ (pc[c] \in Working /\ j = job[c]),
           \A i \in IfNums : Has(c, i)' => Has(c, i),
           Registered(c)' => Registered(c) /\ j = job[c],
           s \in {"dealloc", "dealloc_wait", "free"} /\ j.h # Null =>
                pc[c] = "dealloc_wait" /\ job[c] = j,
           s \in Working /\ j.h # Null =>
                \/ pc[c] \in {"create", "wait"} /\ s = "destroy"
                \/ pc[c] = "wait" /\ s = "ndev" /\ hd[job[c].h].done # "no"
                \/ pc[c] = "dealloc_wait"
    PROVE  IInv'
<1> USE DEF shared, nss
<1>1. /\ pc \in [Callers -> Places] /\ got \in [Callers -> Msgs \cup {Null}]
      /\ job \in [Callers -> Jobs]
    BY DEF IInv, TypeOK, JobInv, Places, Working, Having
<1>2. /\ pc' \in [Callers -> Places] /\ got' \in [Callers -> Msgs \cup {Null}]
      /\ job' \in [Callers -> Jobs]
      /\ pc'[c] = s /\ job'[c] = j /\ got'[c] = Null
    BY <1>1
<1>3. OnlyCaller(c)
    BY <1>1 DEF OnlyCaller, SameCaller
<1>4. ASSUME NEW h \in Handles, Holds(c, h)'
      PROVE  Holds(c, h) /\ job'[c].i = job[c].i /\ job'[c].file = job[c].file
    BY <1>2, <1>4, NullAssumption DEF Holds
<1>5. ASSUME pc'[c] \in {"dealloc", "dealloc_wait", "free"}, job[c].file = "wifi",
             job'[c].h # Null, NEW i \in IfNums
      PROVE  table["wifi"][i] # job'[c].h
  <2>1. pc[c] = "dealloc_wait" /\ job[c] = j
      BY <1>2, <1>5
  <2>2. Entered("wifi", i)
      BY DEF IInv, TableInv, Files
  <2>3. Holds(c, j.h)
      BY <2>1 DEF Holds, Working
  <2> QED  BY <1>2, <1>5, <2>1, <2>2, <2>3 DEF Entered
<1>6. Registered(c)' => Registered(c) /\ job'[c].i = job[c].i /\ job'[c].file = job[c].file
    BY <1>2
<1>7. JobInv' /\ HandleInv' /\ RegInv' /\ TableInv' /\ DevInv'
    BY <1>2, <1>3, <1>4, <1>5, <1>6, PlainStep
<1>8. pc'[c] \in Working /\ job'[c].h # Null =>
                \/ pc[c] \in {"create", "wait"} /\ pc'[c] = "destroy"
                \/ pc[c] = "wait" /\ pc'[c] = "ndev" /\ hd[job[c].h].done # "no"
                \/ pc[c] = "dealloc_wait"
    BY <1>2
<1> QED  BY <1>2, <1>3, <1>4, <1>7, <1>8, LocalStep

LEMMA CallerFacts ==
    ASSUME IInv, NEW c \in Callers
    PROVE  /\ pc \in [Callers -> Places] /\ got \in [Callers -> Msgs \cup {Null}]
           /\ job \in [Callers -> Jobs] /\ job[c] \in Jobs /\ pc[c] \in Places
           /\ JobOK(c)
           /\ pc[c] \notin {"alloc_wait", "dealloc_wait"} =>
                    got[c] = Null /\ got = [got EXCEPT ![c] = Null]
<1>1. /\ pc \in [Callers -> Places] /\ got \in [Callers -> Msgs \cup {Null}]
      /\ job \in [Callers -> Jobs] /\ job[c] \in Jobs /\ pc[c] \in Places
    BY DEF IInv, TypeOK, JobInv, Places, Working, Having
<1>2. JobOK(c)
    BY DEF IInv, JobInv
<1>3. pc[c] \notin {"alloc_wait", "dealloc_wait"} => got[c] = Null
    BY <1>2 DEF JobOK
<1> QED  BY <1>1, <1>2, <1>3

\* A process at no place keeps nothing.
LEMMA Gone ==
    ASSUME NEW c, pc'[c] = "idle"
    PROVE  /\ \A h : ~ Holds(c, h)'
           /\ \A i : ~ Has(c, i)'
           /\ ~ Registered(c)'
           /\ got'[c] = Null => JobOK(c)'
           /\ Enters(c)'
<1>1. (\A h : ~ Holds(c, h)') /\ (\A i : ~ Has(c, i)') /\ ~ Registered(c)'
    BY DEF Holds, Has, Registered, Working, Having
<1>2. got'[c] = Null => JobOK(c)'
    BY DEF JobOK, Working, Having
<1>3. Enters(c)'
    BY DEF Enters
<1> QED  BY <1>1, <1>2, <1>3

LEMMA NoJobType == NoJob \in Jobs
    BY DEF NoJob, Jobs, Files

LEMMA LeaveStep ==
    ASSUME IInv, NEW c \in Callers, Leave(c), got' = [got EXCEPT ![c] = Null],
           UNCHANGED << hd, shared, nss >>,
           pc[c] \notin {"hold", "put"},
           pc[c] \notin {"alloc_wait", "dealloc_wait"} \/ got[c] # Null
    PROVE  IInv'
<1>1. pc'[c] = "idle" /\ got'[c] = Null
    BY CallerFacts DEF Leave
<1>2. /\ \A h : ~ Holds(c, h)'
      /\ \A i : ~ Has(c, i)'
      /\ ~ Registered(c)' /\ JobOK(c)' /\ Enters(c)'
    BY <1>1, Gone
<1>3. /\ "idle" \in Places \ {"hold", "put", "register", "create"} /\ "idle" \notin Working
      /\ NoJob \in Jobs
    BY NoJobType, NullAssumption DEF Places, Working, Having
<1> QED  BY <1>2, <1>3, GoOn DEF Leave

LEMMA CreateInv ==
    ASSUME IInv, NEW c \in Callers, NEW f \in Files, Create(c, f)
    PROVE  IInv'
<1> DEFINE j == [NoJob EXCEPT !.file = f, !.dev = c]
<1>1. pc[c] = "idle" /\ pc' = [pc EXCEPT ![c] = "alloc"] /\ job' = [job EXCEPT ![c] = j]
    BY DEF Create, GoTo
<1>2. got' = [got EXCEPT ![c] = Null] /\ got'[c] = Null
    BY <1>1, CallerFacts DEF Create
<1>3. j \in Jobs /\ j.h = Null /\ j.i = Null /\ ~ j.user
    BY NoJobType, NullAssumption DEF NoJob, Jobs
<1> HIDE DEF j
<1>4. pc'[c] = "alloc" /\ job'[c] = j
    BY <1>1, CallerFacts
<1>5. JobOK(c)'
    BY <1>2, <1>3, <1>4 DEF JobOK, Working, Having
<1>6. Enters(c)' /\ ~ Registered(c)' /\ \A i : ~ Has(c, i)'
    BY <1>4 DEF Enters, Registered, Has, Having
<1>7. "alloc" \in Places \ {"hold", "put", "register", "create"} /\ "alloc" \notin Working
    BY DEF Places, Working, Having
<1> QED  BY <1>1, <1>2, <1>3, <1>5, <1>6, <1>7, GoOn DEF Create

LEMMA FailsInv ==
    ASSUME IInv, NEW c \in Callers,
           (\E op \in {"alloc", "dealloc"} : RequestFails(c, op)) \/ DestroyAsyncFails(c)
    PROVE  IInv'
<1>1. pc[c] \in {"alloc", "dealloc", "async"} /\ Leave(c) /\ got' = got
      /\ UNCHANGED << hd, shared, nss >>
    BY DEF RequestFails, DestroyAsyncFails
<1>2. got' = [got EXCEPT ![c] = Null]
    BY <1>1, CallerFacts
<1> QED  BY <1>1, <1>2, LeaveStep

LEMMA AllocatedInv ==
    ASSUME IInv, NEW c \in Callers, Allocated(c)
    PROVE  IInv'
<1>1. /\ pc[c] = "alloc_wait" /\ got[c] # Null /\ got' = [got EXCEPT ![c] = Null]
      /\ UNCHANGED << hd, shared, nss >>
    BY DEF Allocated
<1>2. CASE ~ got[c].ack
    BY <1>1, <1>2, LeaveStep DEF Allocated
<1>3. CASE got[c].ack
  <2> DEFINE j == [job[c] EXCEPT !.i = got[c].i]
  <2>1. pc' = [pc EXCEPT ![c] = "handle"] /\ job' = [job EXCEPT ![c] = j]
      BY <1>3 DEF Allocated
  <2>2. got[c].i \in IfNums /\ ~ job[c].user /\ job[c].h = Null /\ job[c] \in Jobs
      BY <1>1, <1>3, CallerFacts DEF JobOK
  <2>3. j \in Jobs /\ j.h = Null /\ j.i = got[c].i /\ ~ j.user
      BY <2>2 DEF Jobs
  <2> HIDE DEF j
  <2>4. pc'[c] = "handle" /\ job'[c] = j /\ got'[c] = Null
      BY <1>1, <2>1, CallerFacts
  <2>5. JobOK(c)'
      BY <2>2, <2>3, <2>4 DEF JobOK, Working, Having
  <2>6. Enters(c)' /\ ~ Registered(c)'
      BY <2>4 DEF Enters, Registered
  <2>7. \A i \in IfNums : Has(c, i)' => Has(c, i)
      BY <1>1, <1>3, <2>3, <2>4 DEF Has, Having
  <2>8. "handle" \in Places \ {"hold", "put", "register", "create"} /\ "handle" \notin Working
      BY DEF Places, Working, Having
  <2> QED  BY <1>1, <2>1, <2>3, <2>5, <2>6, <2>7, <2>8, GoOn
<1> QED  BY <1>2, <1>3

LEMMA NoHandleInv ==
    ASSUME IInv, NEW c \in Callers, NoHandle(c)
    PROVE  IInv'
<1> DEFINE j == job[c]
<1>1. /\ pc[c] = "handle" /\ pc' = [pc EXCEPT ![c] = "dealloc"] /\ job' = job
      /\ UNCHANGED << hd, shared, nss >> /\ got' = got
    BY DEF NoHandle, GoTo
<1>2. /\ j \in Jobs /\ job' = [job EXCEPT ![c] = j] /\ got' = [got EXCEPT ![c] = Null]
      /\ pc'[c] = "dealloc" /\ job'[c] = j /\ got'[c] = Null
    BY <1>1, CallerFacts
<1>3. j.h = Null /\ ~ j.user /\ j.i \in IfNums
    BY <1>1, CallerFacts DEF JobOK, Having
<1> HIDE DEF j
<1>4. JobOK(c)'
    BY <1>2, <1>3 DEF JobOK, Working, Having
<1>5. Enters(c)' /\ ~ Registered(c)'
    BY <1>2, <1>3 DEF Enters, Registered
<1>6. \A i \in IfNums : Has(c, i)' => Has(c, i)
    BY <1>1, <1>2 DEF Has, Having, j
<1>7. "dealloc" \in Places \ {"hold", "put", "register", "create"}
    BY DEF Places, Working
<1> QED  BY <1>1, <1>2, <1>3, <1>4, <1>5, <1>6, <1>7, GoOn

\* A CREATE that is not sent, not answered in time, or refused; one that is
\* granted.
LEMMA CreatedInv ==
    ASSUME IInv, NEW c \in Callers, CreateFails(c) \/ Created(c)
    PROVE  IInv'
<1> DEFINE j == job[c]
<1>1. PICK s \in {"destroy", "ndev"} :
        /\ pc' = [pc EXCEPT ![c] = s]
        /\ pc[c] \in {"create", "wait"}
        /\ s = "ndev" => pc[c] = "wait" /\ hd[job[c].h].done = "ACK"
    BY DEF CreateFails, Created, GoTo
<1>2. job' = job /\ got' = got /\ UNCHANGED << hd, shared, nss >>
    BY DEF CreateFails, Created
<1>3. /\ j \in Jobs /\ job' = [job EXCEPT ![c] = j] /\ got' = [got EXCEPT ![c] = Null]
      /\ pc'[c] = s /\ job'[c] = j /\ got'[c] = Null
    BY <1>1, <1>2, CallerFacts
<1>4. j.h \in Handles /\ j.i \in IfNums
    BY <1>1, CallerFacts DEF JobOK, Having, Working
<1>5. JobOK(c)'
  <2>1. JobOK(c)
      BY CallerFacts
  <2> HIDE DEF j
  <2> QED  BY <1>1, <1>3, <1>4 DEF JobOK, Working, Having
<1>6. Enters(c)'
  <2>1. Enters(c)
      BY DEF IInv, TableInv
  <2>2. Kept(job[c].h)' <=> Kept(job[c].h)
      BY <1>2 DEF Kept, shared
  <2>3. table[job[c].file][job[c].i] \in {job[c].h, Null}
      BY <1>1, <2>1 DEF Enters
  <2>4. s = "ndev" => Kept(job[c].h)
      BY <1>1, <2>1 DEF Enters
  <2> QED  BY <1>2, <1>3, <2>2, <2>3, <2>4 DEF Enters, shared
<1>7. Registered(c)' => Registered(c)
    BY <1>1, <1>3 DEF Registered
<1>8. \A i \in IfNums : Has(c, i)' => Has(c, i)
    BY <1>1, <1>3 DEF Has, Having
<1>9. s \in Places \ {"hold", "put", "register", "create"} /\ pc[c] \in Working
    BY <1>1 DEF Places, Working
<1> HIDE DEF j
<1>10. s \in Working => j = job[c]
    BY DEF j
<1> QED  BY <1>1, <1>2, <1>3, <1>5, <1>6, <1>7, <1>8, <1>9, <1>10, GoOn

LEMMA DeallocatedInv ==
    ASSUME IInv, NEW c \in Callers, Deallocated(c)
    PROVE  IInv'
<1>1. /\ pc[c] = "dealloc_wait" /\ got[c] # Null /\ got' = [got EXCEPT ![c] = Null]
      /\ UNCHANGED << hd, shared, nss >>
    BY DEF Deallocated
<1>2. CASE ~ (got[c].ack /\ job[c].h # Null)
    BY <1>1, <1>2, LeaveStep DEF Deallocated
<1>3. CASE got[c].ack /\ job[c].h # Null
  <2> DEFINE j == job[c]
  <2>1. pc' = [pc EXCEPT ![c] = "free"] /\ job' = job
      BY <1>3 DEF Deallocated
  <2>2. /\ j \in Jobs /\ job' = [job EXCEPT ![c] = j]
        /\ pc'[c] = "free" /\ job'[c] = j /\ got'[c] = Null
      BY <1>1, <2>1, CallerFacts
  <2>3. j.h \in Handles /\ j.i \in IfNums
      BY <1>1, <1>3, CallerFacts DEF JobOK, Jobs
  <2>4. JobOK(c)'
    <3> HIDE DEF j
    <3> QED  BY <2>2, <2>3 DEF JobOK, Working, Having
  <2>5. Enters(c)' /\ \A i : ~ Has(c, i)'
      BY <2>2 DEF Enters, Has, Having
  <2>6. Registered(c)' => Registered(c)
      BY <1>1, <2>2 DEF Registered
  <2>7. "free" \in Places \ {"hold", "put", "register", "create"} /\ pc[c] \in Working
      BY <1>1 DEF Places, Working
  <2> HIDE DEF j
  <2>8. j = job[c]
      BY DEF j
  <2> QED  BY <1>1, <2>1, <2>2, <2>4, <2>5, <2>6, <2>7, <2>8, GoOn
<1> QED  BY <1>2, <1>3

\* A process sends a message: what it was about belongs to the message now.
LEMMA SendStep ==
    ASSUME IInv, NEW c \in Callers, OnlyCaller(c), NEW m \in Msgs,
           cmds' = Append(cmds, m), UNCHANGED << hd, shared, cur, replies, node >>,
           JobInv' /\ HandleInv' /\ RegInv' /\ TableInv' /\ DevInv',
           pc' \in [Callers -> Places], got' \in [Callers -> Msgs \cup {Null}],
           pc[c] \notin {"alloc_wait", "dealloc_wait"},
           \A x \in InFlight : Apart(x, m),
           MsgOK(m)', m.op # "stats", ~ m.ack,
           \A h \in Handles : Holds(c, h)' => Holds(c, h),
           pc'[c] \in Working =>
                \/ pc'[c] = "wait" /\ pc[c] = "create"
                \/ pc'[c] = "dealloc_wait" /\ pc[c] = "dealloc" /\ got'[c] = Null,
           \A i \in IfNums : Has(c, i)' => Has(c, i),
           Touches(m) => m.i \in IfNums /\ Has(c, m.i) /\ ~ Has(c, m.i)'
    PROVE  IInv'
<1> USE DEF shared
<1>1. TypeOK'
  <2>1. cmds' \in Seq(Msgs)
      BY DEF IInv, TypeOK
  <2> QED  BY <2>1 DEF IInv, TypeOK, Places, Working, Having
<1>2. /\ PairInv'
      /\ InFlight' \subseteq InFlight \cup {m}
      /\ \A k \in DOMAIN cmds' : cmds'[k] = m \/ \E j \in DOMAIN cmds : cmds'[k] = cmds[j]
  <2>1. \A x \in InRings : Apart(x, m)
      BY DEF InFlight
  <2>2. cur # Null => Apart(cur.m, m)
      BY DEF InFlight
  <2> QED  BY <2>1, <2>2, SendPairs DEF IInv
<1>3. NumInv'
  <2>1. \A x \in InFlight' : Touches(x) =>
            \/ \E y \in InFlight : Touches(y) /\ y.i = x.i /\ (Claims(x) => Claims(y))
            \/ x.i \in IfNums /\ Has(c, x.i) /\ ~ Has(c, x.i)'
      BY <1>2
  <2> QED  BY <2>1, NumStep DEF IInv, Owned
<1>4. \A x \in InFlight : MsgOK(x) /\ x \in Msgs
    BY FlightTypes DEF IInv, MsgInv
<1>5. \A x \in InFlight' : x \in InFlight \/ MsgOK(x)'
    BY <1>2
<1>6. \A k \in DOMAIN cmds' : ~ cmds'[k].ack /\ cmds'[k].op # "stats"
    BY <1>2 DEF IInv, MsgInv
<1>7. \A x \in InFlight : x.h = Null => x.from # c
    BY <1>4, NullAssumption DEF MsgOK
<1>8. ASSUME NEW x \in InFlight, x.h # Null, x.op \in {"alloc", "dealloc"}
      PROVE  ~ Holds(c, x.h)'
    BY <1>4, <1>8 DEF MsgOK, Msgs
<1>9. ASSUME NEW x \in InFlight, x.h # Null, x.op = "create", Holds(c, x.h)'
      PROVE  pc'[c] = "wait" \/ (pc'[c] = "dealloc_wait" /\ got'[c] = Null)
    BY <1>9 DEF Holds
<1>10. ASSUME cur # Null, cur.m.op \in {"create", "stats"}
       PROVE  /\ hd'[cur.h].file = hd[cur.h].file /\ hd'[cur.h].st # "new"
              /\ hd[cur.h].file = "wifi" =>
                    /\ hd'[cur.h].st = hd[cur.h].st
                    /\ Holds(c, cur.h)' =>
                            /\ pc'[c] # "free"
                            /\ pc'[c] = "dealloc_wait" => got'[c] = Null
  <2>1. hd[cur.h].st # "new"
      BY <1>10 DEF IInv, MsgInv, CurOK
  <2>2. Holds(c, cur.h)' => pc'[c] # "free" /\ (pc'[c] = "dealloc_wait" => got'[c] = Null)
      BY DEF Holds
  <2> QED  BY <2>1, <2>2
<1>11. MsgInv'
    BY <1>5, <1>6, <1>7, <1>8, <1>9, <1>10, MsgStep DEF IInv
<1> QED  BY <1>1, <1>2, <1>3, <1>11 DEF IInv

LEMMA RequestInv ==
    ASSUME IInv, NEW c \in Callers, NEW op \in {"alloc", "dealloc"}, Request(c, op)
    PROVE  IInv'
<1> DEFINE w == IF op = "alloc" THEN "alloc_wait" ELSE "dealloc_wait"
<1>1. /\ pc[c] = op /\ pc' = [pc EXCEPT ![c] = w] /\ cmds' = Append(cmds, Msg(op, job[c].i, Null, c))
      /\ got' = [got EXCEPT ![c] = Null]
      /\ UNCHANGED << hd, shared, job, cur, replies, node >>
  <2>1. CASE op = "alloc"
      BY <2>1 DEF Request, GoTo, Send
  <2>2. CASE op = "dealloc"
      BY <2>2 DEF Request, GoTo, Send
  <2> QED  BY <2>1, <2>2
<1>2. /\ job[c] \in Jobs /\ JobOK(c)
      /\ op = "alloc" => job[c].i = Null /\ job[c].h = Null
      /\ op = "dealloc" => job[c].i \in IfNums
    BY <1>1, CallerFacts DEF JobOK, Having
<1>3. PICK m \in Msgs : /\ m = Msg(op, job[c].i, Null, c)
                       /\ m.op = op /\ m.i = job[c].i /\ m.h = Null /\ m.from = c /\ ~ m.ack
  <2>1. job[c].i \in IfNums \cup {Null} /\ op \in {"alloc", "dealloc", "create", "stats"}
      BY <1>2 DEF Jobs
  <2>2. /\ Msg(op, job[c].i, Null, c) \in Msgs
        /\ Msg(op, job[c].i, Null, c).op = op
        /\ Msg(op, job[c].i, Null, c).i = job[c].i
        /\ Msg(op, job[c].i, Null, c).h = Null
        /\ Msg(op, job[c].i, Null, c).from = c
        /\ ~ Msg(op, job[c].i, Null, c).ack
      BY <2>1, MsgTypes
  <2> QED  BY <2>2
<1>4. /\ pc'[c] = w /\ got'[c] = Null /\ job'[c] = job[c] /\ OnlyCaller(c)
      /\ pc' \in [Callers -> Places] /\ got' \in [Callers -> Msgs \cup {Null}]
      /\ job' \in [Callers -> Jobs]
  <2>1. w \in Places
      BY DEF Places, Working
  <2> QED  BY <1>1, <2>1, CallerFacts DEF OnlyCaller, SameCaller
<1>5. JobOK(c)'
    BY <1>1, <1>2, <1>4 DEF JobOK, Working, Having
<1>6. /\ \A h \in Handles : Holds(c, h)' => Holds(c, h)
      /\ \A i : ~ Has(c, i)'
      /\ Registered(c)' => Registered(c)
      /\ Enters(c)'
  <2>1. \A h \in Handles : Holds(c, h)' => Holds(c, h)
      BY <1>1, <1>2, <1>4, NullAssumption DEF Holds, Working
  <2>2. \A i : ~ Has(c, i)'
      BY <1>4 DEF Has, Having
  <2>3. Registered(c)' => Registered(c)
      BY <1>1, <1>4 DEF Registered
  <2>4. Enters(c)'
      BY <1>4 DEF Enters
  <2> QED  BY <2>1, <2>2, <2>3, <2>4
<1>7. ASSUME pc'[c] \in {"dealloc", "dealloc_wait", "free"}, job[c].file = "wifi",
             job'[c].h # Null, NEW i \in IfNums
      PROVE  table["wifi"][i] # job'[c].h
  <2>1. pc[c] = "dealloc" /\ Holds(c, job[c].h)
      BY <1>1, <1>2, <1>4, <1>7 DEF Holds, Working
  <2>2. Entered("wifi", i)
      BY DEF IInv, TableInv, Files
  <2> QED  BY <1>4, <1>7, <2>1, <2>2 DEF Entered
<1>8. JobInv' /\ HandleInv' /\ RegInv' /\ TableInv' /\ DevInv'
    BY <1>1, <1>4, <1>5, <1>6, <1>7, PlainStep
<1>9. Touches(m) => m.i \in IfNums /\ Has(c, m.i)
    BY <1>1, <1>2, <1>3 DEF Touches, Claims, Has, Having
<1>10. ASSUME NEW x \in InFlight
       PROVE  Apart(x, m)
  <2>1. MsgOK(x) /\ x \in Msgs
      BY FlightTypes DEF IInv, MsgInv
  <2>2. x.h = Null /\ x.from # Null => x.from # c
      BY <1>1, <2>1 DEF MsgOK
  <2>3. Touches(x) /\ Touches(m) => x.i # m.i
      BY <1>9 DEF IInv, NumInv
  <2> QED  BY <1>3, <2>2, <2>3 DEF Apart, Touches
<1>11. MsgOK(m)'
    BY <1>2, <1>3, <1>4, NullAssumption DEF MsgOK
<1>12. m.op # "stats" /\ pc[c] \notin {"alloc_wait", "dealloc_wait"}
    BY <1>1, <1>3
<1>13. pc'[c] \in Working => pc'[c] = "dealloc_wait" /\ pc[c] = "dealloc"
    BY <1>1, <1>4 DEF Working
<1> QED  BY <1>1, <1>3, <1>4, <1>6, <1>8, <1>9, <1>10, <1>11, <1>12, <1>13, SendStep

LEMMA SendCreateInv ==
    ASSUME IInv, NEW c \in Callers, SendCreate(c)
    PROVE  IInv'
<1>1. /\ pc[c] = "create" /\ pc' = [pc EXCEPT ![c] = "wait"]
      /\ cmds' = Append(cmds, Msg("create", job[c].i, job[c].h, Null))
      /\ UNCHANGED << hd, shared, job, got, cur, replies, node >>
    BY DEF SendCreate, GoTo, Send
<1>2. /\ job[c].i \in IfNums /\ job[c].h \in Handles /\ JobOK(c)
    BY <1>1, CallerFacts DEF JobOK, Having, Working
<1>3. PICK m \in Msgs :
        /\ m = Msg("create", job[c].i, job[c].h, Null)
        /\ m.op = "create" /\ m.i = job[c].i /\ m.h = job[c].h /\ ~ m.ack
        /\ m.h # Null /\ m.from = Null
    BY <1>2, MsgTypes, NullAssumption
<1>4. /\ pc'[c] = "wait" /\ got'[c] = Null /\ job'[c] = job[c] /\ OnlyCaller(c)
      /\ pc' \in [Callers -> Places] /\ got' \in [Callers -> Msgs \cup {Null}]
      /\ job' \in [Callers -> Jobs]
    BY <1>1, CallerFacts DEF OnlyCaller, SameCaller, Places, Working
<1>5. JobOK(c)'
    BY <1>1, <1>2, <1>4 DEF JobOK, Working, Having
<1>6. Holds(c, job[c].h)
    BY <1>1 DEF Holds, Working
<1>7. /\ hd[m.h].st = "live" /\ hd[m.h].owner = Null
      /\ hd[m.h].i = m.i /\ hd[m.h].done = "no"
    BY <1>1, <1>2, <1>3, <1>6 DEF IInv, HandleInv
<1>8. ASSUME NEW x \in InFlight
      PROVE  /\ x.h # Null => x.h # m.h
             /\ Touches(x) => x.i # m.i
             /\ MsgOK(x) /\ x \in Msgs
  <2>1. MsgOK(x) /\ x \in Msgs
      BY FlightTypes DEF IInv, MsgInv
  <2>2. x.h # Null => x.h # m.h
      BY <1>1, <1>3, <1>6, <2>1 DEF MsgOK
  <2>3. Has(c, m.i)
      BY <1>1, <1>3 DEF Has, Having
  <2> QED  BY <1>2, <1>3, <2>1, <2>2, <2>3 DEF IInv, NumInv
<1>9. Enters(c)'
  <2>1. table[job[c].file][job[c].i] \in {job[c].h, Null}
      BY <1>1 DEF IInv, TableInv, Enters
  <2>2. cur # Null => cur.m.h # job[c].h
    <3> SUFFICES ASSUME cur # Null, cur.m.h = job[c].h PROVE FALSE
        OBVIOUS
    <3>1. cur.m \in InFlight
        BY DEF InFlight
    <3> QED  BY <1>2, <1>3, <1>8, <3>1, NullAssumption
  <2> QED  BY <1>1, <1>3, <1>4, <1>7, <2>1, <2>2 DEF Enters, shared
<1>10. /\ \A h \in Handles : Holds(c, h)' => Holds(c, h)
       /\ \A i \in IfNums : Has(c, i)' => Has(c, i)
       /\ Registered(c)' => Registered(c)
    BY <1>1, <1>4 DEF Holds, Has, Registered, Working, Having
<1>11. JobInv' /\ HandleInv' /\ RegInv' /\ TableInv' /\ DevInv'
    BY <1>1, <1>4, <1>5, <1>9, <1>10, PlainStep
<1>12. \A x \in InFlight : Apart(x, m)
    BY <1>3, <1>8 DEF Apart, Touches, Claims
<1>13. MsgOK(m)'
  <2>1. \A d \in Callers : Holds(d, m.h)' => d = c
    <3>1. \A d \in Callers \ {c} : Holds(d, m.h)' <=> Holds(d, m.h)
        BY <1>4, SameFacts DEF OnlyCaller
    <3> QED  BY <1>2, <1>3, <1>6, <3>1 DEF IInv, HandleInv
  <2>2. \A d \in Callers : Holds(d, m.h)' => pc'[d] = "wait"
      BY <1>4, <2>1
  <2> QED  BY <1>1, <1>2, <1>3, <1>7, <2>2 DEF MsgOK
<1>14. m.op # "stats" /\ ~ Touches(m) /\ pc[c] \notin {"alloc_wait", "dealloc_wait"}
    BY <1>1, <1>3 DEF Touches, Claims
<1> QED  BY <1>1, <1>3, <1>4, <1>10, <1>11, <1>12, <1>13, <1>14, SendStep

LEMMA DestroyAsyncInv ==
    ASSUME IInv, NEW c \in Callers, DestroyAsync(c)
    PROVE  IInv'
<1>1. /\ pc[c] = "async" /\ pc' = [pc EXCEPT ![c] = "unregister"]
      /\ cmds' = Append(cmds, Msg("dealloc", job[c].i, job[c].h, Null))
      /\ UNCHANGED << hd, shared, job, got, cur, replies, node >>
    BY DEF DestroyAsync, GoTo, Send
<1>2. /\ job[c].i \in IfNums /\ job[c].h \in Handles /\ JobOK(c)
      /\ job[c].user /\ job[c].file = "virt_if"
    BY <1>1, CallerFacts DEF JobOK, Having, Working
<1>3. PICK m \in Msgs :
        /\ m = Msg("dealloc", job[c].i, job[c].h, Null)
        /\ m.op = "dealloc" /\ m.i = job[c].i /\ m.h = job[c].h /\ ~ m.ack
        /\ m.h # Null /\ m.from = Null
    BY <1>2, MsgTypes, NullAssumption
<1>4. /\ pc'[c] = "unregister" /\ got'[c] = Null /\ job'[c] = job[c] /\ OnlyCaller(c)
      /\ pc' \in [Callers -> Places] /\ got' \in [Callers -> Msgs \cup {Null}]
      /\ job' \in [Callers -> Jobs]
    BY <1>1, CallerFacts DEF OnlyCaller, SameCaller, Places
<1>5. JobOK(c)'
    BY <1>1, <1>2, <1>4 DEF JobOK, Working, Having
<1>6. Holds(c, job[c].h)
    BY <1>1 DEF Holds, Working
<1>7. /\ hd[m.h].st = "live" /\ hd[m.h].owner = Null
      /\ hd[m.h].i = m.i /\ hd[m.h].file = "virt_if"
    BY <1>1, <1>2, <1>3, <1>6 DEF IInv, HandleInv
<1>8. Has(c, m.i)
    BY <1>1, <1>3 DEF Has, Having
<1>9. ASSUME NEW x \in InFlight
      PROVE  /\ x.h # Null => x.h # m.h
             /\ Touches(x) => x.i # m.i
  <2>1. MsgOK(x) /\ x \in Msgs
      BY FlightTypes DEF IInv, MsgInv
  <2>2. x.h # Null => x.h # m.h
      BY <1>1, <1>3, <1>6, <2>1 DEF MsgOK
  <2> QED  BY <1>2, <1>3, <1>8, <2>2 DEF IInv, NumInv
<1>10. /\ \A h \in Handles : ~ Holds(c, h)'
       /\ \A i \in IfNums : ~ Has(c, i)'
       /\ Registered(c)' => Registered(c)
       /\ Enters(c)'
    BY <1>1, <1>2, <1>4 DEF Holds, Has, Registered, Working, Having, Enters
<1>11. JobInv' /\ HandleInv' /\ RegInv' /\ TableInv' /\ DevInv'
    BY <1>1, <1>4, <1>5, <1>10, PlainStep
<1>12. \A x \in InFlight : Apart(x, m)
    BY <1>3, <1>9 DEF Apart, Touches, Claims
<1>13. MsgOK(m)'
  <2>1. \A d \in Callers : ~ Holds(d, m.h)'
    <3>1. \A d \in Callers \ {c} : Holds(d, m.h)' <=> Holds(d, m.h)
        BY <1>4, SameFacts DEF OnlyCaller
    <3> QED  BY <1>2, <1>3, <1>6, <1>10, <3>1 DEF IInv, HandleInv
  <2> QED  BY <1>1, <1>2, <1>3, <1>7, <2>1 DEF MsgOK
<1>14. /\ m.op # "stats" /\ pc[c] \notin {"alloc_wait", "dealloc_wait"}
       /\ pc'[c] \notin Working
    BY <1>1, <1>3, <1>4 DEF Working
<1> QED  BY <1>1, <1>2, <1>3, <1>4, <1>8, <1>10, <1>11, <1>12, <1>13, <1>14, SendStep

\* Nobody waits for the answer any more; the number, if there is one, goes
\* with the message.
LEMMA TimesOutInv ==
    ASSUME IInv, NEW c \in Callers, RequestTimesOut(c)
    PROVE  IInv'
<1>1. /\ pc[c] \in {"alloc_wait", "dealloc_wait"} /\ got[c] = Null
      /\ pc' = [pc EXCEPT ![c] = "idle"] /\ job' = [job EXCEPT ![c] = NoJob]
      /\ UNCHANGED << hd, shared, got, node >>
      /\ cmds' = [n \in DOMAIN cmds |-> Disowned(c, cmds[n])]
      /\ replies' = [n \in DOMAIN replies |-> Disowned(c, replies[n])]
      /\ cur' = IF cur = Null THEN Null ELSE [cur EXCEPT !.m = Disowned(c, @)]
    BY DEF RequestTimesOut, Leave
<1>2. /\ PairInv'
      /\ \A x \in InFlight' : \E m \in InFlight : x = Disowned(c, m)
      /\ cmds' \in Seq(Msgs) /\ replies' \in Seq(Msgs)
      /\ \A k \in DOMAIN cmds' : k \in DOMAIN cmds /\ cmds'[k] = Disowned(c, cmds[k])
      /\ cur' # Null =>
            /\ cur # Null /\ cur' \in [m : Msgs, h : Handles \cup {Null}]
            /\ cur'.m = Disowned(c, cur.m) /\ cur'.h = cur.h
    BY <1>1, DisownPairs DEF IInv
<1>3. /\ pc'[c] = "idle" /\ got'[c] = Null /\ OnlyCaller(c)
      /\ pc' \in [Callers -> Places] /\ job' \in [Callers -> Jobs]
  <2>1. "idle" \in Places /\ NoJob \in Jobs
      BY NoJobType, NullAssumption DEF Places
  <2> QED  BY <1>1, <2>1, CallerFacts DEF OnlyCaller, SameCaller
<1>4. /\ \A h : ~ Holds(c, h)'
      /\ \A i : ~ Has(c, i)'
      /\ ~ Registered(c)' /\ JobOK(c)' /\ Enters(c)'
    BY <1>3, Gone
<1>5. \A m \in InFlight : MsgOK(m) /\ m \in Msgs
    BY FlightTypes DEF IInv, MsgInv
<1>6. cur' # Null => cur'.m.h = cur.m.h /\ cur'.m.op = cur.m.op
    BY <1>2, DisownedMsg, FlightTypes DEF IInv
<1>7. JobInv' /\ HandleInv' /\ RegInv' /\ TableInv' /\ DevInv'
    BY <1>1, <1>2, <1>3, <1>4, <1>6, PlainStep
<1>8. TypeOK'
    BY <1>1, <1>2, <1>3 DEF IInv, TypeOK, Places, Working, Having, shared
<1>9. NumInv'
  <2>1. ASSUME NEW x \in InFlight', Touches(x)
        PROVE  \E m \in InFlight : Touches(m) /\ m.i = x.i /\ (Claims(x) => Claims(m))
    <3>1. PICK m \in InFlight : x = Disowned(c, m)
        BY <1>2
    <3>2. x.op = m.op /\ x.i = m.i /\ x.ack = m.ack
        BY <1>5, <3>1, DisownedMsg
    <3> QED  BY <2>1, <3>2 DEF Touches, Claims
  <2> QED  BY <1>1, <1>3, <1>4, <2>1, NumStep DEF IInv, Owned
<1>10. \A d \in Callers \ {c} : SameCaller(d) /\ \A h : Holds(d, h)' <=> Holds(d, h)
    BY <1>3, SameFacts DEF OnlyCaller
<1>11. ASSUME NEW x \in InFlight'
       PROVE  MsgOK(x)'
  <2>1. PICK m \in InFlight : x = Disowned(c, m)
      BY <1>2
  <2>2. /\ x.op = m.op /\ x.i = m.i /\ x.ack = m.ack /\ x.h = m.h
        /\ x.from = IF m.from = c /\ m.h = Null THEN Null ELSE m.from
        /\ MsgOK(m) /\ m \in Msgs
      BY <1>5, <2>1, DisownedMsg
  <2>3. x.op = "alloc" => (x.i \in IfNums <=> x.ack)
      BY <2>2 DEF MsgOK
  <2>4. x.op # "alloc" => x.i \in IfNums
      BY <2>2 DEF MsgOK
  <2>5. x.h = Null /\ x.from # Null =>
            /\ x.op \in {"alloc", "dealloc"}
            /\ pc'[x.from] = IF x.op = "alloc" THEN "alloc_wait" ELSE "dealloc_wait"
            /\ got'[x.from] = Null
            /\ x.op = "dealloc" => x.i = job'[x.from].i
    <3> SUFFICES ASSUME x.h = Null, x.from # Null
                 PROVE  /\ x.op \in {"alloc", "dealloc"}
                        /\ pc'[x.from] = IF x.op = "alloc" THEN "alloc_wait"
                                         ELSE "dealloc_wait"
                        /\ got'[x.from] = Null
                        /\ x.op = "dealloc" => x.i = job'[x.from].i
        OBVIOUS
    <3>1. x.from = m.from /\ m.from \in Callers \ {c}
        BY <2>2 DEF Msgs
    <3> QED  BY <1>10, <2>2, <3>1 DEF MsgOK, SameCaller
  <2>6. x.h # Null => /\ x.op \in {"alloc", "dealloc", "create"}
                      /\ hd'[x.h].st = "live" /\ hd'[x.h].owner = Null
      BY <1>1, <2>2 DEF MsgOK
  <2>7. x.h # Null /\ x.op \in {"alloc", "dealloc"} =>
            /\ hd'[x.h].file = "virt_if"
            /\ x.op = "alloc" => NumberOK(x)'
            /\ x.op = "dealloc" => hd'[x.h].i = x.i
            /\ \A d \in Callers : ~ Holds(d, x.h)'
            /\ x.op = "alloc" => x.from \in Callers
    <3>1. cur # Null => cur' # Null /\ cur'.m.h = cur.m.h
      <4>1. ASSUME cur # Null
            PROVE  cur' # Null
        <5>1. cur' \in [m : Msgs, h : Handles \cup {Null}]
          <6>1. cur \in [m : Msgs, h : Handles \cup {Null}]
              BY <4>1 DEF IInv, MsgInv, CurOK
          <6>2. cur.m \in Msgs /\ cur.m \in InFlight /\ cur' = [cur EXCEPT !.m = Disowned(c, @)]
              BY <1>1, <4>1, <6>1 DEF InFlight
          <6>3. Disowned(c, cur.m) \in Msgs
              BY <6>2, DisownedMsg
          <6> QED  BY <6>1, <6>2, <6>3
        <5> QED  BY <5>1, NoWork
      <4> QED  BY <1>6, <4>1
    <3>2. x.h # Null /\ x.op = "alloc" => NumberOK(x)'
        BY <1>1, <2>2, <3>1 DEF MsgOK, NumberOK
    <3> QED  BY <1>1, <1>4, <1>10, <2>2, <3>2 DEF MsgOK
  <2>8. x.h # Null /\ x.op = "create" =>
            /\ hd'[x.h].i = x.i /\ hd'[x.h].done = "no"
            /\ \A d \in Callers : Holds(d, x.h)' =>
                    \/ pc'[d] \in {"wait", "destroy", "dealloc"}
                    \/ pc'[d] = "dealloc_wait" /\ got'[d] = Null
      BY <1>1, <1>4, <1>10, <2>2 DEF MsgOK, SameCaller
  <2> QED  BY <2>3, <2>4, <2>5, <2>6, <2>7, <2>8 DEF MsgOK
<1>12. \A k \in DOMAIN cmds' : ~ cmds'[k].ack /\ cmds'[k].op # "stats"
  <2>1. \A k \in DOMAIN cmds : cmds[k] \in Msgs
      BY <1>5 DEF InFlight, InRings
  <2> QED  BY <1>2, <2>1, DisownedMsg DEF IInv, MsgInv
<1>13. CurOK'
  <2> SUFFICES ASSUME cur' # Null
               PROVE  CurOK'
      BY DEF CurOK
  <2>1. CurOK
      BY DEF IInv, MsgInv
  <2>2. cur # Null /\ cur'.h = cur.h /\ cur'.m.h = cur.m.h /\ cur'.m.op = cur.m.op
      BY <1>2, <1>6
  <2>3. /\ cur' \in [m : Msgs, h : Handles \cup {Null}]
        /\ cur'.m.op \in {"alloc", "dealloc"} => cur'.h = cur'.m.h
      BY <1>2, <2>1, <2>2 DEF CurOK
  <2>4. cur.m.op \in {"create", "stats"} =>
            /\ cur.h \in Handles
            /\ hd'[cur.h].st # "new"
            /\ hd'[cur.h].file = "wifi" => hd'[cur.h].st = "live"
      BY <1>1, <2>1, <2>2 DEF CurOK
  <2>5. ASSUME cur.m.op \in {"create", "stats"}, hd'[cur.h].file = "wifi",
               NEW d \in Callers, pc'[d] \in Working, job'[d].h = cur.h
        PROVE  pc'[d] # "free" /\ (pc'[d] = "dealloc_wait" => got'[d] = Null)
    <3>1. d # c
        BY <1>3, <2>5 DEF Working
    <3>2. Holds(d, cur.h) /\ SameCaller(d)
        BY <1>10, <2>5, <3>1 DEF Holds, SameCaller
    <3> QED  BY <1>1, <2>1, <2>2, <2>5, <3>2 DEF CurOK, SameCaller
  <2> QED  BY <2>2, <2>3, <2>4, <2>5 DEF CurOK, Holds
<1>14. MsgInv'
    BY <1>11, <1>12, <1>13 DEF MsgInv
<1> QED  BY <1>2, <1>7, <1>8, <1>9, <1>14 DEF IInv

\* A process that has not to do with messages does not disturb them.
LEMMA QuietStep ==
    ASSUME IInv, NEW c \in Callers, OnlyCaller(c), UNCHANGED nss,
           pc[c] \notin {"alloc_wait", "dealloc_wait"},
           pc'[c] \notin {"dealloc_wait", "free"},
           \A m \in InFlight : m.h # Null => hd'[m.h] = hd[m.h],
           \A m \in InFlight : m.h # Null /\ Holds(c, m.h)' =>
                Holds(c, m.h) /\ pc'[c] = "dealloc",
           cur # Null /\ cur.m.op \in {"create", "stats"} =>
                /\ hd'[cur.h].file = hd[cur.h].file /\ hd'[cur.h].st # "new"
                /\ hd[cur.h].file = "wifi" => hd'[cur.h].st = hd[cur.h].st
    PROVE  MsgInv' /\ PairInv' /\ InFlight' = InFlight
<1> USE DEF nss
<1>1. PairInv' /\ InFlight' = InFlight
    BY KeepPairs DEF IInv
<1>2. \A m \in InFlight : MsgOK(m) /\ m \in Msgs
    BY FlightTypes DEF IInv, MsgInv
<1>3. \A m \in InFlight : m.h = Null => m.from # c
    BY <1>2, NullAssumption DEF MsgOK
<1>4. \A m \in InFlight : m.h # Null /\ m.op \in {"alloc", "dealloc"} => ~ Holds(c, m.h)'
    BY <1>2 DEF MsgOK
<1>5. \A k \in DOMAIN cmds' : ~ cmds'[k].ack /\ cmds'[k].op # "stats"
    BY DEF IInv, MsgInv
<1> QED  BY <1>1, <1>3, <1>4, <1>5, MsgStep DEF IInv

\* What the poll works on is not new, and what a message carries is live.
LEMMA Carried ==
    ASSUME IInv
    PROVE  /\ \A m \in InFlight : m.h # Null =>
                /\ m.h \in Handles /\ hd[m.h].st = "live" /\ hd[m.h].owner = Null
                /\ \A c \in Callers : Holds(c, m.h) =>
                        pc[c] \in {"wait", "destroy", "dealloc", "dealloc_wait"}
           /\ cur # Null /\ cur.m.op \in {"create", "stats"} =>
                cur.h \in Handles /\ hd[cur.h].st # "new"
<1>1. \A m \in InFlight : MsgOK(m) /\ m \in Msgs
    BY FlightTypes DEF IInv, MsgInv
<1>2. \A m \in InFlight : m.h # Null =>
            /\ m.h \in Handles /\ hd[m.h].st = "live" /\ hd[m.h].owner = Null
            /\ \A c \in Callers : Holds(c, m.h) =>
                    pc[c] \in {"wait", "destroy", "dealloc", "dealloc_wait"}
    BY <1>1 DEF MsgOK, Msgs
<1>3. cur # Null /\ cur.m.op \in {"create", "stats"} =>
            cur.h \in Handles /\ hd[cur.h].st # "new"
    BY DEF IInv, MsgInv, CurOK
<1> QED  BY <1>2, <1>3

\* What the poll has entered is a message's that has its number.
LEMMA Entering ==
    ASSUME IInv, Halfway
    PROVE  /\ cur.m \in InFlight /\ cur.m \in Msgs /\ cur.h = cur.m.h /\ cur.h \in Handles
           /\ Claims(cur.m) /\ Touches(cur.m) /\ cur.m.i \in IfNums
           /\ hd[cur.h].i = cur.m.i /\ hd[cur.h].file = "virt_if"
           /\ hd[cur.h].st = "live" /\ hd[cur.h].owner = Null
           /\ \A c \in Callers : ~ Holds(c, cur.h)
           /\ Kept(cur.h)
<1>1. cur # Null /\ cur.m.op = "alloc" /\ cur.h \in Handles /\ hd[cur.h].i # Null
    BY DEF Halfway
<1>2. cur.m \in InFlight /\ cur.m \in Msgs /\ MsgOK(cur.m)
    BY <1>1, FlightTypes DEF IInv, MsgInv, InFlight
<1>3. cur.h = cur.m.h /\ cur.m.h # Null
    BY <1>1, NullAssumption DEF IInv, MsgInv, CurOK
<1>4. /\ hd[cur.h].i = cur.m.i /\ hd[cur.h].file = "virt_if"
      /\ hd[cur.h].st = "live" /\ hd[cur.h].owner = Null
      /\ \A c \in Callers : ~ Holds(c, cur.h)
    BY <1>1, <1>2, <1>3 DEF MsgOK, NumberOK
<1>5. cur.m.i \in IfNums /\ cur.m.ack
    BY <1>1, <1>2, <1>4 DEF Msgs, MsgOK
<1>6. Claims(cur.m) /\ Touches(cur.m)
    BY <1>1, <1>5 DEF Claims, Touches
<1>7. Kept(cur.h)
    BY DEF IInv, TableInv
<1> QED  BY <1>1, <1>2, <1>3, <1>4, <1>5, <1>6, <1>7

LEMMA RegisterInv ==
    ASSUME IInv, NEW c \in Callers, Register(c)
    PROVE  IInv'
<1> DEFINE i == job[c].i
           s == IF Refused(i) THEN "destroy" ELSE "create"
<1>1. /\ pc[c] = "register" /\ pc' = [pc EXCEPT ![c] = s]
      /\ handlers' = IF Refused(i) THEN handlers ELSE [handlers EXCEPT ![i] = job[c].file]
      /\ UNCHANGED << used, evicted, hd, table, ndev, refs, job, got, nss >>
    BY DEF Register
<1>2. /\ i \in IfNums /\ job[c].h \in Handles /\ ~ job[c].user /\ job[c] \in Jobs
      /\ got[c] = Null
    BY <1>1, CallerFacts DEF JobOK, Having, Working
<1>3. /\ pc'[c] = s /\ got'[c] = Null /\ job'[c] = job[c] /\ OnlyCaller(c)
      /\ pc' \in [Callers -> Places] /\ job' \in [Callers -> Jobs]
  <2>1. s \in Places
      BY DEF Places, Working
  <2> QED  BY <1>1, <1>2, <2>1, CallerFacts DEF OnlyCaller, SameCaller
<1>4. handlers \in [IfNums -> Files \cup {Null}]
    BY DEF IInv, TypeOK
<1>5. TypeOK'
  <2>1. handlers' \in [IfNums -> Files \cup {Null}]
      BY <1>1, <1>2, <1>4 DEF Jobs
  <2> QED  BY <1>1, <1>3, <2>1 DEF IInv, TypeOK, Places, Working, Having, nss
<1>6. JobInv'
  <2>1. JobOK(c)'
      BY <1>2, <1>3 DEF JobOK, Working, Having
  <2> QED  BY <1>3, <2>1, JobStep DEF IInv
<1>7. /\ \A h : Holds(c, h)' => Holds(c, h)
      /\ \A k : Has(c, k)' => Has(c, k)
    BY <1>1, <1>3 DEF Holds, Has, Working, Having
<1>8. HandleInv'
    BY <1>1, <1>3, <1>7, HandleStep DEF IInv
<1>9. MsgInv' /\ PairInv' /\ InFlight' = InFlight
  <2>1. \A m \in InFlight : m.h # Null => ~ Holds(c, m.h)'
      BY <1>1, <1>7, Carried
  <2> QED  BY <1>1, <1>3, <2>1, Carried, QuietStep
<1>10. NumInv'
    BY <1>1, <1>3, <1>7, <1>9, NumStep DEF IInv, Owned, nss
<1>11. DevInv'
    BY <1>1, <1>3, DevStep, NullAssumption DEF IInv, TypeOK, Owned
<1>12. TableInv'
  <2>1. Enters(c)'
      BY <1>1, <1>3 DEF IInv, TableInv, Enters
  <2> QED  BY <1>1, <1>3, <2>1, TableStep DEF IInv, nss, Owned
<1>13. RegInv'
  <2>1. CASE Refused(i)
    <3>1. ~ Registered(c)'
        BY <1>2, <1>3, <2>1 DEF Registered
    <3> QED  BY <1>1, <1>3, <2>1, <3>1, RegStep DEF IInv, Owned
  <2>2. CASE ~ Refused(i)
    <3>1. /\ handlers' = [handlers EXCEPT ![i] = job[c].file] /\ handlers[i] = Null
          /\ pc'[c] = "create"
        BY <1>1, <1>3, <2>2 DEF Refused
    <3>2. /\ \A d \in Callers : Registered(d) => job[d].i # i
          /\ \A h \in Handles : Owned(h) => hd[h].i # i
      <4>1. \A d \in Callers : job[d].file \in Files /\ job[d].file # Null
          BY NullAssumption DEF IInv, JobInv, Jobs
      <4>2. \A h \in Handles : hd[h].file \in Files /\ hd[h].file # Null
          BY NullAssumption DEF IInv, TypeOK
      <4> QED  BY <3>1, <4>1, <4>2 DEF IInv, RegInv
    <3>3. \A d \in Callers \ {c} : (Registered(d)' <=> Registered(d)) /\ job'[d] = job[d]
        BY <1>3, SameFacts DEF OnlyCaller, SameCaller
    <3>4. \A h \in Handles : (Owned(h)' <=> Owned(h)) /\ hd'[h] = hd[h]
        BY <1>1 DEF Owned
    <3>5. /\ handlers'[i] = job[c].file
          /\ \A k : k # i => handlers'[k] = handlers[k]
        BY <1>2, <1>4, <3>1
    <3>6. ASSUME NEW d \in Callers, Registered(d)'
          PROVE  /\ handlers'[job'[d].i] = job'[d].file
                 /\ \A e \in Callers : Registered(e)' /\ job'[e].i = job'[d].i => d = e
                 /\ \A h \in Handles : Owned(h)' => hd'[h].i # job'[d].i
      <4>1. CASE d = c
          BY <1>3, <3>2, <3>3, <3>4, <3>5, <4>1
      <4>2. CASE d # c
          BY <1>3, <3>2, <3>3, <3>4, <3>5, <3>6, <4>2 DEF IInv, RegInv
      <4> QED  BY <4>1, <4>2
    <3>7. \A h \in Handles : Owned(h)' => handlers'[hd'[h].i] = hd'[h].file
        BY <3>2, <3>4, <3>5 DEF IInv, RegInv
    <3> QED  BY <3>6, <3>7 DEF RegInv
  <2> QED  BY <2>1, <2>2
<1> QED  BY <1>5, <1>6, <1>8, <1>9, <1>10, <1>11, <1>12, <1>13 DEF IInv

LEMMA NewHandleInv ==
    ASSUME IInv, NEW c \in Callers, NEW h \in Handles, NewHandle(c, h)
    PROVE  IInv'
<1>1. PICK j \in Jobs :
        /\ j = job[c]
        /\ j.i \in IfNums /\ j.file \in Files /\ ~ j.user
  <2>1. pc[c] = "handle"
      BY DEF NewHandle, GoTo
  <2> QED  BY <2>1, CallerFacts DEF JobOK, Having, Jobs
<1>2. /\ pc[c] = "handle" /\ pc' = [pc EXCEPT ![c] = "register"] /\ hd[h].st = "new"
      /\ hd' = [hd EXCEPT ![h] = [st |-> "live", file |-> j.file, i |-> j.i,
                                  owner |-> Null, done |-> "no"]]
      /\ table' = [table EXCEPT ![j.file][j.i] = h]
      /\ job' = [job EXCEPT ![c].h = h]
      /\ UNCHANGED << used, evicted, handlers, ndev, refs, got, nss >>
    BY <1>1 DEF NewHandle, GoTo
<1>3. /\ pc'[c] = "register" /\ got'[c] = Null /\ OnlyCaller(c)
      /\ pc' \in [Callers -> Places] /\ job' \in [Callers -> Jobs]
      /\ job'[c].h = h /\ job'[c].i = j.i /\ job'[c].file = j.file /\ ~ job'[c].user
  <2>1. "register" \in Places /\ [j EXCEPT !.h = h] \in Jobs
      BY DEF Places, Working, Jobs
  <2>2. job' = [job EXCEPT ![c] = [j EXCEPT !.h = h]]
      BY <1>1, <1>2
  <2> QED  BY <1>1, <1>2, <2>1, <2>2, CallerFacts DEF OnlyCaller, SameCaller, Jobs
<1>4. /\ DOMAIN hd = Handles /\ DOMAIN hd' = Handles
      /\ hd'[h] = [st |-> "live", file |-> j.file, i |-> j.i, owner |-> Null, done |-> "no"]
      /\ \A k \in Handles \ {h} : hd'[k] = hd[k]
    BY <1>2 DEF IInv, TypeOK
<1>5. /\ table \in [Files -> [IfNums -> Handles \cup {Null}]]
      /\ table'[j.file][j.i] = h
      /\ \A f \in Files, i \in IfNums : f # j.file \/ i # j.i => table'[f][i] = table[f][i]
    BY <1>1, <1>2 DEF IInv, TypeOK
<1>6. TypeOK'
  <2>1. hd' \in [Handles -> [st : {"new", "live", "freed"}, file : Files,
                             i : IfNums \cup {Null}, owner : Callers \cup {Null},
                             done : {"no", "ACK", "NACK"}]]
      BY <1>1, <1>2 DEF IInv, TypeOK
  <2>2. table' \in [Files -> [IfNums -> Handles \cup {Null}]]
      BY <1>1, <1>2, <1>5
  <2> QED  BY <1>2, <1>3, <2>1, <2>2 DEF IInv, TypeOK, Places, Working, Having, nss
<1>7. JobInv'
  <2>1. JobOK(c)'
      BY <1>1, <1>3 DEF JobOK, Working, Having
  <2> QED  BY <1>3, <2>1, JobStep DEF IInv
<1>8. /\ \A d \in Callers, k \in Handles : Holds(d, k) => k # h
      /\ \A k \in Handles : Owned(k) => k # h
      /\ ~ Owned(h)' /\ \A k \in Handles : Owned(k)' => Owned(k) /\ hd'[k] = hd[k]
      /\ hd[h].owner = Null
  <2>1. \A d \in Callers, k \in Handles : Holds(d, k) => k # h
      BY <1>2 DEF IInv, HandleInv
  <2>2. \A k \in Handles : Owned(k) => k # h
      BY <1>2 DEF IInv, HandleInv
  <2>3. ~ Owned(h)' /\ \A k \in Handles : Owned(k)' => Owned(k) /\ hd'[k] = hd[k]
      BY <1>4 DEF Owned
  <2>4. hd[h].owner = Null
      BY <2>2 DEF Owned
  <2> QED  BY <2>1, <2>2, <2>3, <2>4
<1>9. /\ \A d \in Callers \ {c} : SameCaller(d) /\ \A k : Holds(d, k)' <=> Holds(d, k)
      /\ \A k : Holds(c, k)' <=> k = h
      /\ \A i : Has(c, i)' => Has(c, i)
      /\ Has(c, j.i)
      /\ ~ Registered(c)'
  <2>1. \A d \in Callers \ {c} : SameCaller(d) /\ \A k : Holds(d, k)' <=> Holds(d, k)
      BY <1>3, SameFacts DEF OnlyCaller
  <2>2. \A k : Holds(c, k)' <=> k = h
      BY <1>3 DEF Holds, Working
  <2>3. (\A i : Has(c, i)' => Has(c, i)) /\ Has(c, j.i)
      BY <1>1, <1>2, <1>3 DEF Has, Having
  <2>4. ~ Registered(c)'
      BY <1>3 DEF Registered
  <2> QED  BY <2>1, <2>2, <2>3, <2>4
<1>10. HandleInv'
  <2>1. ASSUME NEW d \in Callers, NEW k \in Handles, Holds(d, k)'
        PROVE  /\ hd'[k].st = "live" /\ hd'[k].owner = Null
               /\ hd'[k].i = job'[d].i /\ hd'[k].file = job'[d].file
               /\ pc'[d] \in {"register", "create"} => hd'[k].done = "no"
    <3>1. CASE d = c
        BY <1>3, <1>4, <1>9, <2>1, <3>1
    <3>2. CASE d # c
      <4>1. Holds(d, k) /\ k # h /\ SameCaller(d)
          BY <1>8, <1>9, <2>1, <3>2
      <4> QED  BY <1>4, <4>1 DEF IInv, HandleInv, SameCaller
    <3> QED  BY <3>1, <3>2
  <2>2. \A d, e \in Callers, k \in Handles : Holds(d, k)' /\ Holds(e, k)' => d = e
      BY <1>8, <1>9 DEF IInv, HandleInv
  <2>3. \A k \in Handles : hd'[k].st = "new" =>
            /\ hd'[k].file = "virt_if" /\ hd'[k].i = Null
            /\ hd'[k].owner = Null /\ hd'[k].done = "no"
      BY <1>4 DEF IInv, HandleInv
  <2>4. \A k \in Handles : Owned(k)' => hd'[k].st = "live" /\ hd'[k].i \in IfNums
      BY <1>8 DEF IInv, HandleInv
  <2> QED  BY <2>1, <2>2, <2>3, <2>4 DEF HandleInv
<1>11. MsgInv' /\ PairInv' /\ InFlight' = InFlight
  <2>1. \A m \in InFlight : m.h # Null => m.h \in Handles /\ m.h # h
      BY <1>2, Carried
  <2>2. \A m \in InFlight : m.h # Null => hd'[m.h] = hd[m.h] /\ ~ Holds(c, m.h)'
      BY <1>4, <1>9, <2>1
  <2>3. cur # Null /\ cur.m.op \in {"create", "stats"} =>
            /\ hd'[cur.h].file = hd[cur.h].file /\ hd'[cur.h].st # "new"
            /\ hd[cur.h].file = "wifi" => hd'[cur.h].st = hd[cur.h].st
      BY <1>2, <1>4, Carried
  <2> QED  BY <1>2, <1>3, <2>2, <2>3, QuietStep
<1>12. NumInv'
    BY <1>2, <1>3, <1>8, <1>9, <1>11, NumStep DEF IInv, nss
<1>13. RegInv'
    BY <1>2, <1>3, <1>8, <1>9, RegStep DEF IInv
<1>14. DevInv'
  <2>1. \A k \in Handles : hd'[k].owner = hd[k].owner /\ (Owned(k) => hd'[k].i = hd[k].i)
      BY <1>4, <1>8
  <2> QED  BY <1>2, <1>3, <2>1, DevStep, NullAssumption DEF IInv, TypeOK
<1>15. TableInv'
  <2>1. ASSUME NEW f \in Files, NEW i \in IfNums
        PROVE  Entered(f, i)'
    <3>1. CASE f = j.file /\ i = j.i
      <4>1. \A d \in Callers : Holds(d, h)' => pc'[d] = "register"
          BY <1>3, <1>8, <1>9
      <4> QED  BY <1>4, <1>5, <3>1, <4>1 DEF Entered
    <3>2. CASE ~ (f = j.file /\ i = j.i)
      <4>1. table'[f][i] = table[f][i] /\ table[f][i] \in Handles \cup {Null}
          BY <1>5, <3>2
      <4>2. Entered(f, i)
          BY DEF IInv, TableInv
      <4>3. SUFFICES ASSUME table[f][i] # Null
                     PROVE  Entered(f, i)'
          BY <4>1 DEF Entered
      <4>4. PICK k \in Handles : k = table[f][i] /\ k # h /\ hd'[k] = hd[k]
          BY <1>2, <1>4, <4>1, <4>2, <4>3 DEF Entered
      <4>5. hd[k].st = "live" /\ hd[k].file = f /\ hd[k].i = i
          BY <4>2, <4>3, <4>4 DEF Entered
      <4>6. ASSUME f = "wifi", NEW d \in Callers, Holds(d, k)'
            PROVE  pc'[d] \notin {"dealloc", "dealloc_wait", "free"}
        <5>1. d # c /\ Holds(d, k) /\ SameCaller(d)
            BY <1>9, <4>4, <4>6
        <5> QED  BY <4>2, <4>3, <4>4, <4>6, <5>1 DEF Entered, SameCaller
      <4> QED  BY <4>1, <4>4, <4>5, <4>6 DEF Entered
    <3> QED  BY <3>1, <3>2
  <2>2. ASSUME NEW k \in Handles, Owned(k)'
        PROVE  Kept(k)'
    <3>1. Owned(k) /\ hd'[k] = hd[k] /\ hd[k].i # j.i
        BY <1>1, <1>8, <1>9, <2>2 DEF IInv, NumInv
    <3>2. Kept(k) /\ hd[k].i \in IfNums /\ hd[k].file \in Files
        BY <3>1 DEF IInv, TableInv, HandleInv, TypeOK
    <3> QED  BY <1>2, <1>5, <3>1, <3>2 DEF Kept
  <2>3. ASSUME NEW d \in Callers
        PROVE  Enters(d)'
    <3>1. CASE d = c
        BY <1>3, <1>5, <3>1 DEF Enters
    <3>2. CASE d # c
      <4> SUFFICES ASSUME pc[d] \in {"register", "create", "wait", "ndev", "hold"}
                   PROVE  Enters(d)'
          BY <1>9, <3>2 DEF Enters, SameCaller
      <4>1. Holds(d, job[d].h) /\ Has(d, job[d].i)
          BY DEF Holds, Has, Working, Having
      <4>2. job[d].i \in IfNums /\ job[d].h \in Handles /\ job[d].file \in Files
          BY CallerFacts DEF JobOK, Having, Working, Jobs
      <4>3. job[d].i # j.i /\ job[d].h # h
        <5>1. NumInv
            BY DEF IInv
        <5> QED  BY <1>1, <1>8, <1>9, <3>2, <4>1, <4>2, <5>1 DEF NumInv
      <4>4. hd[job[d].h].i = job[d].i /\ hd[job[d].h].file = job[d].file
            /\ hd'[job[d].h] = hd[job[d].h]
          BY <1>4, <4>1, <4>2, <4>3 DEF IInv, HandleInv
      <4>5. table'[job[d].file][job[d].i] = table[job[d].file][job[d].i]
          BY <1>5, <4>2, <4>3
      <4>6. SameCaller(d)
          BY <1>9, <3>2
      <4>7. Kept(job[d].h)' <=> Kept(job[d].h)
        <5>1. hd'[job[d].h].file = job[d].file /\ hd'[job[d].h].i = job[d].i
            BY <4>4
        <5>2. job'[d] = job[d] /\ evicted' = evicted
            BY <1>2, <4>6 DEF SameCaller
        <5> QED  BY <4>4, <4>5, <5>1, <5>2 DEF Kept
      <4>8. Enters(d)
          BY DEF IInv, TableInv
      <4> QED  BY <1>2, <4>4, <4>5, <4>6, <4>7, <4>8 DEF Enters, SameCaller, nss
    <3> QED  BY <3>1, <3>2
  <2>4. ASSUME Halfway'
        PROVE  Kept(cur.h)'
    <3>1. cur' = cur /\ cur # Null /\ cur.m.op = "alloc" /\ cur.h \in Handles
        BY <1>2, <2>4 DEF Halfway, nss
    <3>2. cur.h = cur.m.h /\ cur.m \in InFlight
        BY <3>1 DEF IInv, MsgInv, CurOK, InFlight
    <3>3. cur.h # h /\ hd'[cur.h] = hd[cur.h]
        BY <1>2, <1>4, <3>1, <3>2, Carried, NullAssumption
    <3>4. Halfway
        BY <2>4, <3>1, <3>3 DEF Halfway
    <3>5. hd[cur.h].i \in IfNums /\ hd[cur.h].i # j.i /\ hd[cur.h].file \in Files
      <4>1. cur.m \in InFlight /\ Touches(cur.m) /\ hd[cur.h].i = cur.m.i
            /\ cur.m.i \in IfNums /\ hd[cur.h].file = "virt_if"
          BY <3>4, Entering
      <4> QED  BY <1>1, <1>9, <4>1 DEF IInv, NumInv, Files
    <3>6. Kept(cur.h)
        BY <3>4, Entering
    <3> QED  BY <1>2, <1>5, <3>1, <3>3, <3>5, <3>6 DEF Kept
  <2> QED  BY <2>1, <2>2, <2>3, <2>4 DEF TableInv
<1> QED  BY <1>6, <1>7, <1>10, <1>11, <1>12, <1>13, <1>14, <1>15 DEF IInv

\* A number that a process has leads to no device before that process makes it.
LEMMA NoDevice ==
    ASSUME IInv, NEW c \in Callers, NEW i \in IfNums, Has(c, i), pc[c] # "hold"
    PROVE  ndev[i] = Null
<1> SUFFICES ASSUME ndev[i] # Null
             PROVE  FALSE
    OBVIOUS
<1>1. PICK e \in Callers : e = ndev[i]
    BY DEF IInv, TypeOK
<1>2. CASE \E h \in Handles : hd[h].owner = e /\ hd[h].i = i
    BY <1>2, NullAssumption DEF IInv, NumInv, Owned
<1>3. CASE pc[e] = "hold" /\ job[e].i = i
  <2>1. Has(e, i)
      BY <1>3 DEF Has, Having
  <2> QED  BY <1>3, <2>1 DEF IInv, NumInv
<1> QED  BY <1>1, <1>2, <1>3 DEF IInv, DevInv

LEMMA SetNdevInv ==
    ASSUME IInv, NEW c \in Callers, SetNdev(c)
    PROVE  IInv'
<1>1. PICK i \in IfNums : i = job[c].i
  <2>1. pc[c] = "ndev"
      BY DEF SetNdev, GoTo
  <2> QED  BY <2>1, CallerFacts DEF JobOK, Having
<1>2. /\ pc[c] = "ndev" /\ pc' = [pc EXCEPT ![c] = "hold"]
      /\ ndev' = [ndev EXCEPT ![i] = IF @ = Null THEN c ELSE @]
      /\ UNCHANGED << used, evicted, hd, table, handlers, refs, job, got, nss >>
    BY <1>1 DEF SetNdev, GoTo
<1>3. /\ pc'[c] = "hold" /\ got'[c] = Null /\ job'[c] = job[c] /\ OnlyCaller(c)
      /\ pc' \in [Callers -> Places] /\ job' \in [Callers -> Jobs] /\ JobOK(c)
    BY <1>2, CallerFacts DEF OnlyCaller, SameCaller, Places, Working
<1>4. /\ \A h : Holds(c, h)' => Holds(c, h)
      /\ \A k : Has(c, k)' => Has(c, k)
      /\ Registered(c)' => Registered(c)
      /\ Has(c, i) /\ Holds(c, job[c].h)
    BY <1>1, <1>2, <1>3 DEF Holds, Has, Registered, Working, Having
<1>5. ndev \in [IfNums -> Callers \cup {Null}] /\ ndev[i] = Null
    BY <1>2, <1>4, NoDevice DEF IInv, TypeOK
<1>6. /\ ndev' \in [IfNums -> Callers \cup {Null}]
      /\ ndev'[i] = c /\ \A k \in IfNums \ {i} : ndev'[k] = ndev[k]
    BY <1>2, <1>5
<1>7. TypeOK'
    BY <1>2, <1>3, <1>6 DEF IInv, TypeOK, Places, Working, Having, nss
<1>8. JobInv'
  <2>1. JobOK(c)'
      BY <1>2, <1>3 DEF JobOK, Working, Having
  <2> QED  BY <1>3, <2>1, JobStep DEF IInv
<1>9. HandleInv'
    BY <1>2, <1>3, <1>4, HandleStep DEF IInv
<1>10. MsgInv' /\ PairInv' /\ InFlight' = InFlight
  <2>1. \A m \in InFlight : m.h # Null => ~ Holds(c, m.h)'
      BY <1>2, <1>4, Carried
  <2> QED  BY <1>2, <1>3, <2>1, Carried, QuietStep
<1>11. NumInv'
    BY <1>2, <1>3, <1>4, <1>10, NumStep DEF IInv, Owned, nss
<1>12. RegInv'
    BY <1>2, <1>3, <1>4, RegStep DEF IInv, Owned
<1>13. TableInv'
  <2>1. Enters(c)'
    <3>1. Enters(c)
        BY DEF IInv, TableInv
    <3> QED  BY <1>2, <1>3, <3>1 DEF Enters, Kept
  <2> QED  BY <1>2, <1>3, <2>1, TableStep DEF IInv, nss, Owned
<1>14. DevInv'
  <2>1. ASSUME NEW k \in IfNums, ndev'[k] # Null
        PROVE  \/ \E h \in Handles : hd'[h].owner = ndev'[k] /\ hd'[h].i = k
               \/ pc'[ndev'[k]] = "hold" /\ job'[ndev'[k]].i = k
    <3>1. CASE k = i
        BY <1>1, <1>3, <1>6, <3>1
    <3>2. CASE k # i
      <4>1. PICK e \in Callers : e = ndev[k] /\ e = ndev'[k]
          BY <1>5, <1>6, <2>1, <3>2
      <4>2. \/ \E h \in Handles : hd[h].owner = e /\ hd[h].i = k
            \/ pc[e] = "hold" /\ job[e].i = k
          BY <2>1, <4>1, NullAssumption DEF IInv, DevInv
      <4>3. pc[e] = "hold" => pc'[e] = "hold" /\ job'[e] = job[e]
          BY <1>2, <1>3 DEF OnlyCaller, SameCaller
      <4> QED  BY <1>2, <4>1, <4>2, <4>3
    <3> QED  BY <3>1, <3>2
  <2>2. \A d \in Callers : pc'[d] = "put" <=> pc[d] = "put"
      BY <1>2, <1>3 DEF OnlyCaller, SameCaller
  <2>3. \A e \in Callers : {d \in Callers : pc'[d] = "put" /\ job'[d].dev = e}
                            = {d \in Callers : pc[d] = "put" /\ job[d].dev = e}
      BY <1>2, <2>2
  <2>4. \A e \in Callers :
            refs'[e] = Cardinality({h \in Handles : hd'[h].owner = e})
                + Cardinality({d \in Callers : pc'[d] = "put" /\ job'[d].dev = e})
      BY <1>2, <2>3 DEF IInv, DevInv
  <2> QED  BY <2>1, <2>4 DEF DevInv
<1> QED  BY <1>7, <1>8, <1>9, <1>10, <1>11, <1>12, <1>13, <1>14 DEF IInv

LEMMA SetUserNdevInv ==
    ASSUME IInv, NEW c \in Callers, NEW h \in Handles, NEW f \in Files,
           NEW d \in {c, Null}, SetUserNdev(c, h, f, d)
    PROVE  IInv'
<1>1. /\ hd[h].owner = c
      /\ UNCHANGED << used, evicted, hd, table, handlers, refs, pc, job, got, nss >>
    BY DEF SetUserNdev
<1>2. PICK i \in IfNums : i = hd[h].i
    BY <1>1, NullAssumption DEF IInv, HandleInv, Owned
<1>3. /\ ndev' = [ndev EXCEPT ![i] = d] /\ ndev \in [IfNums -> Callers \cup {Null}]
      /\ ndev' \in [IfNums -> Callers \cup {Null}]
      /\ ndev'[i] = d /\ \A k \in IfNums \ {i} : ndev'[k] = ndev[k]
    BY <1>2 DEF SetUserNdev, IInv, TypeOK
<1> USE DEF nss
<1>4. TypeOK'
    BY <1>1, <1>3 DEF IInv, TypeOK
<1>5. /\ OnlyCaller(c) /\ JobOK(c)' /\ JobOK(c) /\ job' \in [Callers -> Jobs]
      /\ \A k : Holds(c, k)' <=> Holds(c, k)
      /\ \A k : Has(c, k)' <=> Has(c, k)
      /\ Registered(c)' <=> Registered(c)
  <2>1. SameCaller(c) /\ OnlyCaller(c)
      BY <1>1 DEF OnlyCaller, SameCaller
  <2>2. JobOK(c) /\ job' \in [Callers -> Jobs]
      BY <1>1, CallerFacts
  <2> QED  BY <2>1, <2>2, SameFacts
<1>6. JobInv'
    BY <1>5, JobStep DEF IInv
<1>7. HandleInv'
    BY <1>1, <1>5, HandleStep DEF IInv
<1>8. PairInv' /\ InFlight' = InFlight
    BY <1>1, KeepPairs DEF IInv
<1>9. MsgInv'
  <2>1. ASSUME NEW m \in InFlight
        PROVE  MsgOK(m)'
    <3>1. MsgOK(m)
        BY DEF IInv, MsgInv
    <3>2. MsgOK(m)' <=> MsgOK(m)
        BY <1>1 DEF MsgOK, NumberOK, Holds
    <3> QED  BY <3>1, <3>2
  <2>2. CurOK'
    <3>1. CurOK' <=> CurOK
        BY <1>1 DEF CurOK, Holds
    <3> QED  BY <3>1 DEF IInv, MsgInv
  <2> QED  BY <1>1, <1>8, <2>1, <2>2 DEF IInv, MsgInv
<1>10. NumInv'
    BY <1>1, <1>5, <1>8, NumStep DEF IInv, Owned
<1>11. RegInv'
    BY <1>1, <1>5, RegStep DEF IInv, Owned
<1>12. TableInv'
  <2>1. TableInv' <=> TableInv
      BY <1>1 DEF TableInv, Entered, Enters, Owned, Kept, Holds, Halfway
  <2> QED  BY <2>1 DEF IInv
<1>13. DevInv'
  <2>1. ASSUME NEW k \in IfNums, ndev'[k] # Null
        PROVE  \/ \E g \in Handles : hd'[g].owner = ndev'[k] /\ hd'[g].i = k
               \/ pc'[ndev'[k]] = "hold" /\ job'[ndev'[k]].i = k
    <3>1. CASE k = i
        BY <1>1, <1>2, <1>3, <2>1, <3>1
    <3>2. CASE k # i
        BY <1>1, <1>3, <2>1, <3>2 DEF IInv, DevInv
    <3> QED  BY <3>1, <3>2
  <2>2. \A e \in Callers :
            refs'[e] = Cardinality({g \in Handles : hd'[g].owner = e})
                + Cardinality({b \in Callers : pc'[b] = "put" /\ job'[b].dev = e})
      BY <1>1 DEF IInv, DevInv
  <2> QED  BY <2>1, <2>2 DEF DevInv
<1> QED  BY <1>4, <1>6, <1>7, <1>8, <1>9, <1>10, <1>11, <1>12, <1>13 DEF IInv

LEMMA OneMore ==
    ASSUME NEW U, IsFiniteSet(U), NEW S \in SUBSET U, NEW T \in SUBSET U, NEW x \in T,
           x \notin S, T = S \cup {x}
    PROVE  /\ Cardinality(S) \in Nat /\ Cardinality(T) \in Nat
           /\ Cardinality(T) = Cardinality(S) + 1
<1>1. IsFiniteSet(S) /\ IsFiniteSet(T)
    BY FS_Subset
<1> QED  BY <1>1, FS_AddElement, FS_CardinalityType

\* The interfaces that a process uses, and the references being dropped.
Uses(e) == {h \in Handles : hd[h].owner = e}
Puts(e) == {d \in Callers : pc[d] = "put" /\ job[d].dev = e}

LEMMA Counts ==
    /\ \A e : Uses(e) \in SUBSET Handles /\ Uses(e)' \in SUBSET Handles
    /\ \A e : Puts(e) \in SUBSET Callers /\ Puts(e)' \in SUBSET Callers
    /\ \A e : Cardinality(Uses(e)) \in Nat /\ Cardinality(Puts(e)) \in Nat
    /\ \A e : Cardinality(Uses(e)') \in Nat /\ Cardinality(Puts(e)') \in Nat
<1>1. /\ \A e : Uses(e) \in SUBSET Handles /\ Uses(e)' \in SUBSET Handles
      /\ \A e : Puts(e) \in SUBSET Callers /\ Puts(e)' \in SUBSET Callers
    BY DEF Uses, Puts
<1>2. \A S \in SUBSET Handles : Cardinality(S) \in Nat
    BY FS_Subset, FS_CardinalityType, FiniteAssumption
<1>3. \A S \in SUBSET Callers : Cardinality(S) \in Nat
    BY FS_Subset, FS_CardinalityType, FiniteAssumption
<1> QED  BY <1>1, <1>2, <1>3

LEMMA DevCounts ==
    /\ DevInv => \A e \in Callers : refs[e] = Cardinality(Uses(e)) + Cardinality(Puts(e))
    /\ DevInv <=>
        /\ \A i \in IfNums : ndev[i] # Null =>
                \/ \E h \in Handles : hd[h].owner = ndev[i] /\ hd[h].i = i
                \/ pc[ndev[i]] = "hold" /\ job[ndev[i]].i = i
        /\ \A e \in Callers : refs[e] = Cardinality(Uses(e)) + Cardinality(Puts(e))
    BY DEF DevInv, Uses, Puts

LEMMA HoldInv ==
    ASSUME IInv, NEW c \in Callers, Hold(c)
    PROVE  IInv'
<1>1. PICK h \in Handles, i \in IfNums : h = job[c].h /\ i = job[c].i
  <2>1. pc[c] = "hold"
      BY DEF Hold
  <2> QED  BY <2>1, CallerFacts DEF JobOK, Having, Working
<1>2. /\ pc[c] = "hold" /\ pc' = [pc EXCEPT ![c] = "idle"]
      /\ job' = [job EXCEPT ![c] = NoJob]
      /\ refs' = [refs EXCEPT ![c] = @ + 1] /\ hd' = [hd EXCEPT ![h].owner = c]
      /\ UNCHANGED << used, evicted, table, handlers, ndev, got, nss >>
    BY <1>1 DEF Hold, Leave
<1>3. /\ pc'[c] = "idle" /\ got'[c] = Null /\ OnlyCaller(c)
      /\ pc' \in [Callers -> Places] /\ job' \in [Callers -> Jobs]
  <2>1. "idle" \in Places /\ NoJob \in Jobs
      BY NoJobType DEF Places
  <2> QED  BY <1>2, <2>1, CallerFacts DEF OnlyCaller, SameCaller
<1>4. /\ \A k : ~ Holds(c, k)' /\ ~ Has(c, k)'
      /\ ~ Registered(c)' /\ JobOK(c)' /\ Enters(c)'
    BY <1>3, Gone
<1>5. \A d \in Callers \ {c} : /\ SameCaller(d) /\ (Registered(d)' <=> Registered(d))
                               /\ \A k : Holds(d, k)' <=> Holds(d, k)
                               /\ \A k : Has(d, k)' <=> Has(d, k)
    BY <1>3, SameFacts DEF OnlyCaller
<1>6. Holds(c, h) /\ Has(c, i) /\ Registered(c)
    BY <1>1, <1>2 DEF Holds, Has, Registered, Working, Having
<1>7. /\ hd[h].st = "live" /\ hd[h].i = i /\ hd[h].file = job[c].file
      /\ hd[h].owner = Null
    BY <1>1, <1>6 DEF IInv, HandleInv
<1>8. /\ hd'[h] = [hd[h] EXCEPT !.owner = c]
      /\ \A k \in Handles \ {h} : hd'[k] = hd[k]
      /\ hd' \in [Handles -> [st : {"new", "live", "freed"}, file : Files,
                              i : IfNums \cup {Null}, owner : Callers \cup {Null},
                              done : {"no", "ACK", "NACK"}]]
  <2>1. hd \in [Handles -> [st : {"new", "live", "freed"}, file : Files,
                          i : IfNums \cup {Null}, owner : Callers \cup {Null},
                          done : {"no", "ACK", "NACK"}]]
      BY DEF IInv, TypeOK
  <2>2. h \in Handles /\ hd' = [hd EXCEPT ![h].owner = c] /\ c \in Callers
      BY <1>2
  <2> QED  BY <2>1, <2>2
<1>9. /\ \A k \in Handles :
                /\ hd'[k].st = hd[k].st /\ hd'[k].file = hd[k].file
                /\ hd'[k].i = hd[k].i /\ hd'[k].done = hd[k].done
      /\ \A k \in Handles : Owned(k)' <=> Owned(k) \/ k = h
      /\ hd'[h].owner = c
  <2>1. /\ hd'[h].st = hd[h].st /\ hd'[h].file = hd[h].file
        /\ hd'[h].i = hd[h].i /\ hd'[h].done = hd[h].done /\ hd'[h].owner = c
      BY <1>8 DEF IInv, TypeOK
  <2> QED  BY <1>8, <2>1, NullAssumption DEF Owned
<1>10. TypeOK'
  <2>1. refs' \in [Callers -> Nat]
      BY <1>2 DEF IInv, TypeOK
  <2> QED  BY <1>2, <1>3, <1>8, <2>1 DEF IInv, TypeOK, Places, Working, Having, nss
<1>11. JobInv'
    BY <1>3, <1>4, JobStep DEF IInv
<1>12. HandleInv'
  <2>1. ASSUME NEW d \in Callers, NEW k \in Handles, Holds(d, k)'
        PROVE  /\ hd'[k].st = "live" /\ hd'[k].owner = Null
               /\ hd'[k].i = job'[d].i /\ hd'[k].file = job'[d].file
               /\ pc'[d] \in {"register", "create"} => hd'[k].done = "no"
    <3>1. d # c /\ Holds(d, k) /\ SameCaller(d)
        BY <1>4, <1>5, <2>1
    <3>2. k # h
        BY <1>6, <3>1 DEF IInv, HandleInv
    <3> QED  BY <1>8, <3>1, <3>2 DEF IInv, HandleInv, SameCaller
  <2>2. \A d, e \in Callers, k \in Handles : Holds(d, k)' /\ Holds(e, k)' => d = e
      BY <1>4, <1>5 DEF IInv, HandleInv
  <2>3. \A k \in Handles : hd'[k].st = "new" =>
            /\ hd'[k].file = "virt_if" /\ hd'[k].i = Null
            /\ hd'[k].owner = Null /\ hd'[k].done = "no"
      BY <1>7, <1>8, <1>9 DEF IInv, HandleInv
  <2>4. \A k \in Handles : Owned(k)' => hd'[k].st = "live" /\ hd'[k].i \in IfNums
      BY <1>7, <1>9 DEF IInv, HandleInv
  <2> QED  BY <2>1, <2>2, <2>3, <2>4 DEF HandleInv
<1>13. MsgInv' /\ PairInv' /\ InFlight' = InFlight
  <2>1. \A m \in InFlight : m.h # Null => m.h \in Handles /\ m.h # h
      BY <1>2, <1>6, Carried
  <2>2. \A m \in InFlight : m.h # Null => hd'[m.h] = hd[m.h] /\ ~ Holds(c, m.h)'
      BY <1>4, <1>8, <2>1
  <2>3. cur # Null /\ cur.m.op \in {"create", "stats"} =>
            /\ hd'[cur.h].file = hd[cur.h].file /\ hd'[cur.h].st # "new"
            /\ hd[cur.h].file = "wifi" => hd'[cur.h].st = hd[cur.h].st
      BY <1>9, Carried
  <2> QED  BY <1>2, <1>3, <2>2, <2>3, QuietStep
<1>14. NumInv'
  <2>1. ASSUME NEW k \in IfNums, NEW d \in Callers, Has(d, k)'
        PROVE  /\ k \in node'
               /\ \A e \in Callers : Has(e, k)' => d = e
               /\ \A g \in Handles : Owned(g)' => hd'[g].i # k
               /\ \A m \in InFlight' : Touches(m) => m.i # k
    <3>1. d # c /\ Has(d, k)
        BY <1>4, <1>5, <2>1
    <3>2. k # i
        BY <1>6, <3>1 DEF IInv, NumInv
    <3>3. \A e \in Callers : Has(e, k)' => Has(e, k)
        BY <1>4, <1>5
    <3> QED  BY <1>2, <1>7, <1>9, <1>13, <3>1, <3>2, <3>3 DEF IInv, NumInv, nss
  <2>2. ASSUME NEW g \in Handles, Owned(g)'
        PROVE  /\ hd'[g].i \in node'
               /\ \A k \in Handles : Owned(k)' /\ hd'[k].i = hd'[g].i => g = k
               /\ \A m \in InFlight' : Touches(m) => m.i # hd'[g].i
      BY <1>2, <1>6, <1>7, <1>9, <1>13, <2>2 DEF IInv, NumInv, nss
  <2>3. \A m \in InFlight' : Claims(m) => m.i \in node'
      BY <1>2, <1>13 DEF IInv, NumInv, nss
  <2> QED  BY <2>1, <2>2, <2>3 DEF NumInv
<1>15. RegInv'
  <2>1. ASSUME NEW d \in Callers, Registered(d)'
        PROVE  /\ handlers'[job'[d].i] = job'[d].file
               /\ \A e \in Callers : Registered(e)' /\ job'[e].i = job'[d].i => d = e
               /\ \A g \in Handles : Owned(g)' => hd'[g].i # job'[d].i
    <3>1. d # c /\ Registered(d) /\ job'[d] = job[d]
        BY <1>4, <1>5, <2>1 DEF SameCaller
    <3>2. job[d].i # i
        BY <1>1, <1>6, <3>1 DEF IInv, RegInv
    <3>3. \A e \in Callers : Registered(e)' => Registered(e) /\ job'[e] = job[e]
        BY <1>4, <1>5 DEF SameCaller
    <3> QED  BY <1>2, <1>7, <1>9, <3>1, <3>2, <3>3 DEF IInv, RegInv
  <2>2. \A g \in Handles : Owned(g)' => handlers'[hd'[g].i] = hd'[g].file
      BY <1>1, <1>2, <1>6, <1>7, <1>9 DEF IInv, RegInv
  <2> QED  BY <2>1, <2>2 DEF RegInv
<1>16. TableInv'
  <2>1. Kept(h)
      BY <1>1, <1>2 DEF IInv, TableInv, Enters
  <2> QED  BY <1>2, <1>3, <1>4, <1>9, <2>1, TableStep DEF IInv, nss
<1>17. DevInv'
  <2>1. ASSUME NEW k \in IfNums, ndev'[k] # Null
        PROVE  \/ \E g \in Handles : hd'[g].owner = ndev'[k] /\ hd'[g].i = k
               \/ pc'[ndev'[k]] = "hold" /\ job'[ndev'[k]].i = k
    <3>1. PICK e \in Callers : e = ndev[k] /\ e = ndev'[k]
        BY <1>2, <2>1 DEF IInv, TypeOK
    <3>2. CASE \E g \in Handles : hd[g].owner = e /\ hd[g].i = k
      <4>1. PICK g \in Handles : hd[g].owner = e /\ hd[g].i = k
          BY <3>2
      <4>2. g # h
          BY <1>7, <4>1, NullAssumption
      <4> QED  BY <1>8, <3>1, <4>1, <4>2
    <3>3. CASE pc[e] = "hold" /\ job[e].i = k
      <4>1. CASE e = c
          BY <1>1, <1>7, <1>9, <3>1, <3>3, <4>1
      <4>2. CASE e # c
          BY <1>5, <3>1, <3>3, <4>2 DEF SameCaller
      <4> QED  BY <4>1, <4>2
    <3> QED  BY <1>2, <2>1, <3>1, <3>2, <3>3 DEF IInv, DevInv
  <2>2. \A e \in Callers : Puts(e)' = Puts(e)
    <3>1. \A d \in Callers : /\ pc'[d] = "put" <=> pc[d] = "put"
                             /\ pc[d] = "put" => job'[d] = job[d]
        BY <1>2, <1>3, <1>5 DEF SameCaller
    <3> QED  BY <3>1 DEF Puts
  <2>3. \A e \in Callers \ {c} : Uses(e)' = Uses(e)
      BY <1>7, <1>8, <1>9, NullAssumption DEF Uses
  <2>4. /\ Uses(c)' = Uses(c) \cup {h} /\ h \notin Uses(c) /\ h \in Uses(c)'
      BY <1>7, <1>8, <1>9, NullAssumption DEF Uses
  <2>5. Cardinality(Uses(c)') = Cardinality(Uses(c)) + 1
      BY <2>4, OneMore, Counts, FiniteAssumption
  <2>6. \A e \in Callers : refs[e] = Cardinality(Uses(e)) + Cardinality(Puts(e))
      BY DevCounts DEF IInv
  <2>7. ASSUME NEW e \in Callers
        PROVE  refs'[e] = Cardinality(Uses(e)') + Cardinality(Puts(e)')
    <3>1. CASE e = c
      <4>1. refs'[c] = refs[c] + 1
          BY <1>2 DEF IInv, TypeOK
      <4> QED  BY <2>2, <2>5, <2>6, <3>1, <4>1, Counts
    <3>2. CASE e # c
        BY <1>2, <2>2, <2>3, <2>6, <3>2 DEF IInv, TypeOK
    <3> QED  BY <3>1, <3>2
  <2> QED  BY <2>1, <2>7 DEF DevInv, Uses, Puts
<1> QED  BY <1>10, <1>11, <1>12, <1>13, <1>14, <1>15, <1>16, <1>17 DEF IInv

\* The device that the number of an interface leads to is its user's.
LEMMA UserDevice ==
    ASSUME IInv, NEW h \in Handles, Owned(h), ndev[hd[h].i] # Null
    PROVE  ndev[hd[h].i] = hd[h].owner
<1>1. PICK i \in IfNums : i = hd[h].i
    BY DEF IInv, HandleInv
<1>2. PICK e \in Callers : e = ndev[i]
    BY <1>1 DEF IInv, TypeOK
<1>3. CASE \E k \in Handles : hd[k].owner = e /\ hd[k].i = i
    BY <1>1, <1>2, <1>3, NullAssumption DEF IInv, NumInv, Owned
<1>4. CASE pc[e] = "hold" /\ job[e].i = i
  <2>1. Has(e, i)
      BY <1>4 DEF Has, Having
  <2> QED  BY <1>1, <2>1 DEF IInv, NumInv
<1> QED  BY <1>1, <1>2, <1>3, <1>4 DEF IInv, DevInv

LEMMA DestroyInv ==
    ASSUME IInv, NEW c \in Callers, NEW h \in Handles, NEW f \in Files,
           NEW next \in {"destroy", "async"}, next = "async" => f = "virt_if",
           Destroy(c, h, f, next)
    PROVE  IInv'
<1>1. hd[h].owner = c /\ hd[h].file = f /\ Owned(h)
    BY NullAssumption DEF Destroy, Owned
<1>2. PICK i \in IfNums : i = hd[h].i
    BY <1>1 DEF IInv, HandleInv
<1>3. ndev[i] = c
    BY <1>1, <1>2, UserDevice DEF Destroy
<1>4. PICK j \in Jobs : /\ j = [file |-> f, h |-> h, i |-> i, next |-> next,
                                user |-> TRUE, dev |-> c]
                        /\ j.file = f /\ j.h = h /\ j.i = i /\ j.next = next
                        /\ j.user /\ j.dev = c
  <2> DEFINE r == [file |-> f, h |-> h, i |-> i, next |-> next, user |-> TRUE, dev |-> c]
  <2>1. /\ f \in Files /\ h \in Handles \cup {Null} /\ i \in IfNums \cup {Null}
        /\ next \in {"destroy", "async"} /\ TRUE \in BOOLEAN /\ c \in Callers \cup {Null}
      OBVIOUS
  <2>2. r \in Jobs
      BY <2>1 DEF Jobs
  <2>3. /\ r.file = f /\ r.h = h /\ r.i = i /\ r.next = next
        /\ r.user = TRUE /\ r.dev = c
      OBVIOUS
  <2> QED  BY <2>2, <2>3
<1>5. /\ pc[c] = "idle" /\ pc' = [pc EXCEPT ![c] = "put"]
      /\ job' = [job EXCEPT ![c] = j]
      /\ ndev' = [ndev EXCEPT ![i] = Null] /\ hd' = [hd EXCEPT ![h].owner = Null]
      /\ UNCHANGED << used, evicted, table, handlers, refs, got, nss >>
    BY <1>2, <1>3, <1>4 DEF Destroy, GoTo, ClearNdev
<1>6. /\ pc'[c] = "put" /\ got'[c] = Null /\ OnlyCaller(c) /\ job'[c] = j
      /\ pc' \in [Callers -> Places] /\ job' \in [Callers -> Jobs]
  <2>1. "put" \in Places
      BY DEF Places, Working
  <2> QED  BY <1>5, <2>1, CallerFacts DEF OnlyCaller, SameCaller
<1>7. /\ \A k : Holds(c, k)' <=> k = h
      /\ \A k : Has(c, k)' <=> k = i
      /\ Enters(c)' /\ (Registered(c)' => f # "wifi")
  <2>1. \A k : Holds(c, k)' <=> k = h
      BY <1>4, <1>6 DEF Holds, Working
  <2>2. \A k : Has(c, k)' <=> k = i
      BY <1>4, <1>6 DEF Has, Having
  <2>3. Enters(c)' /\ (Registered(c)' => f # "wifi")
      BY <1>4, <1>6 DEF Enters, Registered
  <2> QED  BY <2>1, <2>2, <2>3
<1>8. \A d \in Callers \ {c} : /\ SameCaller(d) /\ (Registered(d)' <=> Registered(d))
                               /\ \A k : Holds(d, k)' <=> Holds(d, k)
                               /\ \A k : Has(d, k)' <=> Has(d, k)
    BY <1>6, SameFacts DEF OnlyCaller
<1>9. /\ hd[h].st = "live"
      /\ \A d \in Callers : ~ Holds(d, h)
      /\ \A d \in Callers : ~ Has(d, i)
      /\ \A m \in InFlight : Touches(m) => m.i # i
      /\ i \in node
      /\ \A k \in Handles \ {h} : Owned(k) => hd[k].i # i
  <2>1. hd[h].st = "live"
      BY <1>1 DEF IInv, HandleInv
  <2>2. \A d \in Callers : ~ Holds(d, h)
      BY <1>1 DEF IInv, HandleInv, Owned
  <2>3. \A d \in Callers : ~ Has(d, i)
      BY <1>1, <1>2 DEF IInv, NumInv
  <2>4. /\ \A m \in InFlight : Touches(m) => m.i # i
        /\ i \in node
        /\ \A k \in Handles \ {h} : Owned(k) => hd[k].i # i
      BY <1>1, <1>2 DEF IInv, NumInv
  <2> QED  BY <2>1, <2>2, <2>3, <2>4
<1>10. /\ hd'[h] = [hd[h] EXCEPT !.owner = Null]
       /\ \A k \in Handles \ {h} : hd'[k] = hd[k]
       /\ hd' \in [Handles -> [st : {"new", "live", "freed"}, file : Files,
                               i : IfNums \cup {Null}, owner : Callers \cup {Null},
                               done : {"no", "ACK", "NACK"}]]
  <2>1. hd \in [Handles -> [st : {"new", "live", "freed"}, file : Files,
                          i : IfNums \cup {Null}, owner : Callers \cup {Null},
                          done : {"no", "ACK", "NACK"}]]
      BY DEF IInv, TypeOK
  <2>2. h \in Handles /\ hd' = [hd EXCEPT ![h].owner = Null]
      BY <1>5
  <2> QED  BY <2>1, <2>2
<1>11. /\ \A k \in Handles :
                /\ hd'[k].st = hd[k].st /\ hd'[k].file = hd[k].file
                /\ hd'[k].i = hd[k].i /\ hd'[k].done = hd[k].done
       /\ \A k \in Handles : Owned(k)' <=> Owned(k) /\ k # h
       /\ hd'[h].owner = Null
  <2>1. /\ hd'[h].st = hd[h].st /\ hd'[h].file = hd[h].file
        /\ hd'[h].i = hd[h].i /\ hd'[h].done = hd[h].done /\ hd'[h].owner = Null
      BY <1>10 DEF IInv, TypeOK
  <2> QED  BY <1>10, <2>1 DEF Owned
<1>12. /\ ndev \in [IfNums -> Callers \cup {Null}]
       /\ ndev' \in [IfNums -> Callers \cup {Null}]
       /\ ndev'[i] = Null /\ \A k \in IfNums \ {i} : ndev'[k] = ndev[k]
    BY <1>5 DEF IInv, TypeOK
<1>13. TypeOK'
    BY <1>5, <1>6, <1>10, <1>12 DEF IInv, TypeOK, Places, Working, Having, nss
<1>14. JobInv'
  <2>1. JobOK(c)'
      BY <1>4, <1>6 DEF JobOK, Working, Having
  <2> QED  BY <1>6, <2>1, JobStep DEF IInv
<1>15. HandleInv'
  <2>1. ASSUME NEW d \in Callers, NEW k \in Handles, Holds(d, k)'
        PROVE  /\ hd'[k].st = "live" /\ hd'[k].owner = Null
               /\ hd'[k].i = job'[d].i /\ hd'[k].file = job'[d].file
               /\ pc'[d] \in {"register", "create"} => hd'[k].done = "no"
    <3>1. CASE d = c
        BY <1>1, <1>2, <1>4, <1>6, <1>7, <1>9, <1>11, <2>1, <3>1
    <3>2. CASE d # c
      <4>1. Holds(d, k) /\ SameCaller(d) /\ k # h
          BY <1>8, <1>9, <2>1, <3>2
      <4> QED  BY <1>10, <4>1 DEF IInv, HandleInv, SameCaller
    <3> QED  BY <3>1, <3>2
  <2>2. \A d, e \in Callers, k \in Handles : Holds(d, k)' /\ Holds(e, k)' => d = e
      BY <1>7, <1>8, <1>9 DEF IInv, HandleInv
  <2>3. \A k \in Handles : hd'[k].st = "new" =>
            /\ hd'[k].file = "virt_if" /\ hd'[k].i = Null
            /\ hd'[k].owner = Null /\ hd'[k].done = "no"
      BY <1>9, <1>10, <1>11 DEF IInv, HandleInv
  <2>4. \A k \in Handles : Owned(k)' => hd'[k].st = "live" /\ hd'[k].i \in IfNums
      BY <1>11 DEF IInv, HandleInv
  <2> QED  BY <2>1, <2>2, <2>3, <2>4 DEF HandleInv
<1>16. MsgInv' /\ PairInv' /\ InFlight' = InFlight
  <2>1. \A m \in InFlight : m.h # Null => m.h \in Handles /\ m.h # h
      BY <1>1, Carried DEF Owned
  <2>2. \A m \in InFlight : m.h # Null => hd'[m.h] = hd[m.h] /\ ~ Holds(c, m.h)'
      BY <1>7, <1>10, <2>1
  <2>3. cur # Null /\ cur.m.op \in {"create", "stats"} =>
            /\ hd'[cur.h].file = hd[cur.h].file /\ hd'[cur.h].st # "new"
            /\ hd[cur.h].file = "wifi" => hd'[cur.h].st = hd[cur.h].st
      BY <1>11, Carried
  <2> QED  BY <1>5, <1>6, <2>2, <2>3, QuietStep
<1>17. NumInv'
  <2>1. ASSUME NEW k \in IfNums, NEW d \in Callers, Has(d, k)'
        PROVE  /\ k \in node'
               /\ \A e \in Callers : Has(e, k)' => d = e
               /\ \A g \in Handles : Owned(g)' => hd'[g].i # k
               /\ \A m \in InFlight' : Touches(m) => m.i # k
    <3>1. CASE d = c
        BY <1>5, <1>7, <1>8, <1>9, <1>11, <1>16, <2>1, <3>1 DEF nss
    <3>2. CASE d # c
      <4>1. Has(d, k) /\ k # i
          BY <1>8, <1>9, <2>1, <3>2
      <4>2. \A e \in Callers : Has(e, k)' => Has(e, k)
          BY <1>7, <1>8, <4>1
      <4> QED  BY <1>5, <1>11, <1>16, <4>1, <4>2 DEF IInv, NumInv, nss
    <3> QED  BY <3>1, <3>2
  <2>2. ASSUME NEW g \in Handles, Owned(g)'
        PROVE  /\ hd'[g].i \in node'
               /\ \A k \in Handles : Owned(k)' /\ hd'[k].i = hd'[g].i => g = k
               /\ \A m \in InFlight' : Touches(m) => m.i # hd'[g].i
      BY <1>5, <1>11, <1>16, <2>2 DEF IInv, NumInv, nss
  <2>3. \A m \in InFlight' : Claims(m) => m.i \in node'
      BY <1>5, <1>16 DEF IInv, NumInv, nss
  <2> QED  BY <2>1, <2>2, <2>3 DEF NumInv
<1>18. RegInv'
  <2>1. handlers[i] = f /\ \A d \in Callers : Registered(d) => job[d].i # i
      BY <1>1, <1>2 DEF IInv, RegInv
  <2>2. ASSUME NEW d \in Callers, Registered(d)'
        PROVE  /\ handlers'[job'[d].i] = job'[d].file
               /\ \A e \in Callers : Registered(e)' /\ job'[e].i = job'[d].i => d = e
               /\ \A g \in Handles : Owned(g)' => hd'[g].i # job'[d].i
    <3>1. CASE d = c
      <4>1. \A e \in Callers : Registered(e)' /\ job'[e].i = i => c = e
          BY <1>8, <2>1 DEF SameCaller
      <4> QED  BY <1>4, <1>5, <1>6, <1>9, <1>11, <2>1, <3>1, <4>1
    <3>2. CASE d # c
      <4>1. Registered(d) /\ job'[d] = job[d] /\ job[d].i # i
          BY <1>8, <2>1, <2>2, <3>2 DEF SameCaller
      <4>2. \A e \in Callers : Registered(e)' /\ job'[e].i = job[d].i =>
                    Registered(e) /\ job'[e] = job[e]
          BY <1>4, <1>6, <1>8, <4>1 DEF SameCaller
      <4> QED  BY <1>5, <1>11, <4>1, <4>2 DEF IInv, RegInv
    <3> QED  BY <3>1, <3>2
  <2>3. \A g \in Handles : Owned(g)' => handlers'[hd'[g].i] = hd'[g].file
      BY <1>5, <1>11 DEF IInv, RegInv
  <2> QED  BY <2>2, <2>3 DEF RegInv
<1>19. TableInv'
    BY <1>5, <1>6, <1>7, <1>11, TableStep DEF IInv, nss
<1>20. DevInv'
  <2>1. ASSUME NEW k \in IfNums, ndev'[k] # Null
        PROVE  \/ \E g \in Handles : hd'[g].owner = ndev'[k] /\ hd'[g].i = k
               \/ pc'[ndev'[k]] = "hold" /\ job'[ndev'[k]].i = k
    <3>1. k # i
        BY <1>12, <2>1
    <3>2. PICK e \in Callers : e = ndev[k] /\ e = ndev'[k]
        BY <1>12, <2>1, <3>1
    <3>3. CASE \E g \in Handles : hd[g].owner = e /\ hd[g].i = k
        BY <1>2, <1>10, <3>1, <3>2, <3>3
    <3>4. CASE pc[e] = "hold" /\ job[e].i = k
        BY <1>5, <1>8, <3>2, <3>4 DEF SameCaller
    <3> QED  BY <2>1, <3>2, <3>3, <3>4, NullAssumption DEF IInv, DevInv
  <2>2. \A e \in Callers \ {c} : Puts(e)' = Puts(e) /\ Uses(e)' = Uses(e)
    <3>1. \A d \in Callers \ {c} : pc'[d] = pc[d] /\ job'[d] = job[d]
        BY <1>8 DEF SameCaller
    <3>2. \A e \in Callers \ {c} : Puts(e)' = Puts(e)
        BY <1>4, <1>5, <1>6, <3>1 DEF Puts
    <3>3. \A e \in Callers \ {c} : Uses(e)' = Uses(e)
        BY <1>1, <1>10, <1>11, NullAssumption DEF Uses
    <3> QED  BY <3>2, <3>3
  <2>3. /\ Uses(c) = Uses(c)' \cup {h} /\ h \notin Uses(c)' /\ h \in Uses(c)
      BY <1>1, <1>10, <1>11, NullAssumption DEF Uses
  <2>4. /\ Puts(c)' = Puts(c) \cup {c} /\ c \notin Puts(c) /\ c \in Puts(c)'
    <3>1. \A d \in Callers \ {c} : pc'[d] = pc[d] /\ job'[d] = job[d]
        BY <1>8 DEF SameCaller
    <3> QED  BY <1>4, <1>5, <1>6, <3>1 DEF Puts
  <2>5. Cardinality(Uses(c)) = Cardinality(Uses(c)') + 1
      BY <2>3, OneMore, Counts, FiniteAssumption
  <2>6. Cardinality(Puts(c)') = Cardinality(Puts(c)) + 1
      BY <2>4, OneMore, Counts, FiniteAssumption
  <2>7. \A e \in Callers : refs[e] = Cardinality(Uses(e)) + Cardinality(Puts(e))
      BY DevCounts DEF IInv
  <2>8. ASSUME NEW e \in Callers
        PROVE  refs'[e] = Cardinality(Uses(e)') + Cardinality(Puts(e)')
    <3>1. CASE e = c
        BY <1>5, <2>5, <2>6, <2>7, <3>1, Counts
    <3>2. CASE e # c
        BY <1>5, <2>2, <2>7, <3>2
    <3> QED  BY <3>1, <3>2
  <2> QED  BY <2>1, <2>8 DEF DevInv, Uses, Puts
<1> QED  BY <1>13, <1>14, <1>15, <1>16, <1>17, <1>18, <1>19, <1>20 DEF IInv

LEMMA PutInv ==
    ASSUME IInv, NEW c \in Callers, Put(c)
    PROVE  IInv'
<1>1. PICK s \in {"destroy", "async"}, b \in Callers : s = job[c].next /\ b = job[c].dev
  <2>1. pc[c] = "put"
      BY DEF Put, GoTo
  <2> QED  BY <2>1, CallerFacts DEF JobOK, Jobs
<1>2. /\ pc[c] = "put" /\ pc' = [pc EXCEPT ![c] = s]
      /\ refs' = [refs EXCEPT ![b] = @ - 1]
      /\ UNCHANGED << used, evicted, hd, table, handlers, ndev, job, got, nss >>
    BY <1>1 DEF Put, GoTo
<1>3. /\ job[c].user /\ JobOK(c)
      /\ s = "async" => job[c].file = "virt_if"
    BY <1>1, <1>2, CallerFacts DEF JobOK
<1>4. /\ pc'[c] = s /\ got'[c] = Null /\ job'[c] = job[c] /\ OnlyCaller(c)
      /\ pc' \in [Callers -> Places] /\ job' \in [Callers -> Jobs]
  <2>1. s \in Places
      BY <1>3 DEF Places, Working
  <2> QED  BY <1>2, <2>1, CallerFacts DEF OnlyCaller, SameCaller
<1>5. /\ \A h : Holds(c, h)' => Holds(c, h)
      /\ \A k : Has(c, k)' => Has(c, k)
      /\ Registered(c)' => Registered(c)
      /\ Enters(c)'
  <2>1. (\A h : Holds(c, h)' => Holds(c, h)) /\ (\A k : Has(c, k)' => Has(c, k))
      BY <1>2, <1>3, <1>4 DEF Holds, Has, Working, Having
  <2>2. (Registered(c)' => Registered(c)) /\ Enters(c)'
      BY <1>2, <1>3, <1>4 DEF Registered, Enters
  <2> QED  BY <2>1, <2>2
<1>6. /\ Puts(b) = Puts(b)' \cup {c} /\ c \notin Puts(b)' /\ c \in Puts(b)
      /\ \A e \in Callers \ {b} : Puts(e)' = Puts(e)
      /\ \A e \in Callers : Uses(e)' = Uses(e)
  <2>1. \A d \in Callers \ {c} : pc'[d] = pc[d] /\ job'[d] = job[d]
      BY <1>4 DEF OnlyCaller, SameCaller
  <2>2. pc'[c] # "put"
      BY <1>3, <1>4
  <2> QED  BY <1>1, <1>2, <2>1, <2>2 DEF Puts, Uses
<1>7. Cardinality(Puts(b)) = Cardinality(Puts(b)') + 1
    BY <1>6, OneMore, Counts, FiniteAssumption
<1>8. \A e \in Callers : refs[e] = Cardinality(Uses(e)) + Cardinality(Puts(e))
    BY DevCounts DEF IInv
<1>9. /\ refs'[b] = refs[b] - 1 /\ refs[b] \in Nat /\ refs[b] >= 1
      /\ \A e \in Callers \ {b} : refs'[e] = refs[e]
      /\ refs' \in [Callers -> Nat]
  <2>1. refs \in [Callers -> Nat]
      BY DEF IInv, TypeOK
  <2>2. refs[b] >= 1
      BY <1>3, <1>7, <1>8, Counts
  <2> QED  BY <1>2, <1>3, <2>1, <2>2
<1>10. TypeOK'
    BY <1>2, <1>4, <1>9 DEF IInv, TypeOK, Places, Working, Having, nss
<1>11. JobInv'
  <2>1. JobOK(c)'
      BY <1>2, <1>3, <1>4 DEF JobOK, Working, Having
  <2> QED  BY <1>4, <2>1, JobStep DEF IInv
<1>12. HandleInv'
    BY <1>2, <1>3, <1>4, <1>5, HandleStep DEF IInv
<1>13. MsgInv' /\ PairInv' /\ InFlight' = InFlight
  <2>1. \A m \in InFlight : m.h # Null => ~ Holds(c, m.h)'
      BY <1>2, <1>5, Carried
  <2>2. pc'[c] \notin {"dealloc_wait", "free"} /\ pc[c] \notin {"alloc_wait", "dealloc_wait"}
      BY <1>2, <1>3, <1>4
  <2> QED  BY <1>2, <1>4, <2>1, <2>2, Carried, QuietStep
<1>14. NumInv'
    BY <1>2, <1>4, <1>5, <1>13, NumStep DEF IInv, Owned, nss
<1>15. RegInv'
    BY <1>2, <1>4, <1>5, RegStep DEF IInv, Owned
<1>16. TableInv'
  <2>1. pc'[c] \notin {"dealloc", "dealloc_wait", "free"}
      BY <1>3, <1>4
  <2> QED  BY <1>2, <1>4, <1>5, <2>1, TableStep DEF IInv, nss, Owned
<1>17. DevInv'
  <2>1. ASSUME NEW k \in IfNums, ndev'[k] # Null
        PROVE  \/ \E g \in Handles : hd'[g].owner = ndev'[k] /\ hd'[g].i = k
               \/ pc'[ndev'[k]] = "hold" /\ job'[ndev'[k]].i = k
    <3>1. PICK e \in Callers : e = ndev[k] /\ e = ndev'[k]
        BY <1>2, <2>1 DEF IInv, TypeOK
    <3>2. \/ \E g \in Handles : hd[g].owner = e /\ hd[g].i = k
          \/ pc[e] = "hold" /\ job[e].i = k
        BY <1>2, <2>1, <3>1 DEF IInv, DevInv
    <3>3. pc[e] = "hold" => pc'[e] = "hold"
        BY <1>2, <1>4 DEF OnlyCaller, SameCaller
    <3> QED  BY <1>2, <3>1, <3>2, <3>3
  <2>2. ASSUME NEW e \in Callers
        PROVE  refs'[e] = Cardinality(Uses(e)') + Cardinality(Puts(e)')
    <3>1. Uses(e)' = Uses(e) /\ refs[e] = Cardinality(Uses(e)) + Cardinality(Puts(e))
        BY <1>6, <1>8
    <3>2. CASE e = b
      <4>1. Cardinality(Uses(b)') = Cardinality(Uses(b))
          BY <3>1, <3>2
      <4> QED  BY <1>7, <1>9, <3>1, <3>2, <4>1, Counts
    <3>3. CASE e # b
        BY <1>6, <1>9, <3>1, <3>3
    <3> QED  BY <3>2, <3>3
  <2> QED  BY <2>1, <2>2 DEF DevInv, Uses, Puts
<1> QED  BY <1>10, <1>11, <1>12, <1>13, <1>14, <1>15, <1>16, <1>17 DEF IInv

LEMMA UnregisterInv ==
    ASSUME IInv, NEW c \in Callers, Unregister(c)
    PROVE  IInv'
<1>1. PICK i \in IfNums : i = job[c].i
  <2>1. pc[c] = "unregister"
      BY DEF Unregister
  <2> QED  BY <2>1, CallerFacts DEF JobOK
<1>2. /\ pc[c] = "unregister" /\ pc' = [pc EXCEPT ![c] = "idle"]
      /\ job' = [job EXCEPT ![c] = NoJob]
      /\ handlers' = [handlers EXCEPT ![i] = Null]
      /\ UNCHANGED << used, evicted, hd, table, ndev, refs, got, nss >>
    BY <1>1 DEF Unregister, Leave
<1>3. /\ pc'[c] = "idle" /\ got'[c] = Null /\ OnlyCaller(c)
      /\ pc' \in [Callers -> Places] /\ job' \in [Callers -> Jobs]
  <2>1. "idle" \in Places /\ NoJob \in Jobs
      BY NoJobType DEF Places
  <2> QED  BY <1>2, <2>1, CallerFacts DEF OnlyCaller, SameCaller
<1>4. /\ \A k : ~ Holds(c, k)' /\ ~ Has(c, k)'
      /\ ~ Registered(c)' /\ JobOK(c)' /\ Enters(c)'
    BY <1>3, Gone
<1>5. Registered(c)
    BY <1>2 DEF Registered
<1>6. /\ handlers \in [IfNums -> Files \cup {Null}]
      /\ handlers' \in [IfNums -> Files \cup {Null}]
      /\ \A k : k # i => handlers'[k] = handlers[k]
    BY <1>2 DEF IInv, TypeOK
<1>7. TypeOK'
    BY <1>2, <1>3, <1>6 DEF IInv, TypeOK, Places, Working, Having, nss
<1>8. JobInv'
    BY <1>3, <1>4, JobStep DEF IInv
<1>9. HandleInv'
    BY <1>2, <1>3, <1>4, HandleStep DEF IInv
<1>10. MsgInv' /\ PairInv' /\ InFlight' = InFlight
    BY <1>2, <1>3, <1>4, Carried, QuietStep
<1>11. NumInv'
    BY <1>2, <1>3, <1>4, <1>10, NumStep DEF IInv, Owned, nss
<1>12. RegInv'
  <2>1. ASSUME NEW d \in Callers, Registered(d)'
        PROVE  /\ handlers'[job'[d].i] = job'[d].file
               /\ \A e \in Callers : Registered(e)' /\ job'[e].i = job'[d].i => d = e
               /\ \A g \in Handles : Owned(g)' => hd'[g].i # job'[d].i
    <3>1. \A e \in Callers : Registered(e)' => /\ e # c /\ Registered(e) /\ job'[e] = job[e]
                                               /\ job[e].i # i
        BY <1>1, <1>3, <1>4, <1>5, SameFacts DEF OnlyCaller, SameCaller, IInv, RegInv
    <3> QED  BY <1>2, <1>6, <2>1, <3>1 DEF IInv, RegInv, Owned
  <2>2. ASSUME NEW g \in Handles, Owned(g)'
        PROVE  handlers'[hd'[g].i] = hd'[g].file
    <3>1. Owned(g) /\ hd[g].i # i
        BY <1>1, <1>2, <1>5, <2>2 DEF IInv, RegInv, Owned
    <3> QED  BY <1>2, <1>6, <3>1 DEF IInv, RegInv
  <2> QED  BY <2>1, <2>2 DEF RegInv
<1>13. TableInv'
    BY <1>2, <1>3, <1>4, TableStep DEF IInv, nss, Owned
<1>14. DevInv'
    BY <1>2, <1>3, DevStep, NullAssumption DEF IInv, TypeOK, Owned
<1> QED  BY <1>7, <1>8, <1>9, <1>10, <1>11, <1>12, <1>13, <1>14 DEF IInv

\* An entry of a table is cleared: no interface in use loses it, nor does one
\* that is to be, unless it is evicted.
LEMMA ClearStep ==
    ASSUME TypeOK, JobInv, HandleInv, TableInv, NEW c \in Callers, OnlyCaller(c),
           NEW f \in Files, NEW i \in IfNums,
           \A g \in Files, n \in IfNums :
                \/ table'[g][n] = table[g][n]
                \/ g = f /\ n = i /\ table'[g][n] = Null,
           evicted \subseteq evicted',
           \A k \in Handles : Owned(k)' => Owned(k),
           \A k \in Handles :
                /\ hd'[k].file = hd[k].file /\ hd'[k].i = hd[k].i
                /\ hd'[k].done = hd[k].done,
           \A k \in Handles : Owned(k) /\ hd[k].file = f /\ hd[k].i = i
                /\ table'[f][i] = Null /\ table[f][i] = k => k \in evicted',
           \A d \in Callers \ {c} : pc[d] \in {"wait", "ndev", "hold"}
                /\ job[d].file = f /\ job[d].i = i
                /\ table'[f][i] = Null /\ table[f][i] = job[d].h => job[d].h \in evicted',
           \A k \in Handles, g \in Files, n \in IfNums :
                table'[g][n] = k /\ table[g][n] = k =>
                    /\ hd'[k].st = hd[k].st
                    /\ g = "wifi" /\ Holds(c, k)' =>
                            pc'[c] \notin {"dealloc", "dealloc_wait", "free"},
           Halfway /\ f = "virt_if" /\ hd[cur.h].i = i
                /\ table'[f][i] = Null /\ table[f][i] = cur.h => cur.h \in evicted',
           Halfway => hd[cur.h].file = "virt_if",
           pc'[c] \notin {"register", "create", "wait", "ndev", "hold"},
           cur' = cur
    PROVE  TableInv'
<1>1. \A d \in Callers \ {c} : /\ \A h : Holds(d, h)' <=> Holds(d, h)
                               /\ SameCaller(d)
    BY SameFacts DEF OnlyCaller
<1>2. \A g \in Files, n \in IfNums : table[g][n] \in Handles \cup {Null}
    BY DEF TypeOK
<1>3. ASSUME NEW g \in Files, NEW n \in IfNums
      PROVE  Entered(g, n)'
  <2> SUFFICES ASSUME table'[g][n] # Null
               PROVE  Entered(g, n)'
      BY DEF Entered
  <2>1. PICK k \in Handles : k = table[g][n] /\ k = table'[g][n] /\ k # Null
      BY <1>2
  <2>2. hd[k].st = "live" /\ hd[k].file = g /\ hd[k].i = n
      BY <2>1 DEF TableInv, Entered
  <2>3. hd'[k].st = "live" /\ hd'[k].file = g /\ hd'[k].i = n
      BY <2>1, <2>2
  <2>4. ASSUME g = "wifi", NEW d \in Callers, Holds(d, k)'
        PROVE  pc'[d] \notin {"dealloc", "dealloc_wait", "free"}
    <3>1. CASE d = c
        BY <2>1, <2>4, <3>1
    <3>2. CASE d # c
        BY <1>1, <2>1, <2>4, <3>2 DEF TableInv, Entered, SameCaller
    <3> QED  BY <3>1, <3>2
  <2> QED  BY <2>1, <2>3, <2>4 DEF Entered
<1>4. ASSUME NEW k \in Handles, Kept(k), hd[k].file \in Files, hd[k].i \in IfNums,
             hd[k].file = f /\ hd[k].i = i /\ table'[f][i] = Null /\ table[f][i] = k
                => k \in evicted'
      PROVE  Kept(k)'
    BY <1>2, <1>4 DEF Kept
<1>5. ASSUME NEW k \in Handles, Owned(k)'
      PROVE  Kept(k)'
  <2>1. Owned(k) /\ Kept(k) /\ hd[k].file \in Files /\ hd[k].i \in IfNums
      BY <1>5 DEF TableInv, HandleInv, TypeOK
  <2> QED  BY <1>4, <2>1
<1>6. ASSUME NEW d \in Callers
      PROVE  Enters(d)'
  <2>1. CASE d = c
      BY <2>1 DEF Enters
  <2>2. CASE d # c
    <3> SUFFICES ASSUME pc[d] \in {"register", "create", "wait", "ndev", "hold"}
                 PROVE  Enters(d)'
        BY <1>1, <2>2 DEF Enters, SameCaller
    <3>1. PICK h \in Handles, n \in IfNums, g \in Files :
                h = job[d].h /\ n = job[d].i /\ g = job[d].file
        BY DEF JobInv, JobOK, Working, Having, Jobs
    <3>2. SameCaller(d) /\ job'[d].h = h /\ job'[d].i = n /\ job'[d].file = g
        BY <1>1, <2>2, <3>1 DEF SameCaller
    <3>3. Holds(d, h)
        BY <3>1 DEF Holds, Working
    <3>4. hd[h].i = n /\ hd[h].file = g /\ hd'[h].done = hd[h].done
        BY <3>1, <3>3 DEF HandleInv
    <3>5. table'[g][n] \in {h, Null}
        BY <1>2, <3>1 DEF TableInv, Enters
    <3>6. pc[d] \in {"wait", "ndev", "hold"} /\ Kept(h) => Kept(h)'
        BY <1>4, <2>2, <3>1, <3>4
    <3>7. Enters(d)
        BY DEF TableInv
    <3> QED  BY <3>1, <3>2, <3>4, <3>5, <3>6, <3>7 DEF Enters, SameCaller
  <2> QED  BY <2>1, <2>2
<1>7. ASSUME Halfway'
      PROVE  Kept(cur.h)'
  <2>1. Halfway /\ cur.h \in Handles /\ hd[cur.h].i \in IfNums
      BY <1>7 DEF Halfway, TypeOK
  <2>2. Kept(cur.h) /\ hd[cur.h].file = "virt_if"
      BY <2>1 DEF TableInv
  <2>3. Kept(cur.h)'
      BY <1>4, <2>1, <2>2 DEF Files
  <2> QED  BY <2>3
<1> QED  BY <1>3, <1>5, <1>6, <1>7 DEF TableInv

LEMMA HandleDestroyInv ==
    ASSUME IInv, NEW c \in Callers, HandleDestroy(c)
    PROVE  IInv'
<1>1. PICK i \in IfNums, f \in Files, h \in Handles :
            i = job[c].i /\ f = job[c].file /\ h = job[c].h
  <2>1. pc[c] = "destroy"
      BY DEF HandleDestroy, GoTo
  <2> QED  BY <2>1, CallerFacts DEF JobOK, Having, Working, Jobs
<1>2. /\ pc[c] = "destroy" /\ pc' = [pc EXCEPT ![c] = "dealloc"]
      /\ table' = IF f = "wifi" THEN [table EXCEPT ![f][i] = Null] ELSE table
      /\ UNCHANGED << used, evicted, hd, handlers, ndev, refs, job, got, nss >>
    BY <1>1 DEF HandleDestroy, GoTo, ClearBefore
<1>3. /\ pc'[c] = "dealloc" /\ got'[c] = Null /\ job'[c] = job[c] /\ OnlyCaller(c)
      /\ pc' \in [Callers -> Places] /\ job' \in [Callers -> Jobs] /\ JobOK(c)
    BY <1>2, CallerFacts DEF OnlyCaller, SameCaller, Places, Working
<1>4. /\ \A k : Holds(c, k)' <=> Holds(c, k)
      /\ \A k : Has(c, k)' <=> Has(c, k)
      /\ Registered(c)' <=> Registered(c)
      /\ Holds(c, h) /\ Has(c, i)
    BY <1>1, <1>2, <1>3 DEF Holds, Has, Registered, Working, Having
<1>5. TypeOK'
  <2>1. table' \in [Files -> [IfNums -> Handles \cup {Null}]]
      BY <1>2 DEF IInv, TypeOK
  <2> QED  BY <1>2, <1>3, <2>1 DEF IInv, TypeOK, Places, Working, Having, nss
<1>6. JobInv'
  <2>1. JobOK(c)'
      BY <1>1, <1>2, <1>3 DEF JobOK, Working, Having
  <2> QED  BY <1>3, <2>1, JobStep DEF IInv
<1>7. HandleInv'
    BY <1>2, <1>3, <1>4, HandleStep DEF IInv
<1>8. MsgInv' /\ PairInv' /\ InFlight' = InFlight
    BY <1>2, <1>3, <1>4, Carried, QuietStep
<1>9. NumInv'
    BY <1>2, <1>3, <1>4, <1>8, NumStep DEF IInv, Owned, nss
<1>10. RegInv'
    BY <1>2, <1>3, <1>4, RegStep DEF IInv, Owned
<1>11. DevInv'
    BY <1>2, <1>3, DevStep, NullAssumption DEF IInv, TypeOK, Owned
<1>12. TableInv'
  <2>1. \A k \in Handles : Owned(k) => hd[k].i # i
      BY <1>4 DEF IInv, NumInv
  <2>2. ASSUME NEW d \in Callers \ {c}, pc[d] \in {"wait", "ndev", "hold"}
        PROVE  job[d].i # i
    <3>1. Has(d, job[d].i)
        BY <2>2 DEF Has, Having
    <3> QED  BY <1>4, <3>1 DEF IInv, NumInv
  <2>3. ASSUME NEW k \in Handles, NEW g \in Files, NEW n \in IfNums,
               table'[g][n] = k, table[g][n] = k, g = "wifi", Holds(c, k)'
        PROVE  FALSE
    <3>1. k = h
        BY <1>1, <1>4, <2>3 DEF Holds
    <3>2. hd[h].i = i /\ hd[h].file = f
        BY <1>1, <1>4 DEF IInv, HandleInv
    <3>3. hd[h].file = g /\ hd[h].i = n
        BY <2>3, <3>1, NullAssumption DEF IInv, TableInv, Entered
    <3>4. table'[f][i] = Null
        BY <1>2, <2>3, <3>2, <3>3 DEF IInv, TypeOK
    <3> QED  BY <2>3, <3>2, <3>3, <3>4, NullAssumption
  <2>4. \A g \in Files, n \in IfNums :
            \/ table'[g][n] = table[g][n]
            \/ g = f /\ n = i /\ table'[g][n] = Null
      BY <1>2 DEF IInv, TypeOK
  <2>5. Halfway => hd[cur.h].file = "virt_if" /\ hd[cur.h].i # i
    <3>1. Halfway => /\ hd[cur.h].file = "virt_if" /\ hd[cur.h].i = cur.m.i
                     /\ cur.m \in InFlight /\ Touches(cur.m)
        BY Entering
    <3> QED  BY <1>4, <3>1 DEF IInv, NumInv
  <2> QED  BY <1>2, <1>3, <2>1, <2>2, <2>3, <2>4, <2>5, ClearStep DEF IInv, Owned, nss
<1> QED  BY <1>5, <1>6, <1>7, <1>8, <1>9, <1>10, <1>11, <1>12 DEF IInv

LEMMA FreeInv ==
    ASSUME IInv, NEW c \in Callers, Free(c)
    PROVE  IInv'
<1>1. PICK i \in IfNums, f \in Files, h \in Handles :
            i = job[c].i /\ f = job[c].file /\ h = job[c].h
  <2>1. pc[c] = "free"
      BY DEF Free
  <2> QED  BY <2>1, CallerFacts DEF JobOK, Having, Working, Jobs
<1>2. /\ pc[c] = "free"
      /\ table' = IF f = "wifi" THEN table ELSE [table EXCEPT ![f][i] = Null]
      /\ hd' = [hd EXCEPT ![h].st = "freed"]
      /\ evicted' = IF f = "wifi" THEN evicted
                    ELSE evicted \cup ({table[f][i]} \ {h, Null})
      /\ \/ /\ job[c].user /\ f # "wifi"
            /\ pc' = [pc EXCEPT ![c] = "unregister"] /\ job' = job
         \/ pc' = [pc EXCEPT ![c] = "idle"] /\ job' = [job EXCEPT ![c] = NoJob]
      /\ UNCHANGED << used, handlers, ndev, refs, got, nss >>
    BY <1>1 DEF Free, ClearAfter, Leave
<1>3. /\ pc'[c] \in {"unregister", "idle"} /\ got'[c] = Null /\ OnlyCaller(c)
      /\ pc' \in [Callers -> Places] /\ job' \in [Callers -> Jobs] /\ JobOK(c)
      /\ pc'[c] = "unregister" => job'[c] = job[c] /\ job[c].user /\ f # "wifi"
  <2>1. "idle" \in Places /\ "unregister" \in Places /\ NoJob \in Jobs
      BY NoJobType DEF Places
  <2> QED  BY <1>2, <2>1, CallerFacts DEF OnlyCaller, SameCaller
<1>4. /\ \A k : ~ Holds(c, k)' /\ ~ Has(c, k)'
      /\ Registered(c)' => Registered(c) /\ job'[c] = job[c]
      /\ job[c].user /\ f # "wifi" => Registered(c)
      /\ Holds(c, h)
  <2>1. \A k : ~ Holds(c, k)' /\ ~ Has(c, k)'
      BY <1>3 DEF Holds, Has, Working, Having
  <2>2. /\ Registered(c)' => Registered(c) /\ job'[c] = job[c]
        /\ job[c].user /\ f # "wifi" => Registered(c)
      BY <1>1, <1>2, <1>3 DEF Registered
  <2>3. Holds(c, h)
      BY <1>1, <1>2 DEF Holds, Working
  <2> QED  BY <2>1, <2>2, <2>3
<1>5. \A d \in Callers \ {c} : SameCaller(d) /\ \A k : Holds(d, k)' <=> Holds(d, k)
    BY <1>3, SameFacts DEF OnlyCaller
<1>6. /\ hd[h].st = "live" /\ hd[h].i = i /\ hd[h].file = f /\ hd[h].owner = Null
      /\ \A d \in Callers \ {c} : ~ Holds(d, h)
    BY <1>1, <1>4 DEF IInv, HandleInv
<1>7. /\ hd'[h] = [hd[h] EXCEPT !.st = "freed"]
      /\ \A k \in Handles \ {h} : hd'[k] = hd[k]
      /\ hd' \in [Handles -> [st : {"new", "live", "freed"}, file : Files,
                              i : IfNums \cup {Null}, owner : Callers \cup {Null},
                              done : {"no", "ACK", "NACK"}]]
  <2>1. hd' = [hd EXCEPT ![h].st = "freed"]
      BY <1>2
  <2>2. hd \in [Handles -> [st : {"new", "live", "freed"}, file : Files,
                            i : IfNums \cup {Null}, owner : Callers \cup {Null},
                            done : {"no", "ACK", "NACK"}]]
      BY DEF IInv, TypeOK
  <2> QED  BY <2>1, <2>2
<1>8. /\ \A k \in Handles :
                /\ hd'[k].owner = hd[k].owner /\ hd'[k].file = hd[k].file
                /\ hd'[k].i = hd[k].i /\ hd'[k].done = hd[k].done
      /\ \A k \in Handles : Owned(k)' <=> Owned(k)
      /\ ~ Owned(h) /\ hd'[h].st = "freed"
  <2>1. /\ hd'[h].owner = hd[h].owner /\ hd'[h].file = hd[h].file
        /\ hd'[h].i = hd[h].i /\ hd'[h].done = hd[h].done /\ hd'[h].st = "freed"
      BY <1>7 DEF IInv, TypeOK
  <2> QED  BY <1>6, <1>7, <2>1 DEF Owned
<1>9. table \in [Files -> [IfNums -> Handles \cup {Null}]]
    BY DEF IInv, TypeOK
<1>10. TypeOK'
  <2>1. table' \in [Files -> [IfNums -> Handles \cup {Null}]]
      BY <1>2, <1>9
  <2>2. evicted' \subseteq Handles
      BY <1>2, <1>9 DEF IInv, TypeOK
  <2> QED  BY <1>2, <1>3, <1>7, <2>1, <2>2 DEF IInv, TypeOK, Places, Working, Having, nss
<1>11. JobInv'
  <2>1. JobOK(c)'
      BY <1>1, <1>3 DEF JobOK, Working, Having
  <2> QED  BY <1>3, <2>1, JobStep DEF IInv
<1>12. HandleInv'
  <2>1. ASSUME NEW d \in Callers, NEW k \in Handles, Holds(d, k)'
        PROVE  /\ hd'[k].st = "live" /\ hd'[k].owner = Null
               /\ hd'[k].i = job'[d].i /\ hd'[k].file = job'[d].file
               /\ pc'[d] \in {"register", "create"} => hd'[k].done = "no"
    <3>1. d # c /\ Holds(d, k) /\ SameCaller(d)
        BY <1>4, <1>5, <2>1
    <3>2. k # h
        BY <1>6, <3>1
    <3> QED  BY <1>7, <3>1, <3>2 DEF IInv, HandleInv, SameCaller
  <2>2. \A d, e \in Callers, k \in Handles : Holds(d, k)' /\ Holds(e, k)' => d = e
      BY <1>4, <1>5 DEF IInv, HandleInv
  <2>3. \A k \in Handles : hd'[k].st = "new" =>
            /\ hd'[k].file = "virt_if" /\ hd'[k].i = Null
            /\ hd'[k].owner = Null /\ hd'[k].done = "no"
      BY <1>7, <1>8 DEF IInv, HandleInv
  <2>4. \A k \in Handles : Owned(k)' => hd'[k].st = "live" /\ hd'[k].i \in IfNums
      BY <1>7, <1>8 DEF IInv, HandleInv
  <2> QED  BY <2>1, <2>2, <2>3, <2>4 DEF HandleInv
<1>13. MsgInv' /\ PairInv' /\ InFlight' = InFlight
  <2>1. \A m \in InFlight : m.h # Null => m.h \in Handles /\ m.h # h
      BY <1>2, <1>4, Carried
  <2>2. \A m \in InFlight : m.h # Null => hd'[m.h] = hd[m.h] /\ ~ Holds(c, m.h)'
      BY <1>4, <1>7, <2>1
  <2>3. cur # Null /\ cur.m.op \in {"create", "stats"} =>
            /\ hd'[cur.h].file = hd[cur.h].file /\ hd'[cur.h].st # "new"
            /\ hd[cur.h].file = "wifi" => hd'[cur.h].st = hd[cur.h].st
    <3> SUFFICES ASSUME cur # Null, cur.m.op \in {"create", "stats"}
                 PROVE  /\ hd'[cur.h].file = hd[cur.h].file /\ hd'[cur.h].st # "new"
                        /\ hd[cur.h].file = "wifi" => hd'[cur.h].st = hd[cur.h].st
        OBVIOUS
    <3>1. cur.h \in Handles /\ hd[cur.h].st # "new"
        BY Carried
    <3>2. hd[cur.h].file = "wifi" => cur.h # h
        BY <1>2, <1>4 DEF IInv, MsgInv, CurOK
    <3> QED  BY <1>7, <1>8, <3>1, <3>2
  <2> QED  BY <1>2, <1>3, <2>2, <2>3, QuietStep
<1>14. NumInv'
    BY <1>2, <1>3, <1>4, <1>8, <1>13, NumStep DEF IInv, nss
<1>15. RegInv'
    BY <1>2, <1>3, <1>4, <1>8, RegStep DEF IInv
<1>16. DevInv'
    BY <1>2, <1>3, <1>8, DevStep, NullAssumption DEF IInv, TypeOK
<1>17. TableInv'
  <2>1. ASSUME NEW k \in Handles, Owned(k), hd[k].file = f, hd[k].i = i,
               table'[f][i] = Null, table[f][i] = k
        PROVE  k \in evicted'
    <3>1. k # h /\ k # Null
        BY <1>8, <2>1, NullAssumption
    <3> QED  BY <1>2, <2>1, <3>1
  <2>2. ASSUME NEW d \in Callers \ {c}, pc[d] \in {"wait", "ndev", "hold"},
               job[d].file = f, job[d].i = i, table'[f][i] = Null, table[f][i] = job[d].h
        PROVE  job[d].h \in evicted'
    <3>1. PICK k \in Handles : k = job[d].h
        BY <2>2, CallerFacts DEF JobOK, Working
    <3>2. k # h /\ k # Null
        BY <1>6, <2>2, <3>1, NullAssumption DEF Holds, Working
    <3> QED  BY <1>2, <2>2, <3>1, <3>2
  <2>3. ASSUME NEW k \in Handles, NEW g \in Files, NEW n \in IfNums,
               table'[g][n] = k, table[g][n] = k
        PROVE  hd'[k].st = hd[k].st
    <3>1. CASE k # h
        BY <1>7, <3>1
    <3>2. CASE k = h
      <4>1. Entered(g, n)
          BY DEF IInv, TableInv
      <4>2. g = f /\ n = i
          BY <1>6, <2>3, <3>2, <4>1, NullAssumption DEF Entered
      <4>3. f # "wifi"
          BY <1>2, <1>4, <2>3, <3>2, <4>1, <4>2, NullAssumption DEF Entered
      <4>4. table'[f][i] = Null
          BY <1>2, <1>9, <4>3
      <4> QED  BY <2>3, <4>2, <4>4, NullAssumption
    <3> QED  BY <3>1, <3>2
  <2>4. \A g \in Files, n \in IfNums :
            \/ table'[g][n] = table[g][n]
            \/ g = f /\ n = i /\ table'[g][n] = Null
      BY <1>2, <1>9
  <2>5. evicted \subseteq evicted' /\ cur' = cur
      BY <1>2 DEF nss
  <2>6. pc'[c] \notin {"register", "create", "wait", "ndev", "hold"}
      BY <1>3
  <2>7. Halfway => /\ hd[cur.h].file = "virt_if" /\ cur.h \in Handles
                   /\ cur.h # h /\ cur.h # Null
      BY <1>4, Entering, NullAssumption
  <2>8. Halfway /\ table'[f][i] = Null /\ table[f][i] = cur.h => cur.h \in evicted'
      BY <1>2, <2>7
  <2> QED  BY <1>3, <1>4, <1>8, <2>1, <2>2, <2>3, <2>4, <2>5, <2>6, <2>7, <2>8, ClearStep
              DEF IInv
<1> QED  BY <1>10, <1>11, <1>12, <1>13, <1>14, <1>15, <1>16, <1>17 DEF IInv

LEMMA CreateAsyncInv ==
    ASSUME IInv, NEW c \in Callers, NEW h \in Handles, nss_virt_if_create(c, h)
    PROVE  IInv'
<1>1. /\ pc[c] = "idle" /\ hd[h].st = "new" /\ hd' = [hd EXCEPT ![h].st = "live"]
      /\ cmds' = Append(cmds, Msg("alloc", Null, h, c))
      /\ UNCHANGED << shared, pc, job, got, cur, replies, node >>
    BY DEF nss_virt_if_create, Send
<1>2. PICK m \in Msgs : /\ m = Msg("alloc", Null, h, c) /\ m.op = "alloc" /\ m.i = Null
                        /\ m.h = h /\ m.from = c /\ ~ m.ack
    BY MsgTypes
<1>3. OnlyCaller(c) /\ SameCaller(c) /\ JobOK(c)
    BY <1>1, CallerFacts DEF OnlyCaller, SameCaller
<1>4. /\ \A d \in Callers : \A k : Holds(d, k)' <=> Holds(d, k)
      /\ \A k : Has(c, k)' <=> Has(c, k)
      /\ Registered(c)' <=> Registered(c)
      /\ JobOK(c)'
      /\ \A k : ~ Holds(c, k)
  <2>1. \A d \in Callers : \A k : Holds(d, k)' <=> Holds(d, k)
      BY <1>1 DEF Holds
  <2>2. \A k : ~ Holds(c, k)
      BY <1>1 DEF Holds, Working
  <2> QED  BY <1>3, <2>1, <2>2, SameFacts
<1>5. /\ hd'[h] = [hd[h] EXCEPT !.st = "live"]
      /\ \A k \in Handles \ {h} : hd'[k] = hd[k]
      /\ hd' \in [Handles -> [st : {"new", "live", "freed"}, file : Files,
                              i : IfNums \cup {Null}, owner : Callers \cup {Null},
                              done : {"no", "ACK", "NACK"}]]
  <2>1. hd \in [Handles -> [st : {"new", "live", "freed"}, file : Files,
                          i : IfNums \cup {Null}, owner : Callers \cup {Null},
                          done : {"no", "ACK", "NACK"}]]
      BY DEF IInv, TypeOK
  <2>2. h \in Handles /\ hd' = [hd EXCEPT ![h].st = "live"]
      BY <1>1
  <2> QED  BY <2>1, <2>2
<1>6. /\ hd[h].file = "virt_if" /\ hd[h].i = Null /\ hd[h].owner = Null
      /\ hd[h].done = "no"
      /\ \A d \in Callers : ~ Holds(d, h)
    BY <1>1 DEF IInv, HandleInv
<1>7. /\ \A k \in Handles :
                /\ hd'[k].owner = hd[k].owner /\ hd'[k].file = hd[k].file
                /\ hd'[k].i = hd[k].i /\ hd'[k].done = hd[k].done
                /\ hd[k].st = "live" => hd'[k].st = "live"
      /\ \A k \in Handles : Owned(k)' <=> Owned(k)
      /\ ~ Owned(h) /\ hd'[h].st = "live"
  <2>1. /\ hd'[h].owner = hd[h].owner /\ hd'[h].file = hd[h].file
        /\ hd'[h].i = hd[h].i /\ hd'[h].done = hd[h].done /\ hd'[h].st = "live"
      BY <1>5 DEF IInv, TypeOK
  <2> QED  BY <1>5, <1>6, <2>1 DEF Owned
<1>8. TypeOK'
  <2>1. cmds' \in Seq(Msgs)
      BY <1>1, <1>2 DEF IInv, TypeOK
  <2> QED  BY <1>1, <1>5, <2>1 DEF IInv, TypeOK, shared
<1>9. JobInv'
    BY <1>1, <1>3, <1>4, JobStep DEF IInv, JobInv
<1>10. HandleInv'
  <2>1. ASSUME NEW d \in Callers, NEW k \in Handles, Holds(d, k)'
        PROVE  /\ hd'[k].st = "live" /\ hd'[k].owner = Null
               /\ hd'[k].i = job'[d].i /\ hd'[k].file = job'[d].file
               /\ pc'[d] \in {"register", "create"} => hd'[k].done = "no"
    <3>1. Holds(d, k) /\ k # h
        BY <1>4, <1>6, <2>1
    <3> QED  BY <1>1, <1>5, <3>1 DEF IInv, HandleInv
  <2>2. \A d, e \in Callers, k \in Handles : Holds(d, k)' /\ Holds(e, k)' => d = e
      BY <1>4 DEF IInv, HandleInv
  <2>3. \A k \in Handles : hd'[k].st = "new" =>
            /\ hd'[k].file = "virt_if" /\ hd'[k].i = Null
            /\ hd'[k].owner = Null /\ hd'[k].done = "no"
      BY <1>5, <1>7 DEF IInv, HandleInv
  <2>4. \A k \in Handles : Owned(k)' => hd'[k].st = "live" /\ hd'[k].i \in IfNums
      BY <1>5, <1>7 DEF IInv, HandleInv
  <2> QED  BY <2>1, <2>2, <2>3, <2>4 DEF HandleInv
<1>11. \A x \in InFlight : /\ x.h # Null => x.h \in Handles /\ x.h # h /\ hd'[x.h] = hd[x.h]
                           /\ Apart(x, m) /\ MsgOK(x)
  <2>1. \A x \in InFlight : x.h # Null => x.h \in Handles /\ x.h # h
      BY <1>1, Carried
  <2>2. \A x \in InFlight : x.h # Null => hd'[x.h] = hd[x.h]
      BY <1>5, <2>1
  <2>3. m.h # Null
      BY <1>2, NullAssumption
  <2>4. \A x \in InFlight : Apart(x, m)
      BY <1>2, <2>1, <2>3 DEF Apart, Claims, Touches
  <2>5. \A x \in InFlight : MsgOK(x)
      BY DEF IInv, MsgInv
  <2> QED  BY <2>1, <2>2, <2>4, <2>5
<1>12. /\ PairInv'
       /\ InFlight' \subseteq InFlight \cup {m}
       /\ \A k \in DOMAIN cmds' : cmds'[k] = m \/ \E j \in DOMAIN cmds : cmds'[k] = cmds[j]
  <2>1. \A x \in InRings : Apart(x, m)
      BY <1>11 DEF InFlight
  <2>2. cur # Null => Apart(cur.m, m)
      BY <1>11 DEF InFlight
  <2> QED  BY <1>1, <1>2, <2>1, <2>2, SendPairs DEF IInv
<1>13. MsgInv'
  <2>1. MsgOK(m)'
      BY <1>2, <1>4, <1>6, <1>7, NullAssumption DEF MsgOK, NumberOK
  <2>2. \A x \in InFlight' : x \in InFlight \/ MsgOK(x)'
      BY <1>12, <2>1
  <2>3. \A k \in DOMAIN cmds' : ~ cmds'[k].ack /\ cmds'[k].op # "stats"
      BY <1>2, <1>12 DEF IInv, MsgInv
  <2>4. \A x \in InFlight : x.h = Null => x.from # c
      BY <1>1, <1>11, NullAssumption DEF MsgOK
  <2>5. cur # Null /\ cur.m.op \in {"create", "stats"} =>
            /\ hd'[cur.h].file = hd[cur.h].file /\ hd'[cur.h].st # "new"
            /\ hd[cur.h].file = "wifi" => hd'[cur.h].st = hd[cur.h].st
      BY <1>1, <1>5, Carried
  <2> QED  BY <1>1, <1>3, <1>4, <1>11, <2>2, <2>3, <2>4, <2>5, MsgStep DEF IInv
<1>14. NumInv'
  <2>1. ~ Touches(m)
      BY <1>2 DEF Touches, Claims
  <2>2. \A x \in InFlight' : Touches(x) =>
            \E y \in InFlight : Touches(y) /\ y.i = x.i /\ (Claims(x) => Claims(y))
      BY <1>12, <2>1
  <2> QED  BY <1>1, <1>3, <1>4, <1>7, <2>2, NumStep DEF IInv
<1>15. RegInv'
    BY <1>1, <1>3, <1>4, <1>7, RegStep DEF IInv, shared
<1>16. DevInv'
    BY <1>1, <1>3, <1>7, DevStep, NullAssumption DEF IInv, TypeOK, shared
<1>17. TableInv'
  <2>1. Enters(c)'
      BY <1>1 DEF Enters
  <2> QED  BY <1>1, <1>3, <1>4, <1>7, <2>1, TableStep DEF IInv, shared
<1> QED  BY <1>8, <1>9, <1>10, <1>12, <1>13, <1>14, <1>15, <1>16, <1>17 DEF IInv

(***************************************************************************)
(* The NSS and the poll.                                                   *)
(***************************************************************************)

\* What the NSS does the driver sees in the messages only.
LEMMA Elsewhere ==
    ASSUME IInv, UNCHANGED << hd, shared, pc, job, got, cur >>
    PROVE  /\ JobInv' /\ HandleInv' /\ RegInv' /\ TableInv' /\ DevInv' /\ CurOK'
           /\ \A m : MsgOK(m)' <=> MsgOK(m)
           /\ \A c, i : Has(c, i)' <=> Has(c, i)
           /\ \A h : Owned(h)' <=> Owned(h)
<1> USE DEF shared
<1>1. JobInv'
    BY DEF IInv, JobInv, JobOK
<1>2. HandleInv'
    BY DEF IInv, HandleInv, Holds, Owned
<1>3. RegInv'
    BY DEF IInv, RegInv, Registered, Owned
<1>4. TableInv'
  <2>1. TableInv' <=> TableInv
      BY DEF TableInv, Entered, Enters, Owned, Kept, Holds, Halfway
  <2> QED  BY <2>1 DEF IInv
<1>5. DevInv'
    BY DEF IInv, DevInv
<1>6. CurOK'
  <2>1. CurOK' <=> CurOK
      BY DEF CurOK, Holds
  <2> QED  BY <2>1 DEF IInv, MsgInv
<1>7. \A m : MsgOK(m)' <=> MsgOK(m)
    BY DEF MsgOK, NumberOK, Holds
<1>8. \A c, i : Has(c, i)' <=> Has(c, i)
    BY DEF Has
<1>9. \A h : Owned(h)' <=> Owned(h)
    BY DEF Owned
<1> QED  BY <1>1, <1>2, <1>3, <1>4, <1>5, <1>6, <1>7, <1>8, <1>9

LEMMA FirmwareInv ==
    ASSUME IInv, Firmware
    PROVE  IInv'
<1> DEFINE m == Head(cmds)
<1>1. /\ cmds # << >> /\ cmds' = Tail(cmds)
      /\ UNCHANGED << hd, shared, pc, job, got, cur >>
    BY DEF Firmware
<1>2. PICK r \in Answers(m) :
        /\ replies' = Append(replies, r)
        /\ node' = CASE r.ack /\ r.op = "alloc" -> node \cup {r.i}
                     [] r.ack /\ r.op = "dealloc" -> node \ {r.i}
                     [] OTHER -> node
    BY DEF Firmware
<1>3. m \in Msgs /\ m \in InFlight /\ ~ m.ack /\ m.op # "stats" /\ MsgOK(m) /\ 1 \in DOMAIN cmds
  <2>1. cmds \in Seq(Msgs) /\ m = cmds[1] /\ 1 \in DOMAIN cmds /\ m \in Msgs
      BY <1>1 DEF IInv, TypeOK
  <2> QED  BY <2>1 DEF IInv, MsgInv, InFlight, InRings
<1> HIDE DEF m
<1>4. /\ r.op = m.op /\ r.h = m.h /\ r.from = m.from /\ r \in Msgs
      /\ \/ r = m
         \/ m.op = "alloc" /\ r.ack /\ r.i \in IfNums \ node
         \/ m.op # "alloc" /\ r.ack /\ r.i = m.i
  <2>1. CASE r = m
      BY <1>3, <2>1
  <2>2. CASE m.op = "alloc" /\ r # m
    <3>1. PICK i \in IfNums \ node : r = [m EXCEPT !.i = i, !.ack = TRUE]
        BY <1>2, <2>2 DEF Answers
    <3> QED  BY <1>3, <2>2, <3>1 DEF Msgs
  <2>3. CASE m.op # "alloc" /\ r # m
    <3>1. r = [m EXCEPT !.ack = TRUE]
        BY <1>2, <2>3 DEF Answers
    <3> QED  BY <1>3, <2>3, <3>1 DEF Msgs
  <2> QED  BY <2>1, <2>2, <2>3
<1>5. \A x \in InFlight : Claims(x) => x.i \in node
    BY DEF IInv, NumInv
<1>6. /\ Touches(r) => (r.i = m.i /\ Touches(m)) \/ (r.i \in IfNums \ node /\ r.op = "alloc" /\ r.ack)
      /\ Claims(r) => (r = m /\ Claims(m)) \/ (r.i \in IfNums \ node /\ r.op = "alloc" /\ r.ack)
    BY <1>3, <1>4 DEF Touches, Claims
<1>7. \A x \in InFlight : Apart(x, m) => Apart(x, r)
    BY <1>3, <1>4, <1>5, <1>6 DEF Apart
<1>8. \A k \in DOMAIN cmds : Apart(m, cmds[k]) => Apart(r, cmds[k])
  <2> SUFFICES ASSUME NEW k \in DOMAIN cmds, Apart(m, cmds[k])
               PROVE  Apart(r, cmds[k])
      OBVIOUS
  <2>1. PICK y \in InFlight : y = cmds[k] /\ ~ y.ack /\ y.op # "stats"
      BY DEF InFlight, InRings, IInv, MsgInv
  <2>2. Touches(y) => y.i \in node
      BY <1>5, <2>1 DEF Touches, Claims
  <2>3. Claims(r) /\ Touches(y) => r.i # y.i
      BY <1>6, <2>1, <2>2 DEF Apart
  <2>4. r.op = "dealloc" => r.i = m.i
      BY <1>4
  <2> QED  BY <1>4, <2>1, <2>3, <2>4 DEF Apart
<1>9. /\ PairInv'
      /\ \A x \in InFlight' :
            \/ x = r
            \/ x \in InFlight /\ (Apart(x, m) \/ Apart(m, x))
      /\ \A k \in DOMAIN cmds' : k + 1 \in DOMAIN cmds /\ cmds'[k] = cmds[k + 1]
    BY <1>1, <1>2, <1>4, <1>7, <1>8, AnswerPairs DEF IInv, m
<1>10. /\ JobInv' /\ HandleInv' /\ RegInv' /\ TableInv' /\ DevInv' /\ CurOK'
       /\ \A x : MsgOK(x)' <=> MsgOK(x)
       /\ \A c, i : Has(c, i)' <=> Has(c, i)
       /\ \A h : (Owned(h)' <=> Owned(h)) /\ hd' = hd
    BY <1>1, Elsewhere
<1>11. MsgOK(r)
  <2>1. m.op = "alloc" /\ m.h # Null => NumberOK(r)
      BY <1>3, <1>4 DEF MsgOK, NumberOK, Msgs
  <2> QED  BY <1>3, <1>4, <2>1 DEF MsgOK
<1>12. MsgInv'
  <2>1. \A x \in InFlight' : MsgOK(x)'
      BY <1>9, <1>10, <1>11 DEF IInv, MsgInv
  <2>2. \A k \in DOMAIN cmds' : ~ cmds'[k].ack /\ cmds'[k].op # "stats"
      BY <1>9 DEF IInv, MsgInv
  <2> QED  BY <1>10, <2>1, <2>2 DEF MsgInv
<1>13. /\ node' \subseteq IfNums
       /\ \A i \in node : i \in node' \/ (i = m.i /\ m.op = "dealloc" /\ r.ack)
       /\ r.op = "alloc" /\ r.ack => r.i \in node'
       /\ r.op = "dealloc" /\ ~ r.ack => node' = node /\ r = m
  <2>1. node \subseteq IfNums
      BY DEF IInv, TypeOK
  <2>2. CASE r.ack /\ r.op = "alloc"
      BY <1>2, <1>3, <1>4, <2>1, <2>2
  <2>3. CASE r.ack /\ r.op = "dealloc"
      BY <1>2, <1>3, <1>4, <2>1, <2>3
  <2>4. CASE ~ r.ack \/ r.op \notin {"alloc", "dealloc"}
      BY <1>2, <1>4, <2>1, <2>4
  <2> QED  BY <2>2, <2>3, <2>4
<1>14. TypeOK'
  <2>1. cmds' \in Seq(Msgs) /\ replies' \in Seq(Msgs)
      BY <1>1, <1>2, <1>4 DEF IInv, TypeOK
  <2> QED  BY <1>1, <1>13, <2>1 DEF IInv, TypeOK, shared
<1>15. NumInv'
  <2>1. ASSUME NEW i \in IfNums, NEW c \in Callers, Has(c, i)'
        PROVE  /\ i \in node'
               /\ \A d \in Callers : Has(d, i)' => c = d
               /\ \A h \in Handles : Owned(h)' => hd'[h].i # i
               /\ \A x \in InFlight' : Touches(x) => x.i # i
    <3>1. /\ Has(c, i) /\ i \in node
          /\ \A d \in Callers : Has(d, i) => c = d
          /\ \A h \in Handles : Owned(h) => hd[h].i # i
          /\ \A x \in InFlight : Touches(x) => x.i # i
        BY <1>10, <2>1 DEF IInv, NumInv
    <3>2. i \in node'
        BY <1>3, <1>13, <3>1 DEF Touches
    <3>3. Touches(r) => r.i # i
        BY <1>3, <1>6, <3>1
    <3> QED  BY <1>9, <1>10, <3>1, <3>2, <3>3
  <2>2. ASSUME NEW h \in Handles, Owned(h)'
        PROVE  /\ hd'[h].i \in node'
               /\ \A k \in Handles : Owned(k)' /\ hd'[k].i = hd'[h].i => h = k
               /\ \A x \in InFlight' : Touches(x) => x.i # hd'[h].i
    <3>1. /\ Owned(h) /\ hd[h].i \in node
          /\ \A k \in Handles : Owned(k) /\ hd[k].i = hd[h].i => h = k
          /\ \A x \in InFlight : Touches(x) => x.i # hd[h].i
        BY <1>10, <2>2 DEF IInv, NumInv
    <3>2. hd[h].i \in node'
        BY <1>3, <1>13, <3>1 DEF Touches
    <3>3. Touches(r) => r.i # hd[h].i
        BY <1>3, <1>6, <3>1
    <3> QED  BY <1>9, <1>10, <3>1, <3>2, <3>3
  <2>3. ASSUME NEW x \in InFlight', Claims(x)
        PROVE  x.i \in node'
    <3>1. CASE x = r
        BY <1>3, <1>5, <1>6, <1>13, <2>3, <3>1 DEF Claims
    <3>2. CASE x # r
      <4>1. x \in InFlight /\ x.i \in node /\ (Apart(x, m) \/ Apart(m, x))
          BY <1>5, <1>9, <2>3, <3>2
      <4>2. m.op = "dealloc" => x.i # m.i
          BY <1>3, <2>3, <4>1 DEF Apart, Claims, Touches
      <4> QED  BY <1>13, <4>1, <4>2
    <3> QED  BY <3>1, <3>2
  <2> QED  BY <2>1, <2>2, <2>3 DEF NumInv
<1> QED  BY <1>9, <1>10, <1>12, <1>14, <1>15 DEF IInv

LEMMA FirmwareStatsInv ==
    ASSUME IInv, NEW i \in IfNums, FirmwareStats(i)
    PROVE  IInv'
<1>1. PICK r \in Msgs : /\ r = Msg("stats", i, Null, Null) /\ r.op = "stats" /\ r.i = i
                        /\ r.h = Null /\ r.from = Null
    BY MsgTypes
<1>2. /\ replies' = Append(replies, r)
      /\ UNCHANGED << hd, shared, pc, job, got, cur, cmds, node >>
    BY <1>1 DEF FirmwareStats
<1>3. PairInv' /\ InFlight' \subseteq InFlight \cup {r}
    BY <1>1, <1>2, StatsPairs DEF IInv
<1>4. /\ JobInv' /\ HandleInv' /\ RegInv' /\ TableInv' /\ DevInv' /\ CurOK'
      /\ \A x : MsgOK(x)' <=> MsgOK(x)
      /\ \A c, k : Has(c, k)' <=> Has(c, k)
      /\ \A h : Owned(h)' <=> Owned(h)
    BY <1>2, Elsewhere
<1>5. MsgOK(r) /\ ~ Touches(r)
    BY <1>1 DEF MsgOK, Touches, Claims
<1>6. MsgInv'
    BY <1>2, <1>3, <1>4, <1>5 DEF IInv, MsgInv
<1>7. \A x \in InFlight' : Touches(x) => x \in InFlight /\ (Claims(x) => x.i \in node)
    BY <1>3, <1>5 DEF IInv, NumInv
<1>8. NumInv'
    BY <1>2, <1>4, <1>7 DEF IInv, NumInv, Touches
<1>9. TypeOK'
  <2>1. replies' \in Seq(Msgs)
      BY <1>2 DEF IInv, TypeOK
  <2> QED  BY <1>2, <2>1 DEF IInv, TypeOK, shared
<1> QED  BY <1>3, <1>4, <1>6, <1>8, <1>9 DEF IInv

\* The poll disturbs no process: where they are stays as it is.
LEMMA Standing ==
    ASSUME UNCHANGED << pc, job, got >>
    PROVE  /\ \A c : /\ \A h : Holds(c, h)' <=> Holds(c, h)
                     /\ \A i : Has(c, i)' <=> Has(c, i)
                     /\ Registered(c)' <=> Registered(c)
           /\ JobInv => JobInv'
<1>1. \A c : /\ \A h : Holds(c, h)' <=> Holds(c, h)
             /\ \A i : Has(c, i)' <=> Has(c, i)
             /\ Registered(c)' <=> Registered(c)
    BY DEF Holds, Has, Registered
<1>2. JobInv => JobInv'
    BY DEF JobInv, JobOK
<1> QED  BY <1>1, <1>2

LEMMA ReceiveInv ==
    ASSUME IInv, Receive
    PROVE  IInv'
<1>1. /\ cur = Null /\ replies # << >> /\ replies' = Tail(replies) /\ cmds' = cmds
      /\ UNCHANGED << hd, shared, pc, job, got, node >>
    BY DEF Receive
<1>2. PICK m : m = Head(replies)
    OBVIOUS
<1>3. PICK h : h = IF m.op \in {"alloc", "dealloc"} THEN m.h ELSE Lookup(m.i)
    OBVIOUS
<1>4. cur' = IF m.op \in {"create", "stats"} /\ h = Null THEN Null ELSE [m |-> m, h |-> h]
    BY <1>2, <1>3 DEF Receive
<1>5. /\ PairInv' /\ InFlight' \subseteq InFlight /\ m \in InFlight /\ m \in Msgs
    BY <1>1, <1>2, <1>4, ReceivePairs DEF IInv
<1>6. MsgOK(m)
    BY <1>5 DEF IInv, MsgInv
<1>7. /\ JobInv' /\ \A c : /\ \A k : Holds(c, k)' <=> Holds(c, k)
                           /\ \A i : Has(c, i)' <=> Has(c, i)
                           /\ Registered(c)' <=> Registered(c)
    BY <1>1, Standing DEF IInv
<1>8. HandleInv'
    BY <1>1, <1>7 DEF IInv, HandleInv, Owned
<1>9. RegInv'
    BY <1>1, <1>7 DEF IInv, RegInv, Owned, shared
<1>10. DevInv'
    BY <1>1 DEF IInv, DevInv, shared
<1>11. NumInv'
  <2>1. NumInv /\ node' = node /\ hd' = hd
      BY <1>1 DEF IInv
  <2>2. \A x : Owned(x)' <=> Owned(x)
      BY <2>1 DEF Owned
  <2> QED  BY <1>5, <1>7, <2>1, <2>2 DEF NumInv
<1>12. ASSUME m.op \in {"create", "stats"}, h # Null
       PROVE  /\ handlers[m.i] \in Files /\ m.i \in IfNums
              /\ h \in Handles /\ h = table[handlers[m.i]][m.i]
  <2>1. m.i \in IfNums /\ h = Lookup(m.i)
      BY <1>3, <1>6, <1>12 DEF MsgOK
  <2> QED  BY <1>12, <2>1 DEF Lookup, IInv, TypeOK
<1>13. CurOK'
  <2> SUFFICES ASSUME cur' # Null
               PROVE  CurOK'
      BY DEF CurOK
  <2>1. cur' = [m |-> m, h |-> h] /\ (m.op \in {"create", "stats"} => h # Null)
      BY <1>4
  <2>2. m.op \in {"alloc", "dealloc"} => h = m.h
      BY <1>3
  <2>3. m.op \in {"create", "stats"} =>
            /\ h \in Handles /\ hd[h].st = "live"
            /\ hd[h].file = "wifi" => \A c \in Callers :
                    Holds(c, h) => pc[c] \notin {"dealloc", "dealloc_wait", "free"}
    <3>1. TableInv
        BY DEF IInv
    <3>2. ASSUME m.op \in {"create", "stats"}
          PROVE  Entered(handlers[m.i], m.i) /\ h = table[handlers[m.i]][m.i] /\ h \in Handles
        BY <1>12, <2>1, <3>1, <3>2 DEF TableInv
    <3> QED  BY <3>2, NullAssumption DEF Entered
  <2>4. h \in Handles \cup {Null}
      BY <1>5, <2>2, <2>3 DEF Msgs
  <2> QED  BY <1>1, <1>5, <1>7, <2>1, <2>2, <2>3, <2>4 DEF CurOK
<1>14. MsgInv'
  <2>1. hd' = hd /\ pc' = pc /\ job' = job /\ got' = got /\ MsgInv
      BY <1>1 DEF IInv
  <2>2. \A x : MsgOK(x) => MsgOK(x)'
    <3> TAKE x
    <3>1. \A c : Holds(c, x.h)' <=> Holds(c, x.h)
        BY <1>7
    <3>2. NumberOK(x) => NumberOK(x)'
        BY <1>1, <2>1 DEF NumberOK
    <3> QED  BY <2>1, <3>1, <3>2 DEF MsgOK
  <2> QED  BY <1>1, <1>5, <1>13, <2>1, <2>2 DEF MsgInv
<1>15. TableInv'
  <2>1. \A f, i : Entered(f, i)' <=> Entered(f, i)
      BY <1>1, <1>7 DEF Entered, shared
  <2>2. \A k : Kept(k)' <=> Kept(k)
      BY <1>1 DEF Kept, shared
  <2>3. ASSUME NEW c \in Callers, pc[c] = "wait", cur' # Null, cur'.m.h = job[c].h
        PROVE  Kept(job[c].h)
    <3>1. PICK k \in Handles, i \in IfNums, f \in Files :
                k = job[c].h /\ i = job[c].i /\ f = job[c].file
        BY <2>3, CallerFacts DEF JobOK, Working, Having, Jobs
    <3>2. /\ Holds(c, k) /\ m.h = k /\ k # Null /\ Registered(c)
          /\ m.op \in {"create", "stats"} => h # Null
        BY <1>4, <2>3, <3>1, NullAssumption DEF Holds, Working, Registered
    <3>3. m.op = "create" /\ hd[k].i = m.i
        BY <1>6, <3>2 DEF MsgOK
    <3>4. hd[k].i = i /\ hd[k].file = f /\ handlers[i] = f
        BY <3>1, <3>2 DEF IInv, HandleInv, RegInv
    <3>5. table[f][i] = k
        BY <1>12, <2>3, <3>1, <3>2, <3>3, <3>4 DEF IInv, TableInv, Enters
    <3> QED  BY <3>1, <3>4, <3>5 DEF Kept
  <2>4. \A c \in Callers : Enters(c)'
      BY <1>1, <2>2, <2>3 DEF Enters, IInv, TableInv, shared
  <2>5. ~ Halfway'
    <3> SUFFICES ASSUME cur' # Null, m.op = "alloc", m.h \in Handles
                 PROVE  hd[m.h].i = Null
        BY <1>1, <1>3, <1>4 DEF Halfway
    <3> QED  BY <1>1, <1>6, NullAssumption DEF MsgOK, NumberOK
  <2> QED  BY <1>1, <2>1, <2>2, <2>4, <2>5 DEF IInv, TableInv, Owned
<1>16. TypeOK'
  <2>1. replies' \in Seq(Msgs)
      BY <1>1 DEF IInv, TypeOK
  <2> QED  BY <1>1, <2>1 DEF IInv, TypeOK, shared
<1> QED  BY <1>5, <1>7, <1>8, <1>9, <1>10, <1>11, <1>14, <1>15, <1>16 DEF IInv

LEMMA Present ==
    ASSUME IInv, cur # Null
    PROVE  /\ cur.m \in InFlight /\ cur.m \in Msgs /\ MsgOK(cur.m)
           /\ cur \in [m : Msgs, h : Handles \cup {Null}]
           /\ \A x \in InRings : /\ x \in InFlight /\ x \in Msgs /\ MsgOK(x)
                                 /\ Apart(cur.m, x)
<1>1. cur.m \in InFlight /\ InFlight \subseteq Msgs /\ InRings \subseteq InFlight
      /\ cur \in [m : Msgs, h : Handles \cup {Null}]
    BY FlightTypes DEF IInv, InFlight
<1>2. \A x \in InRings : Apart(cur.m, x)
    BY Behind DEF IInv
<1> QED  BY <1>1, <1>2 DEF IInv, MsgInv

\* The poll is done with its message, whose handle it may have changed.
LEMMA PollMsgs ==
    ASSUME IInv, cur # Null, cur' = Null, UNCHANGED << pc, job, got >>,
           \A x \in InRings : x.h # Null => hd'[x.h] = hd[x.h],
           \A x \in InFlight' : x \in InRings \/ MsgOK(x)',
           \A k \in DOMAIN cmds' : ~ cmds'[k].ack /\ cmds'[k].op # "stats"
    PROVE  MsgInv'
<1>1. ASSUME NEW x \in InFlight', x \in InRings
      PROVE  MsgOK(x)'
  <2>1. MsgOK(x) /\ (x.h # Null => hd'[x.h] = hd[x.h])
      BY <1>1, Present
  <2>2. \A c, h : Holds(c, h)' <=> Holds(c, h)
      BY Standing
  <2>3. x.h # Null /\ NumberOK(x) => hd[x.h].i = Null
      BY <1>1, Present DEF NumberOK, Apart
  <2>4. x.h # Null /\ NumberOK(x) => NumberOK(x)'
      BY <2>1, <2>3 DEF NumberOK
  <2> QED  BY <2>1, <2>2, <2>4 DEF MsgOK
<1>2. CurOK'
    BY DEF CurOK
<1> QED  BY <1>1, <1>2 DEF MsgInv

LEMMA MsgHandlerInv ==
    ASSUME IInv, MsgHandler
    PROVE  IInv'
<1>1. /\ cur # Null /\ cur.m.op \in {"create", "stats"} /\ cur' = Null
      /\ UNCHANGED << shared, pc, job, got, cmds, replies, node >>
    BY DEF MsgHandler, Handled
<1>2. PICK k : k = cur.m.h
    OBVIOUS
<1>3. /\ k \in Handles \cup {Null}
      /\ \A x \in InRings : x.h # Null => x.h \in Handles /\ x.h # k
      /\ k # Null => /\ hd[k].st = "live" /\ hd[k].owner = Null
                     /\ \A c \in Callers : Holds(c, k) =>
                            pc[c] \in {"wait", "destroy", "dealloc", "dealloc_wait"}
  <2>1. k \in Handles \cup {Null} /\ \A x \in InRings : x.h # Null => x.h \in Handles
      BY <1>1, <1>2, Present DEF Msgs
  <2>2. \A x \in InRings : x.h # Null => x.h # k
      BY <1>1, <1>2, Present DEF Apart
  <2> QED  BY <1>1, <1>2, <2>1, <2>2, Present, Carried
<1>4. /\ \A x \in Handles \ {k} : hd'[x] = hd[x]
      /\ hd' = hd \/ (k \in Handles /\ \E d \in {"ACK", "NACK"} : hd' = [hd EXCEPT ![k].done = d])
  <2>1. CASE ~ Completes(cur.m)
      BY <2>1 DEF MsgHandler
  <2>2. CASE Completes(cur.m)
    <3>1. PICK d \in {"ACK", "NACK"} : d = IF cur.m.ack THEN "ACK" ELSE "NACK"
        OBVIOUS
    <3>2. k \in Handles /\ hd' = [hd EXCEPT ![k].done = d]
        BY <1>2, <1>3, <2>2, <3>1 DEF MsgHandler, Completes
    <3> QED  BY <3>2 DEF IInv, TypeOK
  <2> QED  BY <2>1, <2>2
<1>5. /\ \A x \in Handles :
            /\ hd'[x].st = hd[x].st /\ hd'[x].file = hd[x].file
            /\ hd'[x].i = hd[x].i /\ hd'[x].owner = hd[x].owner
      /\ hd' \in [Handles -> [st : {"new", "live", "freed"}, file : Files,
                              i : IfNums \cup {Null}, owner : Callers \cup {Null},
                              done : {"no", "ACK", "NACK"}]]
  <2>1. hd \in [Handles -> [st : {"new", "live", "freed"}, file : Files,
                            i : IfNums \cup {Null}, owner : Callers \cup {Null},
                            done : {"no", "ACK", "NACK"}]]
      BY DEF IInv, TypeOK
  <2>2. CASE hd' = hd
      BY <2>1, <2>2
  <2>3. CASE k \in Handles /\ \E d \in {"ACK", "NACK"} : hd' = [hd EXCEPT ![k].done = d]
    <3>1. PICK d \in {"ACK", "NACK"} : hd' = [hd EXCEPT ![k].done = d]
        BY <2>3
    <3>2. hd' = [hd EXCEPT ![k] = [hd[k] EXCEPT !.done = d]]
        BY <3>1
    <3>3. [hd[k] EXCEPT !.done = d] \in [st : {"new", "live", "freed"}, file : Files,
                              i : IfNums \cup {Null}, owner : Callers \cup {Null},
                              done : {"no", "ACK", "NACK"}]
        BY <2>1, <2>3
    <3>4. hd'[k] = [hd[k] EXCEPT !.done = d]
        BY <2>1, <2>3, <3>2
    <3> QED  BY <1>4, <2>1, <2>3, <3>2, <3>3, <3>4
  <2> QED  BY <1>4, <2>2, <2>3
<1>6. /\ JobInv' /\ \A c : /\ \A x : Holds(c, x)' <=> Holds(c, x)
                           /\ \A i : Has(c, i)' <=> Has(c, i)
                           /\ Registered(c)' <=> Registered(c)
    BY <1>1, Standing DEF IInv
<1>7. \A x \in Handles : Owned(x)' <=> Owned(x)
    BY <1>5 DEF Owned
<1>8. PairInv' /\ InFlight' = InRings
    BY <1>1, DropPairs DEF IInv
<1>9. TypeOK'
    BY <1>1, <1>5 DEF IInv, TypeOK, shared
<1>10. HandleInv'
  <2>1. ASSUME NEW c \in Callers, NEW x \in Handles, Holds(c, x)'
        PROVE  /\ hd'[x].st = "live" /\ hd'[x].owner = Null
               /\ hd'[x].i = job'[c].i /\ hd'[x].file = job'[c].file
               /\ pc'[c] \in {"register", "create"} => hd'[x].done = "no"
    <3>1. Holds(c, x) /\ (pc[c] \in {"register", "create"} => x # k)
        BY <1>3, <1>6, <2>1, NullAssumption
    <3> QED  BY <1>1, <1>4, <1>5, <3>1 DEF IInv, HandleInv
  <2>2. \A c, d \in Callers, x \in Handles : Holds(c, x)' /\ Holds(d, x)' => c = d
      BY <1>6 DEF IInv, HandleInv
  <2>3. \A x \in Handles : hd'[x].st = "new" =>
            /\ hd'[x].file = "virt_if" /\ hd'[x].i = Null
            /\ hd'[x].owner = Null /\ hd'[x].done = "no"
      BY <1>3, <1>4, <1>5, NullAssumption DEF IInv, HandleInv
  <2>4. \A x \in Handles : Owned(x)' => hd'[x].st = "live" /\ hd'[x].i \in IfNums
      BY <1>5, <1>7 DEF IInv, HandleInv
  <2> QED  BY <2>1, <2>2, <2>3, <2>4 DEF HandleInv
<1>11. MsgInv'
  <2>1. \A k1 \in DOMAIN cmds' : ~ cmds'[k1].ack /\ cmds'[k1].op # "stats"
      BY <1>1 DEF IInv, MsgInv
  <2> QED  BY <1>1, <1>3, <1>4, <1>8, <2>1, PollMsgs
<1>12. NumInv'
  <2>1. InFlight' \subseteq InFlight
      BY <1>8 DEF InFlight
  <2>2. NumInv
      BY DEF IInv
  <2>3. node' = node /\ \A x \in Handles : hd'[x].i = hd[x].i
      BY <1>1, <1>5
  <2> QED  BY <1>6, <1>7, <2>1, <2>2, <2>3 DEF NumInv
<1>13. RegInv'
    BY <1>1, <1>5, <1>6, <1>7 DEF IInv, RegInv, shared
<1>14. DevInv'
  <2>1. \A e : Uses(e)' = Uses(e) /\ Puts(e)' = Puts(e)
      BY <1>1, <1>5 DEF Uses, Puts
  <2>2. \A i \in IfNums : ndev'[i] # Null =>
            \/ \E h \in Handles : hd'[h].owner = ndev'[i] /\ hd'[h].i = i
            \/ pc'[ndev'[i]] = "hold" /\ job'[ndev'[i]].i = i
      BY <1>1, <1>5 DEF IInv, DevInv, shared
  <2>3. \A e \in Callers : refs'[e] = Cardinality(Uses(e)') + Cardinality(Puts(e)')
      BY <1>1, <2>1, DevCounts DEF IInv, shared
  <2> QED  BY <2>2, <2>3 DEF DevInv, Uses, Puts
<1>15. TableInv'
  <2>1. \A f \in Files, i \in IfNums : Entered(f, i)'
    <3> SUFFICES ASSUME NEW f \in Files, NEW i \in IfNums, table[f][i] # Null
                 PROVE  Entered(f, i)'
        BY <1>1 DEF Entered, shared
    <3>1. PICK x \in Handles : x = table[f][i]
        BY DEF IInv, TypeOK
    <3>2. Entered(f, i)
        BY DEF IInv, TableInv
    <3> QED  BY <1>1, <1>5, <1>6, <3>1, <3>2 DEF Entered, shared
  <2>2. \A x \in Handles : Kept(x)' <=> Kept(x)
      BY <1>1, <1>5 DEF Kept, shared
  <2>3. ASSUME NEW c \in Callers
        PROVE  Enters(c)'
    <3> SUFFICES ASSUME pc[c] \in {"register", "create", "wait", "ndev", "hold"}
                 PROVE  Enters(c)'
        BY <1>1 DEF Enters
    <3>1. PICK x \in Handles : x = job[c].h
        BY CallerFacts DEF JobOK, Working
    <3>2. Enters(c)
        BY DEF IInv, TableInv
    <3>3. hd'[x].done = hd[x].done \/ x = cur.m.h
        BY <1>2, <1>4
    <3> QED  BY <1>1, <2>2, <3>1, <3>2, <3>3 DEF Enters, shared
  <2>4. ~ Halfway'
      BY <1>1 DEF Halfway
  <2> QED  BY <1>7, <2>1, <2>2, <2>3, <2>4 DEF IInv, TableInv
<1> QED  BY <1>6, <1>8, <1>9, <1>10, <1>11, <1>12, <1>13, <1>14, <1>15 DEF IInv

\* The number that the NSS has allocated passes to the process that waits.
LEMMA DynamicCallbackInv ==
    ASSUME IInv, DynamicCallback
    PROVE  IInv'
<1>1. PICK m \in Msgs : m = cur.m
    BY Present DEF DynamicCallback
<1>2. /\ cur # Null /\ m.op \in {"alloc", "dealloc"} /\ cur' = Null
      /\ got' = IF m.from = Null THEN got ELSE [got EXCEPT ![m.from] = m]
      /\ UNCHANGED << hd, shared, pc, job, cmds, replies, node >>
    BY <1>1 DEF DynamicCallback, Handled
<1>3. /\ m.h = Null /\ MsgOK(m) /\ m \in InFlight
      /\ \A x \in InRings : x \in InFlight /\ x \in Msgs /\ MsgOK(x) /\ Apart(m, x)
    BY <1>1, Present DEF DynamicCallback, IInv, MsgInv, CurOK
<1>4. got \in [Callers -> Msgs \cup {Null}] /\ m.from \in Callers \cup {Null}
    BY DEF IInv, TypeOK, Msgs
<1>5. /\ PairInv' /\ InFlight' = InRings
    BY <1>2, DropPairs DEF IInv
<1>6. \A c : /\ \A k : Holds(c, k)' <=> Holds(c, k)
             /\ Registered(c)' <=> Registered(c)
    BY <1>2 DEF Holds, Registered
<1>7. \A c \in Callers :
            \/ got'[c] = got[c]
            \/ /\ got'[c] = m /\ c = m.from /\ got[c] = Null
               /\ pc[c] = IF m.op = "alloc" THEN "alloc_wait" ELSE "dealloc_wait"
               /\ m.op = "dealloc" => m.i = job[c].i
    BY <1>2, <1>3, <1>4, NullAssumption DEF MsgOK
<1>8. TypeOK'
    BY <1>2, <1>4 DEF IInv, TypeOK, shared
<1>9. JobInv'
  <2>1. ASSUME NEW c \in Callers
        PROVE  JobOK(c)'
    <3>1. JobOK(c)
        BY DEF IInv, JobInv
    <3>2. got'[c] # Null =>
                \/ pc[c] = "alloc_wait" /\ (got'[c].ack => got'[c].i \in IfNums)
                \/ pc[c] = "dealloc_wait"
      <4>1. CASE got'[c] = got[c]
          BY <3>1, <4>1 DEF JobOK
      <4>2. CASE got'[c] # got[c]
          BY <1>2, <1>3, <1>7, <4>2 DEF MsgOK
      <4> QED  BY <4>1, <4>2
    <3> QED  BY <1>2, <3>1, <3>2 DEF JobOK
  <2> QED  BY <1>2, <2>1 DEF IInv, JobInv
<1>10. HandleInv'
    BY <1>2, <1>6 DEF IInv, HandleInv, Owned
<1>11. MsgInv'
  <2>1. ASSUME NEW x \in InRings
        PROVE  MsgOK(x)'
    <3>1. MsgOK(x) /\ Apart(m, x) /\ x \in Msgs
        BY <1>3
    <3>2. x.h = Null /\ x.from # Null => got'[x.from] = Null
      <4> SUFFICES ASSUME x.h = Null, x.from # Null
                   PROVE  got'[x.from] = Null
          OBVIOUS
      <4>1. x.from \in Callers /\ x.from # m.from /\ got[x.from] = Null
          BY <1>3, <3>1 DEF Apart, Msgs, MsgOK
      <4> QED  BY <1>7, <4>1
    <3>3. ASSUME x.h # Null, x.op = "create", NEW c \in Callers, Holds(c, x.h)
          PROVE  \/ pc[c] \in {"wait", "destroy", "dealloc"}
                 \/ pc[c] = "dealloc_wait" /\ got'[c] = Null
      <4>1. \/ pc[c] \in {"wait", "destroy", "dealloc"}
            \/ pc[c] = "dealloc_wait" /\ got[c] = Null
          BY <3>1, <3>3 DEF MsgOK
      <4>2. x.h \in Handles /\ hd[x.h].i = x.i
          BY <3>1, <3>3 DEF MsgOK, Msgs
      <4>3. job[c].i = x.i
          BY <3>3, <4>2 DEF IInv, HandleInv
      <4>4. ASSUME pc[c] = "dealloc_wait", got'[c] # got[c]
            PROVE  FALSE
        <5>1. m.op = "dealloc" /\ m.i = job[c].i
            BY <1>2, <1>7, <4>4
        <5> QED  BY <3>1, <3>3, <4>3, <5>1 DEF Apart
      <4> QED  BY <4>1, <4>4
    <3>4. x.h # Null /\ NumberOK(x) => NumberOK(x)'
        BY <1>1, <1>2, <1>3 DEF NumberOK
    <3> QED  BY <1>2, <1>6, <3>1, <3>2, <3>3, <3>4 DEF MsgOK
  <2>2. \A k \in DOMAIN cmds' : ~ cmds'[k].ack /\ cmds'[k].op # "stats"
      BY <1>2 DEF IInv, MsgInv
  <2>3. CurOK'
      BY <1>2 DEF CurOK
  <2> QED  BY <1>5, <2>1, <2>2, <2>3 DEF MsgInv
<1>12. \A c \in Callers, i \in IfNums : Has(c, i)' =>
            \/ Has(c, i)
            \/ c = m.from /\ Claims(m) /\ m.i = i
  <2> SUFFICES ASSUME NEW c \in Callers, NEW i \in IfNums, Has(c, i)', ~ Has(c, i)
               PROVE  c = m.from /\ Claims(m) /\ m.i = i
      OBVIOUS
  <2>1. pc[c] = "alloc_wait" /\ got'[c] # got[c] /\ got'[c].ack /\ got'[c].i = i
      BY <1>2 DEF Has
  <2> QED  BY <1>2, <1>7, <2>1 DEF Claims
<1>13. NumInv'
  <2>1. \A x \in InFlight : Touches(x) => /\ \A c \in Callers, i \in IfNums : Has(c, i) => x.i # i
                                          /\ \A h \in Handles : Owned(h) => hd[h].i # x.i
      BY DEF IInv, NumInv
  <2>2. ASSUME NEW i \in IfNums, NEW c \in Callers, Has(c, i)'
        PROVE  /\ i \in node'
               /\ \A d \in Callers : Has(d, i)' => c = d
               /\ \A h \in Handles : Owned(h)' => hd'[h].i # i
               /\ \A x \in InFlight' : Touches(x) => x.i # i
    <3>1. CASE Has(c, i)
      <4>1. ~ (Claims(m) /\ m.i = i)
          BY <1>3, <2>1, <3>1 DEF Touches
      <4> QED  BY <1>2, <1>3, <1>5, <1>12, <3>1, <4>1 DEF IInv, NumInv, Owned
    <3>2. CASE c = m.from /\ Claims(m) /\ m.i = i
      <4>1. Touches(m) /\ \A d \in Callers : ~ Has(d, i)
          BY <1>3, <2>1, <3>2 DEF Touches
      <4>2. \A d \in Callers : Has(d, i)' => c = d
          BY <1>12, <3>2, <4>1
      <4>3. \A x \in InFlight' : Touches(x) => x.i # i
          BY <1>3, <1>5, <3>2 DEF Apart
      <4>4. i \in node' /\ \A h \in Handles : Owned(h)' => hd'[h].i # i
          BY <1>2, <1>3, <2>1, <3>2, <4>1 DEF IInv, NumInv, Owned
      <4> QED  BY <4>2, <4>3, <4>4
    <3> QED  BY <1>12, <2>2, <3>1, <3>2
  <2>3. \A h \in Handles : Owned(h)' =>
            /\ hd'[h].i \in node'
            /\ \A k \in Handles : Owned(k)' /\ hd'[k].i = hd'[h].i => h = k
            /\ \A x \in InFlight' : Touches(x) => x.i # hd'[h].i
      BY <1>2, <1>3, <1>5 DEF IInv, NumInv, Owned
  <2>4. \A x \in InFlight' : Claims(x) => x.i \in node'
      BY <1>2, <1>3, <1>5 DEF IInv, NumInv
  <2> QED  BY <2>2, <2>3, <2>4 DEF NumInv
<1>14. RegInv'
    BY <1>2, <1>6 DEF IInv, RegInv, Owned, shared
<1>15. DevInv'
    BY <1>2 DEF IInv, DevInv, shared
<1>16. TableInv'
  <2>1. \A f, i : Entered(f, i)' <=> Entered(f, i)
      BY <1>2, <1>6 DEF Entered, shared
  <2>2. \A k : Kept(k)' <=> Kept(k)
      BY <1>2 DEF Kept, shared
  <2>3. \A c \in Callers : Enters(c)'
      BY <1>2, <2>2 DEF Enters, IInv, TableInv, shared
  <2> QED  BY <1>2, <2>1, <2>2, <2>3 DEF IInv, TableInv, Owned, Halfway
<1> QED  BY <1>5, <1>8, <1>9, <1>10, <1>11, <1>13, <1>14, <1>15, <1>16 DEF IInv

\* A callback that comes with a handle: no process has it, nor another message.
LEMMA WithHandle ==
    ASSUME IInv, NEW k \in Handles, cur # Null, cur.m.h = k,
           cur.m.op \in {"alloc", "dealloc"}
    PROVE  /\ hd[k].st = "live" /\ hd[k].owner = Null /\ hd[k].file = "virt_if"
           /\ cur.m.op = "alloc" => hd[k].i \in {Null, cur.m.i}
           /\ cur.m.op = "dealloc" => hd[k].i = cur.m.i
           /\ \A c \in Callers : ~ Holds(c, k)
           /\ \A x \in InRings : x.h # Null => x.h \in Handles \ {k}
<1>1. k # Null /\ MsgOK(cur.m)
    BY Present, NullAssumption
<1>2. \A x \in InRings : x.h # Null => x.h \in Handles \ {k}
    BY <1>1, Present DEF Apart, Msgs
<1> QED  BY <1>1, <1>2 DEF MsgOK, NumberOK

LEMMA CallbackHandles ==
    ASSUME IInv, NEW k \in Handles, cur # Null, cur.m.h = k,
           cur.m.op \in {"alloc", "dealloc"}, UNCHANGED << pc, job, got >>,
           \A x \in Handles \ {k} : hd'[x] = hd[x],
           hd'[k].st # "new",
           hd'[k].owner # Null => hd'[k].st = "live" /\ hd'[k].i \in IfNums
    PROVE  JobInv' /\ HandleInv'
<1>1. \A c : \A x : Holds(c, x)' <=> Holds(c, x)
    BY Standing
<1>2. /\ \A c \in Callers : ~ Holds(c, k)
      /\ \A x \in InRings : x.h # Null => x.h \in Handles \ {k}
    BY WithHandle
<1>3. JobInv'
    BY Standing DEF IInv
<1>4. HandleInv'
  <2>1. ASSUME NEW c \in Callers, NEW x \in Handles, Holds(c, x)'
        PROVE  /\ hd'[x].st = "live" /\ hd'[x].owner = Null
               /\ hd'[x].i = job'[c].i /\ hd'[x].file = job'[c].file
               /\ pc'[c] \in {"register", "create"} => hd'[x].done = "no"
    <3>1. Holds(c, x) /\ x # k
        BY <1>1, <1>2, <2>1
    <3> QED  BY <3>1 DEF IInv, HandleInv
  <2>2. \A c, d \in Callers, x \in Handles : Holds(c, x)' /\ Holds(d, x)' => c = d
      BY <1>1 DEF IInv, HandleInv
  <2>3. \A x \in Handles : hd'[x].st = "new" =>
            /\ hd'[x].file = "virt_if" /\ hd'[x].i = Null
            /\ hd'[x].owner = Null /\ hd'[x].done = "no"
      BY DEF IInv, HandleInv
  <2>4. \A x \in Handles : Owned(x)' => hd'[x].st = "live" /\ hd'[x].i \in IfNums
      BY DEF IInv, HandleInv, Owned
  <2> QED  BY <2>1, <2>2, <2>3, <2>4 DEF HandleInv
<1> QED  BY <1>3, <1>4

LEMMA CallbackStep ==
    ASSUME IInv, NEW k \in Handles, cur # Null, cur.m.h = k,
           cur.m.op \in {"alloc", "dealloc"}, cur' = Null, UNCHANGED << pc, job, got >>,
           \A x \in Handles \ {k} : hd'[x] = hd[x],
           hd'[k].st # "new",
           hd'[k].owner # Null => hd'[k].st = "live" /\ hd'[k].i \in IfNums,
           \A x \in InFlight' : x \in InRings \/ MsgOK(x)',
           \A n \in DOMAIN cmds' : ~ cmds'[n].ack /\ cmds'[n].op # "stats"
    PROVE  JobInv' /\ HandleInv' /\ MsgInv'
<1>1. \A x \in InRings : x.h # Null => x.h \in Handles \ {k}
    BY WithHandle
<1>2. MsgInv'
    BY <1>1, PollMsgs
<1> QED  BY <1>2, CallbackHandles

\* It may change the entry of the number that its message is about, which
\* belongs to no one else.
LEMMA CallbackTables ==
    ASSUME IInv, NEW k \in Handles, cur # Null, cur.m.h = k,
           cur.m.op \in {"alloc", "dealloc"}, cur' \in {Null, cur}, UNCHANGED << pc, job, got >>,
           \A x \in Handles \ {k} : hd'[x] = hd[x], evicted' = evicted,
           \A f \in Files, n \in IfNums :
                \/ table'[f][n] = table[f][n]
                \/ f = "virt_if" /\ n = cur.m.i /\ Touches(cur.m)
    PROVE  /\ \A c \in Callers : Enters(c)'
           /\ \A x \in Handles : Owned(x) => Kept(x)'
           /\ \A f \in Files, n \in IfNums :
                table'[f][n] = table[f][n] /\ table[f][n] # k => Entered(f, n)'
<1>1. \A c : /\ \A x : Holds(c, x)' <=> Holds(c, x)
             /\ \A x : Has(c, x)' <=> Has(c, x)
    BY Standing
<1>2. hd[k].owner = Null /\ \A c \in Callers : ~ Holds(c, k)
    BY WithHandle
<1>3. cur.m \in InFlight
    BY Present
<1>4. Touches(cur.m) => /\ \A c \in Callers : ~ (Has(c, cur.m.i) /\ cur.m.i \in IfNums)
                        /\ \A h \in Handles : Owned(h) => hd[h].i # cur.m.i
    BY <1>3 DEF IInv, NumInv
<1>5. ASSUME NEW c \in Callers
      PROVE  Enters(c)'
  <2> SUFFICES ASSUME pc[c] \in {"register", "create", "wait", "ndev", "hold"}
               PROVE  Enters(c)'
      BY DEF Enters
  <2>1. PICK h \in Handles, i \in IfNums, f \in Files :
            h = job[c].h /\ i = job[c].i /\ f = job[c].file
      BY CallerFacts DEF JobOK, Working, Having, Jobs
  <2>2. Holds(c, h) /\ Has(c, i)
      BY <2>1 DEF Holds, Has, Working, Having
  <2>3. h # k /\ hd[h].i = i /\ hd[h].file = f /\ hd'[h] = hd[h]
      BY <1>2, <2>1, <2>2 DEF IInv, HandleInv
  <2>4. table'[f][i] = table[f][i]
      BY <1>4, <2>2
  <2>5. Enters(c)
      BY DEF IInv, TableInv
  <2>6. Kept(h) => Kept(h)'
      BY <2>3, <2>4 DEF Kept
  <2> QED  BY <2>1, <2>3, <2>4, <2>5, <2>6 DEF Enters
<1>6. ASSUME NEW x \in Handles, Owned(x)
      PROVE  Kept(x)'
  <2>1. x # k /\ hd'[x] = hd[x] /\ hd[x].i \in IfNums /\ hd[x].file \in Files
      BY <1>2, <1>6 DEF Owned, IInv, HandleInv, TypeOK
  <2>2. table'[hd[x].file][hd[x].i] = table[hd[x].file][hd[x].i]
      BY <1>4, <1>6, <2>1
  <2>3. Kept(x)
      BY <1>6 DEF IInv, TableInv
  <2> QED  BY <2>1, <2>2, <2>3 DEF Kept
<1>7. ASSUME NEW f \in Files, NEW n \in IfNums, table'[f][n] = table[f][n], table[f][n] # k
      PROVE  Entered(f, n)'
  <2> SUFFICES ASSUME table[f][n] # Null
               PROVE  Entered(f, n)'
      BY <1>7 DEF Entered
  <2>0. table \in [Files -> [IfNums -> Handles \cup {Null}]]
      BY DEF IInv, TypeOK
  <2>1. PICK x \in Handles : x = table[f][n] /\ x # k
    <3>1. table[f][n] \in Handles \cup {Null}
        BY <2>0
    <3> QED  BY <1>7, <3>1
  <2>2. Entered(f, n)
      BY DEF IInv, TableInv
  <2>3. hd'[x] = hd[x] /\ pc' = pc /\ \A c : Holds(c, x)' <=> Holds(c, x)
      BY <1>1, <2>1
  <2> QED  BY <1>7, <2>1, <2>2, <2>3 DEF Entered
<1> QED  BY <1>5, <1>6, <1>7

\* The handle is no one's yet, or no one's any more.
LEMMA UnownedStep ==
    ASSUME IInv, NEW k \in Handles, hd[k].owner = Null, hd'[k].owner = Null,
           UNCHANGED << pc, job, ndev, refs >>,
           \A x \in Handles \ {k} : hd'[x] = hd[x]
    PROVE  DevInv' /\ \A x \in Handles : (Owned(x)' <=> Owned(x)) /\ (Owned(x) => hd'[x] = hd[x])
<1>1. \A x \in Handles : (Owned(x)' <=> Owned(x)) /\ (Owned(x) => hd'[x] = hd[x])
    BY DEF Owned
<1>2. \A x \in Handles : hd'[x].owner = hd[x].owner
    OBVIOUS
<1>3. \A e \in Callers : Uses(e)' = Uses(e) /\ Puts(e)' = Puts(e)
    BY <1>2 DEF Uses, Puts
<1>4. \A e \in Callers : refs'[e] = Cardinality(Uses(e)') + Cardinality(Puts(e)')
    BY <1>3, DevCounts DEF IInv
<1>5. ASSUME NEW i \in IfNums, ndev'[i] # Null
      PROVE  \/ \E h \in Handles : hd'[h].owner = ndev'[i] /\ hd'[h].i = i
             \/ pc'[ndev'[i]] = "hold" /\ job'[ndev'[i]].i = i
  <2>1. CASE \E h \in Handles : hd[h].owner = ndev[i] /\ hd[h].i = i
    <3>1. PICK h \in Handles : hd[h].owner = ndev[i] /\ hd[h].i = i
        BY <2>1
    <3>2. h # k
        BY <1>5, <3>1
    <3> QED  BY <3>1, <3>2
  <2>2. CASE pc[ndev[i]] = "hold" /\ job[ndev[i]].i = i
      BY <2>2
  <2> QED  BY <1>5, <2>1, <2>2 DEF IInv, DevInv
<1> QED  BY <1>1, <1>4, <1>5 DEF DevInv, Uses, Puts

LEMMA NumsLeft ==
    ASSUME NumInv, node' = node, InFlight' \subseteq InFlight,
           \A c, i : Has(c, i)' <=> Has(c, i),
           \A x \in Handles : (Owned(x)' <=> Owned(x)) /\ (Owned(x) => hd'[x] = hd[x])
    PROVE  NumInv'
    BY DEF NumInv

\* A handler that is set stays.
LEMMA HandlersKept ==
    ASSUME RegInv, JobInv, TypeOK, HandleInv, UNCHANGED << pc, job >>,
           \A n \in IfNums : handlers[n] # Null => handlers'[n] = handlers[n],
           \A c : Registered(c)' <=> Registered(c),
           \A x \in Handles : (Owned(x)' <=> Owned(x)) /\ (Owned(x) => hd'[x] = hd[x])
    PROVE  RegInv'
<1>1. \A f \in Files : f # Null
    BY NullAssumption
<1>2. ASSUME NEW c \in Callers, Registered(c)
      PROVE  job[c].i \in IfNums /\ job[c].file \in Files
    BY <1>2 DEF JobInv, JobOK, Registered, Having, Jobs
<1>3. \A h \in Handles : Owned(h) => hd[h].i \in IfNums /\ hd[h].file \in Files
    BY DEF HandleInv, TypeOK
<1>4. ASSUME NEW c \in Callers, Registered(c)'
      PROVE  /\ handlers'[job'[c].i] = job'[c].file
             /\ \A d \in Callers : Registered(d)' /\ job'[d].i = job'[c].i => c = d
             /\ \A h \in Handles : Owned(h)' => hd'[h].i # job'[c].i
  <2>1. handlers[job[c].i] = job[c].file /\ handlers[job[c].i] # Null
      BY <1>1, <1>2, <1>4 DEF RegInv
  <2> QED  BY <1>2, <1>4, <2>1 DEF RegInv
<1>5. ASSUME NEW h \in Handles, Owned(h)'
      PROVE  handlers'[hd'[h].i] = hd'[h].file
  <2>1. handlers[hd[h].i] = hd[h].file /\ handlers[hd[h].i] # Null
      BY <1>1, <1>3, <1>5 DEF RegInv
  <2> QED  BY <1>3, <1>5, <2>1
<1> QED  BY <1>4, <1>5 DEF RegInv

LEMMA CreateCbRefusedInv ==
    ASSUME IInv, CreateCbRefused
    PROVE  IInv'
<1>1. PICK k \in Handles : k = cur.h
    BY Present, NullAssumption DEF CreateCbRefused, CreateCallback
<1>2. /\ cur # Null /\ cur.m.op = "alloc" /\ cur.m.h = k /\ ~ cur.m.ack /\ cur' = Null
      /\ hd' = [hd EXCEPT ![k].st = "freed"]
      /\ UNCHANGED << shared, pc, job, got, cmds, replies, node >>
    BY <1>1 DEF CreateCbRefused, CreateCallback, Handled, IInv, MsgInv, CurOK
<1>3. /\ hd'[k] = [hd[k] EXCEPT !.st = "freed"]
      /\ \A x \in Handles \ {k} : hd'[x] = hd[x]
      /\ hd' \in [Handles -> [st : {"new", "live", "freed"}, file : Files,
                              i : IfNums \cup {Null}, owner : Callers \cup {Null},
                              done : {"no", "ACK", "NACK"}]]
  <2>1. hd \in [Handles -> [st : {"new", "live", "freed"}, file : Files,
                            i : IfNums \cup {Null}, owner : Callers \cup {Null},
                            done : {"no", "ACK", "NACK"}]]
      BY DEF IInv, TypeOK
  <2> QED  BY <1>2, <2>1
<1>4. /\ hd[k].i = Null /\ hd[k].owner = Null
      /\ hd'[k].owner = Null /\ hd'[k].st = "freed"
  <2>1. hd[k].i = Null /\ hd[k].owner = Null
    <3>1. cur.m.i = Null
        BY <1>2, Present DEF MsgOK, Msgs
    <3> QED  BY <1>2, <3>1, WithHandle
  <2> QED  BY <1>3, <2>1 DEF IInv, TypeOK
<1>5. PairInv' /\ InFlight' = InRings /\ InRings \subseteq InFlight
    BY <1>2, DropPairs DEF IInv, InFlight
<1>6. JobInv' /\ HandleInv' /\ MsgInv'
  <2>1. \A n \in DOMAIN cmds' : ~ cmds'[n].ack /\ cmds'[n].op # "stats"
      BY <1>2 DEF IInv, MsgInv
  <2> QED  BY <1>2, <1>3, <1>4, <1>5, <2>1, CallbackStep
<1>7. DevInv' /\ \A x \in Handles : (Owned(x)' <=> Owned(x)) /\ (Owned(x) => hd'[x] = hd[x])
    BY <1>2, <1>3, <1>4, UnownedStep DEF shared
<1>8. \A c : (\A i : Has(c, i)' <=> Has(c, i)) /\ (Registered(c)' <=> Registered(c))
    BY <1>2, Standing
<1>9. NumInv'
    BY <1>2, <1>5, <1>7, <1>8, NumsLeft DEF IInv
<1>10. RegInv'
    BY <1>2, <1>7, <1>8 DEF IInv, RegInv, shared
<1>11. TableInv'
  <2>1. \A f \in Files, n \in IfNums : table'[f][n] = table[f][n] /\ table[f][n] # k
      BY <1>2, <1>4, NullAssumption DEF IInv, TableInv, Entered, shared
  <2> QED  BY <1>2, <1>3, <1>7, <2>1, CallbackTables DEF TableInv, Halfway, shared
<1>12. TypeOK'
    BY <1>2, <1>3 DEF IInv, TypeOK, shared
<1> QED  BY <1>5, <1>6, <1>7, <1>9, <1>10, <1>11, <1>12 DEF IInv

LEMMA DestroyCbInv ==
    ASSUME IInv, DestroyCb
    PROVE  IInv'
<1>1. PICK k \in Handles : k = cur.h
    BY Present, NullAssumption DEF DestroyCb
<1>2. /\ cur # Null /\ cur.m.op = "dealloc" /\ cur.m.h = k /\ cur' = Null
      /\ UNCHANGED << used, evicted, handlers, ndev, refs, pc, job, got, cmds,
                      replies, node >>
    BY <1>1 DEF DestroyCb, Handled, IInv, MsgInv, CurOK
<1>3. PICK i \in IfNums : i = cur.m.i
    BY <1>2, Present DEF MsgOK
<1>4. /\ hd[k].st = "live" /\ hd[k].owner = Null /\ hd[k].file = "virt_if" /\ hd[k].i = i
    BY <1>2, <1>3, WithHandle
<1>5. \/ /\ table' = [table EXCEPT !["virt_if"][i] = Null]
         /\ hd' = [hd EXCEPT ![k].st = "freed"]
      \/ table' = table /\ hd' = hd
    BY <1>1, <1>4 DEF DestroyCb
<1>6. /\ hd'[k] = [hd[k] EXCEPT !.st = "freed"] \/ hd'[k] = hd[k]
      /\ \A x \in Handles \ {k} : hd'[x] = hd[x]
      /\ hd' \in [Handles -> [st : {"new", "live", "freed"}, file : Files,
                              i : IfNums \cup {Null}, owner : Callers \cup {Null},
                              done : {"no", "ACK", "NACK"}]]
  <2>1. hd \in [Handles -> [st : {"new", "live", "freed"}, file : Files,
                            i : IfNums \cup {Null}, owner : Callers \cup {Null},
                            done : {"no", "ACK", "NACK"}]]
      BY DEF IInv, TypeOK
  <2>2. CASE hd' = hd
      BY <2>1, <2>2
  <2>3. CASE hd' = [hd EXCEPT ![k].st = "freed"]
      BY <2>1, <2>3
  <2> QED  BY <1>5, <2>2, <2>3
<1>7. /\ hd'[k].owner = Null /\ hd'[k].st # "new"
      /\ hd'[k].file = hd[k].file /\ hd'[k].i = hd[k].i
    BY <1>4, <1>6 DEF IInv, TypeOK
<1>8. PairInv' /\ InFlight' = InRings /\ InRings \subseteq InFlight
    BY <1>2, DropPairs DEF IInv, InFlight
<1>9. JobInv' /\ HandleInv' /\ MsgInv'
  <2>1. \A n \in DOMAIN cmds' : ~ cmds'[n].ack /\ cmds'[n].op # "stats"
      BY <1>2 DEF IInv, MsgInv
  <2> QED  BY <1>2, <1>6, <1>7, <1>8, <2>1, CallbackStep
<1>10. DevInv' /\ \A x \in Handles : (Owned(x)' <=> Owned(x)) /\ (Owned(x) => hd'[x] = hd[x])
    BY <1>2, <1>4, <1>6, <1>7, UnownedStep
<1>11. \A c : (\A x : Has(c, x)' <=> Has(c, x)) /\ (Registered(c)' <=> Registered(c))
    BY <1>2, Standing
<1>12. NumInv'
    BY <1>2, <1>8, <1>10, <1>11, NumsLeft DEF IInv
<1>13. RegInv'
    BY <1>2, <1>10, <1>11 DEF IInv, RegInv
<1>14. /\ table' \in [Files -> [IfNums -> Handles \cup {Null}]]
       /\ \A f \in Files, n \in IfNums :
            \/ table'[f][n] = table[f][n] /\ ~ (f = "virt_if" /\ n = i /\ hd'[k] # hd[k])
            \/ f = "virt_if" /\ n = i /\ table'[f][n] = Null
  <2>1. table \in [Files -> [IfNums -> Handles \cup {Null}]]
      BY DEF IInv, TypeOK
  <2>2. CASE table' = table /\ hd' = hd
      BY <2>1, <2>2
  <2>3. CASE table' = [table EXCEPT !["virt_if"][i] = Null]
      BY <2>1, <2>3
  <2> QED  BY <1>5, <2>2, <2>3
<1>15. TableInv'
  <2>1. Touches(cur.m)
      BY <1>2 DEF Touches
  <2>2. /\ \A c \in Callers : Enters(c)'
        /\ \A x \in Handles : Owned(x) => Kept(x)'
        /\ \A f \in Files, n \in IfNums :
                table'[f][n] = table[f][n] /\ table[f][n] # k => Entered(f, n)'
    <3>1. \A f \in Files, n \in IfNums :
                \/ table'[f][n] = table[f][n]
                \/ f = "virt_if" /\ n = cur.m.i /\ Touches(cur.m)
        BY <1>3, <1>14, <2>1
    <3>2. cur.m.op \in {"alloc", "dealloc"}
        BY <1>2
    <3> QED  BY <1>2, <1>6, <3>1, <3>2, CallbackTables
  <2>3. ASSUME NEW f \in Files, NEW n \in IfNums
        PROVE  Entered(f, n)'
    <3>1. CASE table'[f][n] = Null
        BY <3>1 DEF Entered
    <3>2. CASE table'[f][n] # Null /\ table[f][n] # k
        BY <1>14, <2>2, <3>2
    <3>3. CASE table'[f][n] # Null /\ table[f][n] = k
      <4>1. Entered(f, n) /\ k # Null
          BY NullAssumption DEF IInv, TableInv
      <4>2. f = "virt_if" /\ n = i
          BY <1>4, <3>3, <4>1 DEF Entered
      <4>3. table'[f][n] = k /\ hd'[k] = hd[k]
          BY <1>14, <3>3, <4>2
      <4>4. "virt_if" # "wifi"
          OBVIOUS
      <4> QED  BY <1>4, <4>2, <4>3, <4>4 DEF Entered
    <3> QED  BY <3>1, <3>2, <3>3
  <2> QED  BY <1>2, <1>10, <2>2, <2>3 DEF TableInv, Halfway
<1>16. TypeOK'
    BY <1>2, <1>6, <1>14 DEF IInv, TypeOK
<1> QED  BY <1>8, <1>9, <1>10, <1>12, <1>13, <1>15, <1>16 DEF IInv

\* The allocated number comes with its handle, and belongs to no one else.
LEMMA NewNumber ==
    ASSUME IInv, NEW k \in Handles, NEW i \in IfNums, cur # Null, cur.m.h = k,
           cur.m.op = "alloc", cur.m.ack, cur.m.i = i
    PROVE  /\ i \in node /\ Touches(cur.m) /\ Claims(cur.m)
           /\ \A c \in Callers : ~ Has(c, i)
           /\ \A h \in Handles : Owned(h) => hd[h].i # i
           /\ \A x \in InRings : Touches(x) => x.i # i
           /\ hd[k].i = Null => \A f \in Files, n \in IfNums : table[f][n] # k
           /\ ndev[i] = Null
<1>1. cur.m \in InFlight /\ Touches(cur.m) /\ Claims(cur.m)
    BY Present DEF Touches, Claims
<1>2. /\ i \in node
      /\ \A c \in Callers : ~ Has(c, i)
      /\ \A h \in Handles : Owned(h) => hd[h].i # i
    BY <1>1 DEF IInv, NumInv
<1>3. \A x \in InRings : Touches(x) => x.i # i
    BY <1>1, Present DEF Apart
<1>4. hd[k].i = Null => \A f \in Files, n \in IfNums : table[f][n] # k
    BY NullAssumption DEF IInv, TableInv, Entered
<1>5. ndev[i] = Null
  <2> SUFFICES ASSUME ndev[i] # Null
               PROVE  FALSE
      OBVIOUS
  <2>1. PICK e \in Callers : e = ndev[i]
      BY DEF IInv, TypeOK
  <2>2. ~ \E h \in Handles : hd[h].owner = e /\ hd[h].i = i
      BY <1>2, <2>1, NullAssumption DEF Owned
  <2>3. ~ (pc[e] = "hold" /\ job[e].i = i)
      BY <1>2, <2>1 DEF Has, Having
  <2> QED  BY <2>1, <2>2, <2>3 DEF IInv, DevInv
<1> QED  BY <1>1, <1>2, <1>3, <1>4, <1>5

LEMMA CreateCbEntryInv ==
    ASSUME IInv, CreateCbEntry
    PROVE  IInv'
<1>1. PICK k \in Handles : k = cur.h
    BY Present, NullAssumption DEF CreateCbEntry, CreateCallback
<1>2. /\ cur # Null /\ cur.m.op = "alloc" /\ cur.m.h = k /\ cur.m.ack /\ hd[k].i = Null
      /\ UNCHANGED << used, evicted, handlers, ndev, refs, pc, job, got, nss >>
    BY <1>1 DEF CreateCbEntry, CreateCallback, IInv, MsgInv, CurOK
<1>3. PICK i \in IfNums : i = cur.m.i
    BY <1>2, Present DEF MsgOK
<1>4. table' = [table EXCEPT !["virt_if"][i] = k] /\ hd' = [hd EXCEPT ![k].i = i]
    BY <1>1, <1>3 DEF CreateCbEntry
<1>5. /\ hd[k].st = "live" /\ hd[k].owner = Null /\ hd[k].file = "virt_if"
      /\ \A c \in Callers : ~ Holds(c, k)
      /\ \A x \in InRings : x.h # Null => x.h \in Handles \ {k}
    BY <1>2, WithHandle
<1>6. Touches(cur.m) /\ \A f \in Files, n \in IfNums : table[f][n] # k
    BY <1>2, <1>3, NewNumber
<1>7. /\ hd'[k] = [hd[k] EXCEPT !.i = i]
      /\ \A x \in Handles \ {k} : hd'[x] = hd[x]
      /\ hd' \in [Handles -> [st : {"new", "live", "freed"}, file : Files,
                              i : IfNums \cup {Null}, owner : Callers \cup {Null},
                              done : {"no", "ACK", "NACK"}]]
  <2>1. hd \in [Handles -> [st : {"new", "live", "freed"}, file : Files,
                            i : IfNums \cup {Null}, owner : Callers \cup {Null},
                            done : {"no", "ACK", "NACK"}]]
      BY DEF IInv, TypeOK
  <2> QED  BY <1>4, <2>1
<1>8. /\ hd'[k].owner = Null /\ hd'[k].st = "live"
      /\ hd'[k].file = "virt_if" /\ hd'[k].i = i
    BY <1>5, <1>7 DEF IInv, TypeOK
<1>9. PairInv' /\ InFlight' = InFlight /\ cur' = cur /\ cmds' = cmds /\ node' = node
    BY <1>2, KeepPairs DEF IInv, nss
<1>10. \A c : /\ \A x : Holds(c, x)' <=> Holds(c, x)
              /\ \A x : Has(c, x)' <=> Has(c, x)
              /\ Registered(c)' <=> Registered(c)
    BY <1>2, Standing
<1>11. JobInv' /\ HandleInv'
    BY <1>2, <1>7, <1>8, CallbackHandles
<1>12. MsgInv'
  <2>1. ASSUME NEW x \in InFlight
        PROVE  MsgOK(x)'
    <3>1. MsgOK(x)
        BY DEF IInv, MsgInv
    <3>2. CASE x.h = k
      <4>1. x = cur.m
          BY <1>2, <1>5, <3>2, NullAssumption DEF InFlight
      <4>2. NumberOK(x)'
          BY <1>2, <1>3, <1>8, <1>9, <3>2, <4>1 DEF NumberOK
      <4> QED  BY <1>2, <1>5, <1>8, <1>10, <3>1, <3>2, <4>1, <4>2, NullAssumption DEF MsgOK
    <3>3. CASE x.h # k
      <4>1. x.h # Null => hd'[x.h] = hd[x.h]
          BY <1>7, <3>3, Carried
      <4>2. x.h # Null /\ NumberOK(x) => NumberOK(x)'
          BY <1>9, <4>1 DEF NumberOK
      <4> QED  BY <1>2, <1>10, <3>1, <4>1, <4>2 DEF MsgOK
    <3> QED  BY <3>2, <3>3
  <2>2. CurOK'
      BY <1>2, <1>9 DEF IInv, MsgInv, CurOK
  <2> QED  BY <1>9, <2>1, <2>2 DEF IInv, MsgInv
<1>13. DevInv' /\ \A x \in Handles : (Owned(x)' <=> Owned(x)) /\ (Owned(x) => hd'[x] = hd[x])
    BY <1>2, <1>5, <1>7, <1>8, UnownedStep
<1>14. NumInv'
    BY <1>9, <1>10, <1>13, NumsLeft DEF IInv
<1>15. RegInv'
    BY <1>2, <1>10, <1>13 DEF IInv, RegInv
<1>16. /\ table' \in [Files -> [IfNums -> Handles \cup {Null}]]
       /\ table'["virt_if"][i] = k
       /\ \A f \in Files, n \in IfNums :
            \/ table'[f][n] = table[f][n]
            \/ f = "virt_if" /\ n = i /\ table'[f][n] = k
  <2>1. table \in [Files -> [IfNums -> Handles \cup {Null}]] /\ "virt_if" \in Files
      BY DEF IInv, TypeOK, Files
  <2> QED  BY <1>4, <2>1
<1>17. TableInv'
  <2>1. /\ \A c \in Callers : Enters(c)'
        /\ \A x \in Handles : Owned(x) => Kept(x)'
        /\ \A f \in Files, n \in IfNums :
                table'[f][n] = table[f][n] /\ table[f][n] # k => Entered(f, n)'
    <3>1. \A f \in Files, n \in IfNums :
                \/ table'[f][n] = table[f][n]
                \/ f = "virt_if" /\ n = cur.m.i /\ Touches(cur.m)
        BY <1>3, <1>6, <1>16
    <3>2. cur.m.op \in {"alloc", "dealloc"}
        BY <1>2
    <3> QED  BY <1>2, <1>7, <1>9, <3>1, <3>2, CallbackTables
  <2>2. ASSUME NEW f \in Files, NEW n \in IfNums
        PROVE  Entered(f, n)'
    <3>1. CASE table'[f][n] = table[f][n]
        BY <1>6, <2>1, <3>1
    <3>2. CASE f = "virt_if" /\ n = i /\ table'[f][n] = k
      <4>1. "virt_if" # "wifi"
          OBVIOUS
      <4> QED  BY <1>8, <3>2, <4>1 DEF Entered
    <3> QED  BY <1>16, <3>1, <3>2
  <2>3. Kept(cur.h)'
      BY <1>1, <1>8, <1>9, <1>16 DEF Kept
  <2> QED  BY <1>13, <2>1, <2>2, <2>3 DEF TableInv
<1>18. TypeOK'
    BY <1>2, <1>7, <1>16 DEF IInv, TypeOK, nss
<1> QED  BY <1>9, <1>11, <1>12, <1>13, <1>14, <1>15, <1>17, <1>18 DEF IInv

\* Then the rest: the handle is in the table, or was evicted.
LEMMA Registering ==
    ASSUME IInv, CreateCallback, cur.m.ack, hd[cur.h].i # Null
    PROVE  Halfway /\ Kept(cur.h) /\ hd[cur.h].i = cur.m.i
<1>1. Halfway
  <2>1. cur.h \in Handles
      BY Present, NullAssumption DEF CreateCallback
  <2> QED  BY <2>1 DEF CreateCallback, Halfway
<1> QED  BY <1>1, Entering

LEMMA CreateCbFailsInv ==
    ASSUME IInv, CreateCbFails
    PROVE  IInv'
<1>1. PICK k \in Handles : k = cur.h
    BY Present, NullAssumption DEF CreateCbFails, CreateCallback
<1>2. /\ cur # Null /\ cur.m.op = "alloc" /\ cur.m.h = k /\ cur.m.ack /\ cur' = Null
      /\ UNCHANGED << used, evicted, hd, table, ndev, refs, pc, job, got, replies, node >>
    BY <1>1 DEF CreateCbFails, CreateCallback, Handled, IInv, MsgInv, CurOK
<1>3. PICK i \in IfNums : i = cur.m.i
    BY <1>2, Present DEF MsgOK
<1>4. PICK m \in Msgs : /\ m = Msg("dealloc", i, k, Null) /\ m.op = "dealloc" /\ m.i = i
                        /\ m.h = k /\ m.from = Null /\ ~ m.ack
    BY MsgTypes
<1>5. /\ handlers' = [handlers EXCEPT ![i] = IF Refused(i) THEN @ ELSE "virt_if"]
      /\ cmds' = Append(cmds, m) \/ cmds' = cmds
    BY <1>1, <1>3, <1>4 DEF CreateCbFails, Send
<1>6. /\ hd[k].st = "live" /\ hd[k].owner = Null /\ hd[k].file = "virt_if"
      /\ \A c \in Callers : ~ Holds(c, k)
      /\ \A x \in InRings : x.h # Null => x.h \in Handles \ {k}
    BY <1>2, WithHandle
<1>7. /\ i \in node /\ Touches(cur.m) /\ Claims(cur.m)
      /\ \A c \in Callers : ~ Has(c, i)
      /\ \A h \in Handles : Owned(h) => hd[h].i # i
      /\ \A x \in InRings : Touches(x) => x.i # i
    BY <1>2, <1>3, NewNumber
<1>8. hd[k].i = i
    BY <1>1, <1>3, Registering DEF CreateCbFails
<1>10. /\ PairInv'
       /\ \A x \in InFlight' : x \in InRings \/ x = m
       /\ cmds' \in Seq(Msgs)
       /\ \A n \in DOMAIN cmds' : ~ cmds'[n].ack /\ cmds'[n].op # "stats"
  <2>1. /\ cmds \in Seq(Msgs)
        /\ \A n \in DOMAIN cmds : ~ cmds[n].ack /\ cmds[n].op # "stats"
      BY DEF IInv, TypeOK, MsgInv
  <2>2. CASE cmds' = cmds
      BY <1>2, <2>1, <2>2, DropPairs DEF IInv
  <2>3. CASE cmds' = Append(cmds, m)
    <3>1. \A x \in InRings : Apart(x, m)
        BY <1>4, <1>6, <1>7, NullAssumption DEF Apart, Claims, Touches
    <3>2. /\ PairInv' /\ InRings' = InRings \cup {m}
          /\ \A n \in DOMAIN cmds' : cmds'[n] = m \/ \E j \in DOMAIN cmds : cmds'[n] = cmds[j]
        BY <1>2, <2>3, <3>1, SendPairs DEF IInv
    <3>3. \A x \in InFlight' : x \in InRings \/ x = m
        BY <1>2, <3>2 DEF InFlight
    <3> QED  BY <1>4, <2>1, <2>3, <3>2, <3>3
  <2> QED  BY <1>5, <2>2, <2>3
<1>11. \A c : /\ \A x : Holds(c, x)' <=> Holds(c, x)
              /\ \A x : Has(c, x)' <=> Has(c, x)
              /\ Registered(c)' <=> Registered(c)
    BY <1>2, Standing
<1>12. JobInv' /\ HandleInv' /\ MsgInv'
  <2>1. MsgOK(m)'
      BY <1>2, <1>4, <1>6, <1>8, <1>11, NullAssumption DEF MsgOK
  <2>2. \A x \in InFlight' : x \in InRings \/ MsgOK(x)'
      BY <1>10, <2>1
  <2>3. hd'[k].st # "new" /\ cur.m.op \in {"alloc", "dealloc"}
      BY <1>2, <1>6
  <2>4. \A x \in Handles \ {k} : hd'[x] = hd[x]
      BY <1>2
  <2>5. ~ (hd'[k].owner # Null)
      BY <1>2, <1>6
  <2> QED  BY <1>2, <1>10, <2>4, <2>5, <2>2, <2>3, CallbackStep
<1>13. DevInv' /\ \A x \in Handles : (Owned(x)' <=> Owned(x)) /\ (Owned(x) => hd'[x] = hd[x])
    BY <1>2, <1>6, UnownedStep
<1>14. NumInv'
  <2>1. \A x \in InFlight' : Touches(x) =>
            \/ x \in InRings /\ x \in InFlight /\ x.i # i
            \/ x.i = i
      BY <1>4, <1>7, <1>10 DEF InFlight
  <2>2. \A c \in Callers, n \in IfNums : Has(c, n)' => Has(c, n) /\ n # i
      BY <1>7, <1>11
  <2>3. \A h \in Handles : Owned(h)' => Owned(h) /\ hd'[h] = hd[h] /\ hd[h].i # i
      BY <1>7, <1>13
  <2>4. ASSUME NEW n \in IfNums, NEW c \in Callers, Has(c, n)'
        PROVE  /\ n \in node'
               /\ \A d \in Callers : Has(d, n)' => c = d
               /\ \A h \in Handles : Owned(h)' => hd'[h].i # n
               /\ \A x \in InFlight' : Touches(x) => x.i # n
      BY <1>2, <2>1, <2>2, <2>3, <2>4 DEF IInv, NumInv
  <2>5. ASSUME NEW h \in Handles, Owned(h)'
        PROVE  /\ hd'[h].i \in node'
               /\ \A x \in Handles : Owned(x)' /\ hd'[x].i = hd'[h].i => h = x
               /\ \A x \in InFlight' : Touches(x) => x.i # hd'[h].i
      BY <1>2, <2>1, <2>3, <2>5 DEF IInv, NumInv
  <2>6. \A x \in InFlight' : Claims(x) => x.i \in node'
      BY <1>2, <1>7, <2>1 DEF IInv, NumInv, Touches
  <2> QED  BY <2>4, <2>5, <2>6 DEF NumInv
<1>15. /\ handlers' \in [IfNums -> Files \cup {Null}]
       /\ \A n \in IfNums : handlers[n] # Null => handlers'[n] = handlers[n]
  <2>1. handlers \in [IfNums -> Files \cup {Null}]
      BY DEF IInv, TypeOK
  <2>2. "virt_if" \in Files
      BY DEF Files
  <2> QED  BY <1>5, <2>1, <2>2 DEF Refused
<1>16. RegInv'
    BY <1>2, <1>11, <1>13, <1>15, HandlersKept DEF IInv
<1>17. TableInv'
  <2>1. \A c \in Callers : Enters(c)'
    <3>1. \A f \in Files, n \in IfNums :
                \/ table'[f][n] = table[f][n]
                \/ f = "virt_if" /\ n = cur.m.i /\ Touches(cur.m)
        BY <1>2
    <3>2. cur.m.op \in {"alloc", "dealloc"} /\ \A x \in Handles \ {k} : hd'[x] = hd[x]
        BY <1>2
    <3> QED  BY <1>2, <3>1, <3>2, CallbackTables
  <2>2. \A f, n : Entered(f, n)' <=> Entered(f, n)
      BY <1>2, <1>11 DEF Entered
  <2>3. \A x : Kept(x)' <=> Kept(x)
      BY <1>2 DEF Kept
  <2> QED  BY <1>2, <1>13, <2>1, <2>2, <2>3 DEF IInv, TableInv, Halfway
<1>18. TypeOK'
  <2>1. replies' \in Seq(Msgs)
      BY <1>2 DEF IInv, TypeOK
  <2> QED  BY <1>2, <1>10, <1>15, <2>1 DEF IInv, TypeOK
<1> QED  BY <1>10, <1>12, <1>13, <1>14, <1>16, <1>17, <1>18 DEF IInv

LEMMA CreateCbInv ==
    ASSUME IInv, CreateCb
    PROVE  IInv'
<1>1. PICK k \in Handles, c \in Callers : k = cur.h /\ c = cur.m.from
  <2>1. /\ cur # Null /\ cur.m.op = "alloc" /\ cur.h # Null /\ cur.h = cur.m.h
      BY DEF CreateCb, CreateCallback, IInv, MsgInv, CurOK
  <2> QED  BY <2>1, Present, NullAssumption DEF MsgOK
<1>2. /\ cur # Null /\ cur.m.op = "alloc" /\ cur.m.h = k /\ cur.m.ack /\ cur' = Null
      /\ UNCHANGED << used, evicted, table, pc, job, got, replies, node >>
    BY <1>1 DEF CreateCb, CreateCallback, Handled, IInv, MsgInv, CurOK
<1>3. PICK i \in IfNums : i = cur.m.i
    BY <1>2, Present DEF MsgOK
<1>4. PICK m \in Msgs : /\ m = Msg("create", i, Null, Null) /\ m.op = "create" /\ m.i = i
                        /\ m.h = Null /\ m.from = Null /\ ~ m.ack
    BY MsgTypes
<1>5. /\ handlers[i] = Null /\ handlers' = [handlers EXCEPT ![i] = "virt_if"]
      /\ hd' = [hd EXCEPT ![k].owner = c]
      /\ cmds' = Append(cmds, m)
      /\ ndev' = [ndev EXCEPT ![i] = IF @ = Null THEN c ELSE @]
      /\ refs' = [refs EXCEPT ![c] = @ + 1]
    BY <1>1, <1>3, <1>4 DEF CreateCb, Send, Refused
<1>6. /\ hd[k].st = "live" /\ hd[k].owner = Null /\ hd[k].file = "virt_if"
      /\ \A d \in Callers : ~ Holds(d, k)
      /\ \A x \in InRings : x.h # Null => x.h \in Handles \ {k}
    BY <1>2, WithHandle
<1>7. /\ i \in node /\ Touches(cur.m) /\ Claims(cur.m)
      /\ \A d \in Callers : ~ Has(d, i)
      /\ \A h \in Handles : Owned(h) => hd[h].i # i
      /\ \A x \in InRings : Touches(x) => x.i # i
      /\ ndev[i] = Null
      /\ Kept(k) /\ hd[k].i = i
    BY <1>1, <1>2, <1>3, NewNumber, Registering DEF CreateCb
<1>8. /\ hd'[k] = [hd[k] EXCEPT !.owner = c]
      /\ \A x \in Handles \ {k} : hd'[x] = hd[x]
      /\ hd' \in [Handles -> [st : {"new", "live", "freed"}, file : Files,
                              i : IfNums \cup {Null}, owner : Callers \cup {Null},
                              done : {"no", "ACK", "NACK"}]]
  <2>1. hd \in [Handles -> [st : {"new", "live", "freed"}, file : Files,
                            i : IfNums \cup {Null}, owner : Callers \cup {Null},
                            done : {"no", "ACK", "NACK"}]]
      BY DEF IInv, TypeOK
  <2> QED  BY <1>5, <2>1, SMTT(40)
<1>9. /\ hd'[k].owner = c /\ hd'[k].st = "live"
      /\ hd'[k].file = "virt_if" /\ hd'[k].i = i /\ c # Null
    BY <1>6, <1>7, <1>8, NullAssumption DEF IInv, TypeOK
<1>10. /\ PairInv'
       /\ \A x \in InFlight' : x \in InRings \/ x = m
       /\ cmds' \in Seq(Msgs)
       /\ \A n \in DOMAIN cmds' : ~ cmds'[n].ack /\ cmds'[n].op # "stats"
  <2>1. /\ cmds \in Seq(Msgs)
        /\ \A n \in DOMAIN cmds : ~ cmds[n].ack /\ cmds[n].op # "stats"
      BY DEF IInv, TypeOK, MsgInv
  <2>2. \A x \in InRings : Apart(x, m)
      BY <1>4, <1>6, NullAssumption DEF Apart, Claims, Touches
  <2>3. /\ PairInv' /\ InRings' = InRings \cup {m}
        /\ \A n \in DOMAIN cmds' : cmds'[n] = m \/ \E j \in DOMAIN cmds : cmds'[n] = cmds[j]
      BY <1>2, <1>5, <2>2, SendPairs DEF IInv
  <2>4. \A x \in InFlight' : x \in InRings \/ x = m
      BY <1>2, <2>3 DEF InFlight
  <2>5. cmds' \in Seq(Msgs)
      BY <1>5, <2>1
  <2> QED  BY <1>4, <2>1, <2>3, <2>4, <2>5
<1>11. \A d : /\ \A x : Holds(d, x)' <=> Holds(d, x)
              /\ \A x : Has(d, x)' <=> Has(d, x)
              /\ Registered(d)' <=> Registered(d)
    BY <1>2, Standing
<1>12. JobInv' /\ HandleInv' /\ MsgInv'
  <2>1. MsgOK(m)'
      BY <1>4 DEF MsgOK
  <2>2. \A x \in InFlight' : x \in InRings \/ MsgOK(x)'
      BY <1>10, <2>1
  <2>3. hd'[k].st # "new" /\ cur.m.op \in {"alloc", "dealloc"}
      BY <1>2, <1>9
  <2> QED  BY <1>2, <1>8, <1>9, <1>10, <2>2, <2>3, CallbackStep
<1>13. \A x \in Handles : /\ Owned(x)' <=> Owned(x) \/ x = k
                          /\ Owned(x) => hd'[x] = hd[x] /\ x # k
    BY <1>6, <1>8, <1>9 DEF Owned
<1>14. NumInv'
  <2>1. \A x \in InFlight' : Touches(x) => x \in InRings /\ x \in InFlight /\ x.i # i
      BY <1>4, <1>7, <1>10 DEF InFlight, Touches, Claims
  <2>2. \A d \in Callers, n \in IfNums : Has(d, n)' => Has(d, n) /\ n # i
      BY <1>7, <1>11
  <2>3. \A h \in Handles : Owned(h)' => \/ h = k /\ hd'[h].i = i
                                        \/ Owned(h) /\ hd'[h].i = hd[h].i /\ hd[h].i # i
      BY <1>7, <1>9, <1>13
  <2>4. ASSUME NEW n \in IfNums, NEW d \in Callers, Has(d, n)'
        PROVE  /\ n \in node'
               /\ \A e \in Callers : Has(e, n)' => d = e
               /\ \A h \in Handles : Owned(h)' => hd'[h].i # n
               /\ \A x \in InFlight' : Touches(x) => x.i # n
      BY <1>2, <2>1, <2>2, <2>3, <2>4 DEF IInv, NumInv
  <2>5. ASSUME NEW h \in Handles, Owned(h)'
        PROVE  /\ hd'[h].i \in node'
               /\ \A x \in Handles : Owned(x)' /\ hd'[x].i = hd'[h].i => h = x
               /\ \A x \in InFlight' : Touches(x) => x.i # hd'[h].i
    <3>1. CASE h = k
        BY <1>2, <1>7, <1>9, <2>1, <2>3, <3>1
    <3>2. CASE h # k
        BY <1>2, <2>1, <2>3, <2>5, <3>2 DEF IInv, NumInv
    <3> QED  BY <3>1, <3>2
  <2>6. \A x \in InFlight' : Claims(x) => x.i \in node'
      BY <1>2, <2>1 DEF IInv, NumInv, Touches
  <2> QED  BY <2>4, <2>5, <2>6 DEF NumInv
<1>15. /\ handlers' \in [IfNums -> Files \cup {Null}] /\ handlers'[i] = "virt_if"
       /\ \A n \in IfNums : n # i => handlers'[n] = handlers[n]
  <2>1. handlers \in [IfNums -> Files \cup {Null}]
      BY DEF IInv, TypeOK
  <2>2. "virt_if" \in Files
      BY DEF Files
  <2> QED  BY <1>5, <2>1, <2>2
<1>16. RegInv'
  <2>1. \A f \in Files : f # Null
      BY NullAssumption
  <2>2. ASSUME NEW d \in Callers, Registered(d)'
        PROVE  /\ handlers'[job'[d].i] = job'[d].file
               /\ \A e \in Callers : Registered(e)' /\ job'[e].i = job'[d].i => d = e
               /\ \A h \in Handles : Owned(h)' => hd'[h].i # job'[d].i
    <3>1. Registered(d) /\ job[d].i \in IfNums /\ job[d].file \in Files
        BY <1>11, <2>2 DEF IInv, JobInv, JobOK, Registered, Having, Jobs
    <3>2. job[d].i # i
        BY <1>5, <2>1, <3>1 DEF IInv, RegInv
    <3>3. handlers'[job'[d].i] = job'[d].file
        BY <1>2, <1>15, <3>1, <3>2 DEF IInv, RegInv
    <3>4. \A e \in Callers : Registered(e)' /\ job'[e].i = job'[d].i => d = e
        BY <1>2, <1>11, <3>1 DEF IInv, RegInv
    <3>5. \A h \in Handles : Owned(h)' => hd'[h].i # job'[d].i
        BY <1>2, <1>9, <1>13, <3>1, <3>2 DEF IInv, RegInv
    <3> QED  BY <3>3, <3>4, <3>5
  <2>3. ASSUME NEW h \in Handles, Owned(h)'
        PROVE  handlers'[hd'[h].i] = hd'[h].file
    <3>1. CASE h = k
        BY <1>9, <1>15, <3>1
    <3>2. CASE h # k
      <4>1. Owned(h) /\ hd'[h] = hd[h] /\ hd[h].i # i /\ hd[h].i \in IfNums
          BY <1>7, <1>13, <2>3, <3>2 DEF IInv, HandleInv
      <4> QED  BY <1>15, <4>1 DEF IInv, RegInv
    <3> QED  BY <3>1, <3>2
  <2> QED  BY <2>2, <2>3 DEF RegInv
<1>17. TableInv'
  <2>1. /\ \A d \in Callers : Enters(d)'
        /\ \A x \in Handles : Owned(x) => Kept(x)'
        /\ \A f \in Files, n \in IfNums :
                table'[f][n] = table[f][n] /\ table[f][n] # k => Entered(f, n)'
    <3>1. \A f \in Files, n \in IfNums :
                \/ table'[f][n] = table[f][n]
                \/ f = "virt_if" /\ n = cur.m.i /\ Touches(cur.m)
        BY <1>2
    <3>2. cur.m.op \in {"alloc", "dealloc"}
        BY <1>2
    <3> QED  BY <1>2, <1>8, <3>1, <3>2, CallbackTables
  <2>2. ASSUME NEW f \in Files, NEW n \in IfNums
        PROVE  Entered(f, n)'
    <3>1. CASE table[f][n] # k
        BY <1>2, <2>1, <3>1
    <3>2. CASE table[f][n] = k
      <4>1. hd[k].file = f /\ hd[k].i = n
          BY <3>2, NullAssumption DEF IInv, TableInv, Entered
      <4>2. f # "wifi"
          BY <1>6, <4>1
      <4> QED  BY <1>2, <1>6, <1>7, <1>9, <3>2, <4>1, <4>2 DEF Entered
    <3> QED  BY <3>1, <3>2
  <2>3. Kept(k)'
      BY <1>2, <1>6, <1>7, <1>9 DEF Kept
  <2> QED  BY <1>2, <1>13, <2>1, <2>2, <2>3 DEF TableInv, Halfway
<1>18. /\ ndev' \in [IfNums -> Callers \cup {Null}] /\ refs' \in [Callers -> Nat]
       /\ ndev'[i] = c /\ \A n \in IfNums : n # i => ndev'[n] = ndev[n]
       /\ refs'[c] = refs[c] + 1 /\ \A e \in Callers : e # c => refs'[e] = refs[e]
  <2>1. ndev \in [IfNums -> Callers \cup {Null}] /\ refs \in [Callers -> Nat]
      BY DEF IInv, TypeOK
  <2> QED  BY <1>5, <1>7, <2>1
<1>19. DevInv'
  <2>1. ASSUME NEW n \in IfNums, ndev'[n] # Null
        PROVE  \/ \E h \in Handles : hd'[h].owner = ndev'[n] /\ hd'[h].i = n
               \/ pc'[ndev'[n]] = "hold" /\ job'[ndev'[n]].i = n
    <3>1. CASE n = i
        BY <1>9, <1>18, <3>1
    <3>2. CASE n # i
      <4>1. ndev'[n] = ndev[n] /\ ndev[n] # Null
          BY <1>18, <2>1, <3>2
      <4>2. ASSUME NEW h \in Handles, hd[h].owner = ndev[n], hd[h].i = n
            PROVE  hd'[h].owner = ndev[n] /\ hd'[h].i = n
          BY <1>6, <1>8, <4>1, <4>2
      <4> QED  BY <1>2, <4>1, <4>2 DEF IInv, DevInv
    <3> QED  BY <3>1, <3>2
  <2>2. \A e \in Callers : Puts(e)' = Puts(e)
      BY <1>2 DEF Puts
  <2>3. \A e \in Callers, h \in Handles :
            hd'[h].owner = e <=> hd[h].owner = e \/ (h = k /\ e = c)
    <3> SUFFICES ASSUME NEW e \in Callers, NEW h \in Handles
                 PROVE  hd'[h].owner = e <=> hd[h].owner = e \/ (h = k /\ e = c)
        OBVIOUS
    <3>1. CASE h = k
        BY <1>6, <1>9, <3>1, NullAssumption
    <3>2. CASE h # k
        BY <1>8, <3>2
    <3> QED  BY <3>1, <3>2
  <2>4. /\ \A e \in Callers : e # c => Uses(e)' = Uses(e)
        /\ Uses(c)' = Uses(c) \cup {k} /\ k \notin Uses(c)
    <3>1. \A e \in Callers : e # c => Uses(e)' = Uses(e)
        BY <2>3 DEF Uses
    <3>2. Uses(c)' = Uses(c) \cup {k}
        BY <2>3 DEF Uses
    <3>3. k \notin Uses(c)
        BY <1>6, <1>9 DEF Uses
    <3> QED  BY <3>1, <3>2, <3>3
  <2>5. Cardinality(Uses(c)') = Cardinality(Uses(c)) + 1
      BY <2>4, OneMore, Counts, FiniteAssumption
  <2>6. \A e \in Callers : refs'[e] = Cardinality(Uses(e)') + Cardinality(Puts(e)')
    <3> SUFFICES ASSUME NEW e \in Callers
                 PROVE  refs'[e] = Cardinality(Uses(e)') + Cardinality(Puts(e)')
        OBVIOUS
    <3>1. refs[e] = Cardinality(Uses(e)) + Cardinality(Puts(e))
        BY DevCounts DEF IInv
    <3>2. Cardinality(Uses(e)) \in Nat /\ Cardinality(Puts(e)) \in Nat
        BY Counts
    <3>3. CASE e = c
        BY <1>18, <2>2, <2>5, <3>1, <3>2, <3>3
    <3>4. CASE e # c
        BY <1>18, <2>2, <2>4, <3>1, <3>4
    <3> QED  BY <3>3, <3>4
  <2> QED  BY <2>1, <2>6 DEF DevInv, Uses, Puts
<1>20. TypeOK'
  <2>1. replies' \in Seq(Msgs)
      BY <1>2 DEF IInv, TypeOK
  <2> QED  BY <1>2, <1>8, <1>10, <1>15, <1>18, <2>1 DEF IInv, TypeOK
<1> QED  BY <1>10, <1>12, <1>14, <1>16, <1>17, <1>19, <1>20 DEF IInv

(***************************************************************************)
(* The invariant holds.                                                    *)
(***************************************************************************)

LEMMA InitInv == Init => IInv
<1> SUFFICES ASSUME Init PROVE IInv
    OBVIOUS
<1> USE DEF Init
<1>1. \A h \in Handles : hd[h] = [st |-> "new", file |-> "virt_if", i |-> Null,
                                  owner |-> Null, done |-> "no"]
    OBVIOUS
<1>2. /\ \A c, h : pc[c] = "idle" => ~ Holds(c, h)
      /\ \A c, i : pc[c] = "idle" => ~ Has(c, i)
      /\ \A c : pc[c] = "idle" => ~ Registered(c) /\ Enters(c)
      /\ \A c \in Callers : pc[c] = "idle"
      /\ \A h \in Handles : ~ Owned(h)
    BY <1>1 DEF Holds, Has, Registered, Enters, Working, Having, Owned
<1>3. TypeOK
  <2>1. "virt_if" \in Files /\ used \subseteq Files
      BY UsedAssumption DEF Files
  <2>2. << >> \in Seq(Msgs)
      OBVIOUS
  <2> QED  BY <2>1, <2>2 DEF TypeOK
<1>4. JobInv
    BY NoJobType DEF JobInv, JobOK, Working, Having
<1>5. HandleInv
    BY <1>1, <1>2 DEF HandleInv
<1>6. /\ DOMAIN cmds = {} /\ DOMAIN replies = {} /\ InFlight = {}
    BY DEF InFlight, InRings
<1>7. MsgInv /\ PairInv
    BY <1>6 DEF MsgInv, CurOK, PairInv
<1>8. NumInv /\ RegInv
    BY <1>2, <1>6 DEF NumInv, RegInv
<1>9. TableInv
    BY <1>2 DEF TableInv, Entered, Halfway
<1>10. DevInv
  <2>1. \A e \in Callers : Uses(e) = {} /\ Puts(e) = {}
      BY <1>1, <1>2, NullAssumption DEF Uses, Puts
  <2>2. Cardinality({}) = 0
      BY FS_EmptySet
  <2>3. \A e \in Callers : refs[e] = Cardinality(Uses(e)) + Cardinality(Puts(e))
    <3> SUFFICES ASSUME NEW e \in Callers
                 PROVE  refs[e] = Cardinality(Uses(e)) + Cardinality(Puts(e))
        OBVIOUS
    <3>1. refs[e] = 0
        OBVIOUS
    <3>2. Cardinality(Uses(e)) = 0 /\ Cardinality(Puts(e)) = 0
        BY <2>1, <2>2
    <3> QED  BY <3>1, <3>2
  <2> QED  BY <2>3, DevCounts
<1> QED  BY <1>3, <1>4, <1>5, <1>7, <1>8, <1>9, <1>10 DEF IInv

LEMMA CallerStepInv ==
    ASSUME IInv, NEW c \in Callers, CallerStep(c)
    PROVE  IInv'
<1>1. CASE \E op \in {"alloc", "dealloc"} : Request(c, op)
    BY <1>1, RequestInv
<1>2. CASE (\E op \in {"alloc", "dealloc"} : RequestFails(c, op)) \/ DestroyAsyncFails(c)
    BY <1>2, FailsInv
<1>3. CASE RequestTimesOut(c)
    BY <1>3, TimesOutInv
<1>4. CASE Allocated(c)
    BY <1>4, AllocatedInv
<1>5. CASE Deallocated(c)
    BY <1>5, DeallocatedInv
<1>6. CASE \E h \in Handles : NewHandle(c, h)
    BY <1>6, NewHandleInv
<1>7. CASE NoHandle(c)
    BY <1>7, NoHandleInv
<1>8. CASE Register(c)
    BY <1>8, RegisterInv
<1>9. CASE SendCreate(c)
    BY <1>9, SendCreateInv
<1>10. CASE CreateFails(c) \/ Created(c)
    BY <1>10, CreatedInv
<1>11. CASE SetNdev(c)
    BY <1>11, SetNdevInv
<1>12. CASE Hold(c)
    BY <1>12, HoldInv
<1>13. CASE Put(c)
    BY <1>13, PutInv
<1>14. CASE HandleDestroy(c)
    BY <1>14, HandleDestroyInv
<1>15. CASE Free(c)
    BY <1>15, FreeInv
<1>16. CASE Unregister(c)
    BY <1>16, UnregisterInv
<1>17. CASE DestroyAsync(c)
    BY <1>17, DestroyAsyncInv
<1> QED  BY <1>1, <1>2, <1>3, <1>4, <1>5, <1>6, <1>7, <1>8, <1>9, <1>10, <1>11,
            <1>12, <1>13, <1>14, <1>15, <1>16, <1>17 DEF CallerStep

LEMMA NextInv == IInv /\ [Next]_vars => IInv'
<1> SUFFICES ASSUME IInv, [Next]_vars PROVE IInv'
    OBVIOUS
<1>1. ASSUME NEW c \in Callers,
             \/ nss_virt_if_create_sync(c) \/ nss_create_virt_if(c)
             \/ nss_wifi_if_create(c)
      PROVE  IInv'
    BY <1>1, CreateInv
       DEF nss_virt_if_create_sync, nss_create_virt_if, nss_wifi_if_create, Files
<1>2. ASSUME NEW c \in Callers, NEW h \in Handles, nss_virt_if_create(c, h)
      PROVE  IInv'
    BY <1>2, CreateAsyncInv
<1>3. ASSUME NEW c \in Callers, NEW h \in Handles,
             \/ nss_virt_if_register(c, h) \/ nss_virt_if_unregister(c, h)
             \/ nss_register_virt_if(c, h) \/ nss_unregister_virt_if(c, h)
             \/ nss_wifi_if_register(c, h) \/ nss_wifi_if_unregister(c, h)
      PROVE  IInv'
    BY <1>3, SetUserNdevInv
       DEF nss_virt_if_register, nss_virt_if_unregister, nss_register_virt_if,
           nss_unregister_virt_if, nss_wifi_if_register, nss_wifi_if_unregister, Files
<1>4. ASSUME NEW c \in Callers, NEW h \in Handles,
             \/ nss_virt_if_destroy_sync(c, h) \/ nss_virt_if_destroy(c, h)
             \/ nss_destroy_virt_if(c, h) \/ nss_wifi_if_destroy(c, h)
      PROVE  IInv'
    BY <1>4, DestroyInv
       DEF nss_virt_if_destroy_sync, nss_virt_if_destroy, nss_destroy_virt_if,
           nss_wifi_if_destroy, Files
<1>5. CASE \E c \in Callers : CallerStep(c)
    BY <1>5, CallerStepInv
<1>6. CASE Firmware \/ \E i \in IfNums : FirmwareStats(i)
    BY <1>6, FirmwareInv, FirmwareStatsInv
<1>7. CASE Poll
    BY <1>7, ReceiveInv, MsgHandlerInv, DynamicCallbackInv, CreateCbRefusedInv,
       CreateCbEntryInv, CreateCbInv, CreateCbFailsInv, DestroyCbInv DEF Poll
<1>8. CASE UNCHANGED vars
  <2>1. UNCHANGED << hd, shared, pc, job, got, cur, cmds, replies, node >>
      BY <1>8 DEF vars, shared
  <2>2. /\ JobInv' /\ HandleInv' /\ RegInv' /\ TableInv' /\ DevInv' /\ CurOK'
        /\ \A m : MsgOK(m)' <=> MsgOK(m)
        /\ \A c, i : Has(c, i)' <=> Has(c, i)
        /\ \A h : Owned(h)' <=> Owned(h)
      BY <2>1, Elsewhere
  <2>3. PairInv' /\ InFlight' = InFlight
      BY <2>1, KeepPairs DEF IInv
  <2>4. MsgInv'
      BY <2>1, <2>2, <2>3 DEF IInv, MsgInv
  <2>5. NumInv'
      BY <2>1, <2>2, <2>3 DEF IInv, NumInv
  <2>6. TypeOK'
      BY <2>1 DEF IInv, TypeOK, shared
  <2> QED  BY <2>2, <2>3, <2>4, <2>5, <2>6 DEF IInv
<1> QED  BY <1>1, <1>2, <1>3, <1>4, <1>5, <1>6, <1>7, <1>8 DEF Next

\* Every state of the interfaces satisfies the inductive invariant.
THEOREM Invariance == Spec => []IInv
<1> QED  BY InitInv, NextInv, PTL DEF Spec

(***************************************************************************)
(* What follows from it.                                                   *)
(***************************************************************************)

\* The state of the three files is well typed, and none of their tables holds
\* freed memory: what nss_virt_if_copy_stats() and the others find can be used.
THEOREM Tables == Spec => []WellFormed
<1>1. IInv => WellFormed
    BY NullAssumption
       DEF IInv, TableInv, Entered, TypeOK, WellFormed, TablesHoldLive, Live
<1> QED  BY <1>1, Invariance, PTL

\* No answer, however late, meets a handle that has been freed: the handle that
\* a callback of nss_virt_if.c or a CREATE comes with, and the one that the
\* handler of nss_wifi_if.c has found in its table, are live while the poll
\* works on them.
THEOREM LateAnswers == Spec => []NoUseAfterFree
<1>1. ASSUME IInv PROVE NoUseAfterFree
  <2> SUFFICES ASSUME cur # Null
               PROVE  /\ cur.m.h \in Live \cup {Null}
                      /\ cur.h # Null /\ hd[cur.h].file = "wifi" => cur.h \in Live
      BY DEF NoUseAfterFree
  <2>1. cur.m \in InFlight /\ cur.m \in Msgs /\ cur \in [m : Msgs, h : Handles \cup {Null}]
      BY <1>1, Present
  <2>2. cur.m.h \in Live \cup {Null}
      BY <1>1, <2>1, Carried DEF Live
  <2>3. CASE cur.m.op \in {"alloc", "dealloc"}
      BY <1>1, <2>2, <2>3 DEF IInv, MsgInv, CurOK
  <2>4. CASE cur.m.op \in {"create", "stats"}
      BY <1>1, <2>2, <2>4 DEF IInv, MsgInv, CurOK, Live
  <2> QED  BY <2>1, <2>2, <2>3, <2>4 DEF Msgs
<1> QED  BY <1>1, Invariance, PTL

\* An interface in use is allocated in the NSS, has its handler in the core and
\* is in the table of its file, unless a refused creation has evicted it.
THEOREM InUse == Spec => []KnownEverywhere
<1>1. IInv => KnownEverywhere
    BY DEF IInv, HandleInv, NumInv, RegInv, TableInv, Kept, Owned, KnownEverywhere, Live
<1> QED  BY <1>1, Invariance, PTL

\* A device that packets are delivered to is referenced once for each number
\* that leads to it, but for the moment before dev_hold().
THEOREM Referenced == Spec => []DevicesReferenced
<1>1. ASSUME IInv PROVE DevicesReferenced
  <2> SUFFICES ASSUME NEW c \in Callers
               PROVE  refs[c] + (IF pc[c] = "hold" THEN 1 ELSE 0)
                        >= Cardinality({i \in IfNums : ndev[i] = c}) + Cardinality(Puts(c))
      BY DEF DevicesReferenced, Puts
  <2> DEFINE D == {i \in IfNums : ndev[i] = c}
             T == Uses(c) \cup (IF pc[c] = "hold" THEN {Null} ELSE {})
             Of(i) == {h \in Uses(c) : hd[h].i = i}
             f == [i \in D |-> IF Of(i) = {} THEN Null ELSE CHOOSE h \in Of(i) : TRUE]
  <2>1. ASSUME NEW i \in D
        PROVE  \/ Of(i) # {} /\ f[i] \in Of(i)
               \/ Of(i) = {} /\ f[i] = Null /\ pc[c] = "hold" /\ job[c].i = i
    <3>1. CASE Of(i) # {}
        BY <3>1
    <3>2. CASE Of(i) = {}
      <4>1. ndev[i] = c /\ c # Null
          BY NullAssumption
      <4>2. \/ \E h \in Handles : hd[h].owner = c /\ hd[h].i = i
            \/ pc[c] = "hold" /\ job[c].i = i
          BY <1>1, <4>1 DEF IInv, DevInv
      <4> QED  BY <3>2, <4>2 DEF Uses
    <3> QED  BY <3>1, <3>2
  <2>2. \A h \in Uses(c) : h # Null
      BY NullAssumption DEF Uses
  <2> HIDE DEF f
  <2>3. f \in Injection(D, T)
    <3>1. DOMAIN f = D /\ f = [i \in D |-> f[i]]
        BY DEF f
    <3>2. \A i \in D : f[i] \in T
        BY <2>1
    <3>3. ASSUME NEW i \in D, NEW j \in D, f[i] = f[j]
          PROVE  i = j
        BY <2>1, <2>2, <3>3
    <3> QED  BY <3>1, <3>2, <3>3 DEF Injection, IsInjective
  <2>4. /\ IsFiniteSet(Uses(c)) /\ Cardinality(Uses(c)) \in Nat /\ Cardinality(Puts(c)) \in Nat
      BY Counts, FS_Subset, FiniteAssumption
  <2>5. /\ IsFiniteSet(T)
        /\ Cardinality(T) = Cardinality(Uses(c)) + (IF pc[c] = "hold" THEN 1 ELSE 0)
    <3>1. CASE pc[c] = "hold"
        BY <2>2, <2>4, <3>1, FS_AddElement
    <3>2. CASE pc[c] # "hold"
        BY <2>4, <3>2
    <3> QED  BY <3>1, <3>2
  <2>6. Cardinality(D) \in Nat /\ Cardinality(D) <= Cardinality(T)
      BY <2>3, <2>5, FS_Injection, FS_CardinalityType
  <2>7. refs[c] = Cardinality(Uses(c)) + Cardinality(Puts(c))
      BY <1>1, DevCounts DEF IInv
  <2> QED  BY <2>4, <2>5, <2>6, <2>7
<1> QED  BY <1>1, Invariance, PTL

=============================================================================
