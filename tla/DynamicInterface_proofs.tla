---------------------- MODULE DynamicInterface_proofs ----------------------
(***************************************************************************)
(* The host's table of dynamic interfaces follows the nodes of the NSS,    *)
(* and a completion belongs to the call that waits until a call has timed  *)
(* out, for any callers, interface numbers, types and rings.               *)
(***************************************************************************)
EXTENDS DynamicInterface, SequenceTheorems, TLAPS

(***************************************************************************)
(* The inductive invariant.                                                *)
(***************************************************************************)

\* The semaphore is held by the caller between down() and up().
SemInv == \A c \in Callers : pc[c] \in {"tx", "wait"} <=> sem = c

\* A call has its own message, which says nothing of an answer; nor do the
\* messages that the NSS has yet to see.
MsgInv ==
    /\ \A c \in Callers :
            pc[c] # "idle" => msg[c] \in Msgs /\ msg[c].from = c /\ ~ msg[c].ack
    /\ \A k \in 1..Len(requests) : ~ requests[k].ack

\* The answer r decides about interface i, and how.
Decides(r, i) == r.ack /\ r.if_num = i
Decision(r) == IF r.op = "alloc" THEN r.type ELSE NONE

\* A node is what the last answer on its way says, or else what the table does.
MirrorInv ==
    \A i \in IfNums :
        \/ /\ \A k \in 1..Len(replies) : ~ Decides(replies[k], i)
           /\ node[i] = type[i]
        \/ \E k \in 1..Len(replies) :
            /\ Decides(replies[k], i)
            /\ \A l \in (k + 1)..Len(replies) : ~ Decides(replies[l], i)
            /\ node[i] = Decision(replies[k])

\* Until a call has timed out, there is one message, answer or completion for
\* the caller that waits with the semaphore, and none at all otherwise.
Waiting == sem # Nobody /\ pc[sem] = "wait"
OneInv ==
    ~ overdue =>
        /\ Len(requests) + Len(replies) + done = IF Waiting THEN 1 ELSE 0
        /\ \A k \in 1..Len(requests) : requests[k].from = sem
        /\ \A k \in 1..Len(replies) : replies[k].from = sem
        /\ done > 0 => answer[sem] # NONE

IInv == TypeOK /\ SemInv /\ MsgInv /\ MirrorInv /\ OneInv

\* A message that is no one's any more says the same otherwise.
LEMMA DisownedSeq ==
    ASSUME NEW c \in Callers, NEW q \in Seq(Msgs)
    PROVE  /\ Disown(c, q) \in Seq(Msgs)
           /\ Len(Disown(c, q)) = Len(q)
           /\ \A k \in 1..Len(q) :
                /\ Disown(c, q)[k].ack = q[k].ack
                /\ Disown(c, q)[k].op = q[k].op
                /\ Disown(c, q)[k].type = q[k].type
                /\ Disown(c, q)[k].if_num = q[k].if_num
                /\ q[k].from # c => Disown(c, q)[k] = q[k]
<1>1. DOMAIN q = 1..Len(q) /\ Len(q) \in Nat /\ \A k \in 1..Len(q) : q[k] \in Msgs
    OBVIOUS
<1>2. ASSUME NEW k \in 1..Len(q)
      PROVE  /\ Disown(c, q)[k] \in Msgs
             /\ Disown(c, q)[k].ack = q[k].ack
             /\ Disown(c, q)[k].op = q[k].op
             /\ Disown(c, q)[k].type = q[k].type
             /\ Disown(c, q)[k].if_num = q[k].if_num
             /\ q[k].from # c => Disown(c, q)[k] = q[k]
    BY <1>1 DEF Disown, Msgs
<1>3. Disown(c, q) \in [1..Len(q) -> Msgs]
    BY <1>1, <1>2 DEF Disown
<1>4. Disown(c, q) \in Seq(Msgs) /\ Len(Disown(c, q)) = Len(q)
    BY <1>1, <1>3
<1> QED  BY <1>2, <1>4

LEMMA InitInv == Init => IInv
<1> SUFFICES ASSUME Init PROVE IInv
    OBVIOUS
<1>0. overdue \in BOOLEAN
    BY Zenon DEF Init
<1>1. TypeOK
  <2>1. Failed \in Results
      BY DEF Failed, Results
  <2> QED  BY <1>0, <2>1 DEF Init, TypeOK
<1>2. SemInv /\ MsgInv /\ MirrorInv /\ OneInv
    BY CallerAssumption DEF Init, SemInv, MsgInv, MirrorInv, OneInv, Waiting
<1> QED  BY <1>1, <1>2 DEF IInv

(***************************************************************************)
(* The steps of the callers.                                               *)
(***************************************************************************)

\* A new call has no answer yet, and its caller does not hold the semaphore.
LEMMA CallInv ==
    ASSUME IInv, NEW c \in Callers, NEW op \in Ops, NEW t \in Types,
           NEW i \in IfNums \cup {NoIf}, Call(c, op, t, i)
    PROVE  IInv'
<1> USE DEF IInv
<1>0. pc[c] = "idle" /\ sem # c
    BY DEF Call, SemInv
<1>1. TypeOK'
  <2> DEFINE m == [from |-> c, op |-> op, type |-> t, if_num |-> i, ack |-> FALSE]
  <2>1. m \in Msgs /\ Failed \in Results
      BY DEF Msgs, Failed, Results
  <2>2. msg' = [msg EXCEPT ![c] = m]
      BY DEF Call
  <2> HIDE DEF m
  <2> QED  BY <2>1, <2>2 DEF Call, TypeOK
<1>2. SemInv'
    BY <1>0 DEF Call, TypeOK, SemInv
<1>3. MsgInv'
    BY DEF Call, TypeOK, MsgInv, Msgs
<1>4. MirrorInv'
    BY DEF Call, MirrorInv, Decides, Decision
<1>5. OneInv'
  <2>1. Waiting' <=> Waiting
      BY <1>0, CallerAssumption DEF Call, TypeOK, Waiting
  <2>2. ASSUME ~ overdue, done > 0
        PROVE  answer'[sem] # NONE
    <3>1. answer[sem] # NONE
        BY <2>2 DEF OneInv
    <3>2. answer'[sem] = answer[sem]
        BY <1>0 DEF Call, TypeOK
    <3> QED  BY <3>1, <3>2
  <2> QED  BY <2>1, <2>2 DEF Call, OneInv
<1> QED  BY <1>1, <1>2, <1>3, <1>4, <1>5

LEMMA DownInv == ASSUME IInv, NEW c \in Callers, Down(c) PROVE IInv'
<1> USE DEF IInv
<1>1. TypeOK'
    BY DEF Down, TypeOK
<1>2. SemInv'
    BY CallerAssumption DEF Down, TypeOK, SemInv
<1>3. MsgInv'
    BY DEF Down, TypeOK, MsgInv
<1>4. MirrorInv'
    BY DEF Down, MirrorInv, Decides, Decision
<1>5. OneInv'
  <2> SUFFICES ASSUME ~ overdue PROVE OneInv'
      BY DEF Down, OneInv
  <2>1. ~ Waiting /\ ~ Waiting'
      BY DEF Down, TypeOK, Waiting
  <2>2. Len(requests) = 0 /\ Len(replies) = 0 /\ done = 0
      BY <2>1 DEF OneInv, TypeOK
  <2>3. Len(requests') = 0 /\ Len(replies') = 0 /\ done' = 0
      BY <2>2 DEF Down
  <2> QED  BY <2>1, <2>3 DEF OneInv
<1> QED  BY <1>1, <1>2, <1>3, <1>4, <1>5

LEMMA TxInv == ASSUME IInv, NEW c \in Callers, Tx(c) PROVE IInv'
<1> USE DEF IInv
<1> DEFINE m == msg[c]
<1>0. /\ pc[c] = "tx" /\ sem = c /\ c # Nobody
      /\ m \in Msgs /\ m.from = c /\ ~ m.ack
    BY CallerAssumption DEF Tx, SemInv, MsgInv
<1>1. /\ requests \in Seq(Msgs) /\ requests' = Append(requests, m)
      /\ Len(requests) \in Nat /\ Len(replies) \in Nat /\ done \in Nat
    BY DEF Tx, TypeOK
<1> HIDE DEF m
<1>2. /\ requests' \in Seq(Msgs)
      /\ Len(requests') = Len(requests) + 1
      /\ \A k \in 1..Len(requests) : requests'[k] = requests[k]
      /\ requests'[Len(requests) + 1] = m
    BY <1>0, <1>1, AppendProperties
<1>3. \A k \in 1..Len(requests') : k \in 1..Len(requests) \/ k = Len(requests) + 1
    BY <1>1, <1>2
<1>4. TypeOK'
    BY <1>2 DEF Tx, TypeOK
<1>5. SemInv'
    BY <1>0 DEF Tx, TypeOK, SemInv
<1>6. MsgInv'
  <2>1. \A k \in 1..Len(requests') : ~ requests'[k].ack
      BY <1>0, <1>2, <1>3 DEF MsgInv
  <2>2. \A d \in Callers :
            pc'[d] # "idle" => msg'[d] \in Msgs /\ msg'[d].from = d /\ ~ msg'[d].ack
      BY <1>0 DEF Tx, TypeOK, MsgInv
  <2> QED  BY <2>1, <2>2 DEF MsgInv
<1>7. MirrorInv'
    BY DEF Tx, MirrorInv, Decides, Decision
<1>8. OneInv'
  <2> SUFFICES ASSUME ~ overdue PROVE OneInv'
      BY DEF Tx, OneInv
  <2>1. ~ Waiting /\ Waiting'
      BY <1>0 DEF Tx, TypeOK, Waiting
  <2>2. Len(requests) = 0 /\ Len(replies) = 0 /\ done = 0
      BY <1>1, <2>1 DEF OneInv
  <2>3. Len(requests') = 1 /\ requests'[1] = m /\ replies' = replies /\ done' = 0 /\ sem' = c
      BY <1>0, <1>2, <2>2 DEF Tx
  <2> QED  BY <1>0, <2>1, <2>2, <2>3 DEF OneInv
<1> QED  BY <1>4, <1>5, <1>6, <1>7, <1>8

LEMMA TxFailureInv == ASSUME IInv, NEW c \in Callers, TxFailure(c) PROVE IInv'
<1> USE DEF IInv
<1>0. pc[c] = "tx" /\ sem = c
    BY DEF TxFailure, SemInv
<1>1. TypeOK'
  <2>1. Failed \in Results
      BY DEF Failed, Results
  <2> QED  BY <2>1 DEF TxFailure, Return, TypeOK
<1>2. SemInv'
    BY <1>0, CallerAssumption DEF TxFailure, Return, TypeOK, SemInv
<1>3. MsgInv'
    BY DEF TxFailure, Return, TypeOK, MsgInv
<1>4. MirrorInv'
    BY DEF TxFailure, MirrorInv, Decides, Decision
<1>5. OneInv'
  <2> SUFFICES ASSUME ~ overdue PROVE OneInv'
      BY DEF TxFailure, OneInv
  <2>1. ~ Waiting /\ ~ Waiting'
      BY <1>0 DEF TxFailure, TypeOK, Waiting
  <2>2. Len(requests) = 0 /\ Len(replies) = 0 /\ done = 0
      BY <2>1 DEF OneInv, TypeOK
  <2>3. Len(requests') = 0 /\ Len(replies') = 0 /\ done' = 0
      BY <2>2 DEF TxFailure
  <2> QED  BY <2>1, <2>3 DEF OneInv
<1> QED  BY <1>1, <1>2, <1>3, <1>4, <1>5

LEMMA WakeInv == ASSUME IInv, NEW c \in Callers, Wake(c) PROVE IInv'
<1> USE DEF IInv
<1>0. pc[c] = "wait" /\ sem = c
    BY DEF Wake, SemInv
<1>1. TypeOK'
    BY DEF Wake, TypeOK
<1>2. SemInv'
    BY <1>0, CallerAssumption DEF Wake, TypeOK, SemInv
<1>3. MsgInv'
    BY DEF Wake, TypeOK, MsgInv
<1>4. MirrorInv'
    BY DEF Wake, MirrorInv, Decides, Decision
<1>5. OneInv'
  <2> SUFFICES ASSUME ~ overdue PROVE OneInv'
      BY DEF Wake, OneInv
  <2>1. Waiting /\ ~ Waiting'
      BY <1>0, CallerAssumption DEF Wake, TypeOK, Waiting
  <2>2. Len(requests) = 0 /\ Len(replies) = 0 /\ done = 1
      BY <2>1 DEF Wake, OneInv, TypeOK
  <2>3. Len(requests') = 0 /\ Len(replies') = 0 /\ done' = 0
      BY <2>2 DEF Wake
  <2> QED  BY <2>1, <2>3 DEF OneInv
<1> QED  BY <1>1, <1>2, <1>3, <1>4, <1>5

\* Disowning messages changes nothing that the mirror or the NSS looks at.
LEMMA DisownInv ==
    ASSUME IInv, NEW c \in Callers,
           requests' = Disown(c, requests), replies' = Disown(c, replies),
           UNCHANGED << type, node >>
    PROVE  /\ requests' \in Seq(Msgs) /\ Len(requests') = Len(requests)
           /\ replies' \in Seq(Msgs) /\ Len(replies') = Len(replies)
           /\ \A k \in 1..Len(requests') : ~ requests'[k].ack
           /\ MirrorInv'
<1>1. requests \in Seq(Msgs) /\ replies \in Seq(Msgs)
    BY DEF IInv, TypeOK
<1>2. /\ requests' \in Seq(Msgs) /\ Len(requests') = Len(requests)
      /\ \A k \in 1..Len(requests) : requests'[k].ack = requests[k].ack
    BY <1>1, DisownedSeq
<1>3. /\ replies' \in Seq(Msgs) /\ Len(replies') = Len(replies)
      /\ \A k \in 1..Len(replies) :
            /\ replies'[k].ack = replies[k].ack
            /\ replies'[k].op = replies[k].op
            /\ replies'[k].type = replies[k].type
            /\ replies'[k].if_num = replies[k].if_num
    BY <1>1, DisownedSeq
<1>4. \A k \in 1..Len(requests') : ~ requests'[k].ack
    BY <1>2 DEF IInv, MsgInv
<1>5. MirrorInv'
  <2>1. \A k \in 1..Len(replies) :
            /\ Decision(replies'[k]) = Decision(replies[k])
            /\ \A i \in IfNums : Decides(replies'[k], i) <=> Decides(replies[k], i)
      BY <1>3 DEF Decides, Decision
  <2>2. MirrorInv
      BY DEF IInv
  <2>3. \A k \in 1..Len(replies) :
            \A l \in (k + 1)..Len(replies) : l \in 1..Len(replies)
      BY <1>1
  <2>4. \A k : (Decision(replies[k]))' = Decision(replies'[k])
      BY DEF Decision
  <2>5. \A k, i : (Decides(replies[k], i))' <=> Decides(replies'[k], i)
      BY DEF Decides
  <2> HIDE DEF Decision, Decides
  <2> SUFFICES ASSUME NEW i \in IfNums
               PROVE  \/ /\ \A k \in 1..Len(replies) : ~ Decides(replies'[k], i)
                         /\ node[i] = type[i]
                      \/ \E k \in 1..Len(replies) :
                          /\ Decides(replies'[k], i)
                          /\ \A l \in (k + 1)..Len(replies) : ~ Decides(replies'[l], i)
                          /\ node[i] = Decision(replies'[k])
      BY <1>3, <2>4, <2>5 DEF MirrorInv
  <2> QED  BY <2>1, <2>2, <2>3 DEF MirrorInv
<1> QED  BY <1>2, <1>3, <1>4, <1>5

LEMMA TimeOutInv == ASSUME IInv, NEW c \in Callers, TimeOut(c) PROVE IInv'
<1> USE DEF IInv
<1>0. pc[c] = "wait" /\ sem = c
    BY DEF TimeOut, SemInv
<1>1. /\ requests' \in Seq(Msgs) /\ replies' \in Seq(Msgs)
      /\ \A k \in 1..Len(requests') : ~ requests'[k].ack
      /\ MirrorInv'
    BY DisownInv DEF TimeOut
<1>2. TypeOK'
  <2>1. Failed \in Results
      BY DEF Failed, Results
  <2> QED  BY <1>1, <2>1 DEF TimeOut, Return, TypeOK
<1>3. SemInv'
    BY <1>0, CallerAssumption DEF TimeOut, Return, TypeOK, SemInv
<1>4. MsgInv'
    BY <1>1 DEF TimeOut, Return, TypeOK, MsgInv
<1>5. OneInv'
    BY DEF TimeOut, OneInv
<1> QED  BY <1>1, <1>2, <1>3, <1>4, <1>5

LEMMA CheckInv == ASSUME IInv, NEW c \in Callers, Check(c) PROVE IInv'
<1> USE DEF IInv
<1>0. pc[c] = "check" /\ sem # c
    BY DEF Check, SemInv
<1>1. /\ requests' \in Seq(Msgs) /\ Len(requests') = Len(requests)
      /\ replies' \in Seq(Msgs) /\ Len(replies') = Len(replies)
      /\ \A k \in 1..Len(requests') : ~ requests'[k].ack
      /\ MirrorInv'
    BY DisownInv DEF Check
<1>2. /\ \A d \in Callers \ {c} :
            pc'[d] = pc[d] /\ msg'[d] = msg[d] /\ result'[d] = result[d]
      /\ pc'[c] = "read" \/ pc'[c] = "idle"
      /\ pc'[c] = "read" => msg'[c] = msg[c]
    BY DEF Check, Return, TypeOK
<1>3. TypeOK'
  <2>1. \A b \in BOOLEAN : [ok |-> b, if_num |-> NoIf] \in Results
      BY DEF Results
  <2>2. (response = "ACK") \in BOOLEAN
      OBVIOUS
  <2>3. [ok |-> response = "ACK", if_num |-> NoIf] \in Results
      BY <2>1, <2>2, Zenon
  <2> DEFINE r == [ok |-> response = "ACK", if_num |-> NoIf]
  <2>4. \/ UNCHANGED << msg, result >> /\ pc' = [pc EXCEPT ![c] = "read"]
        \/ Return(c, r)
      BY DEF Check
  <2>5. r \in Results
      BY <2>3
  <2>6. UNCHANGED << sem, done, response, current_if_num, type, node, answer, overdue >>
      BY DEF Check
  <2> HIDE DEF r
  <2>7. /\ pc' \in [Callers -> {"idle", "down", "tx", "wait", "check", "read"}]
        /\ msg' \in [Callers -> Msgs \cup {NONE}]
        /\ result' \in [Callers -> Results]
      BY <2>4, <2>5 DEF Return, TypeOK
  <2> QED  BY <1>1, <2>6, <2>7 DEF TypeOK
<1>4. SemInv'
    BY <1>0, <1>2 DEF Check, SemInv
<1>5. MsgInv'
    BY <1>0, <1>1, <1>2 DEF MsgInv
<1>6. OneInv'
  <2> SUFFICES ASSUME ~ overdue PROVE OneInv'
      BY DEF Check, OneInv
  <2>1. Waiting' <=> Waiting
      BY <1>0, <1>2 DEF Check, TypeOK, Waiting
  <2>2. requests \in Seq(Msgs) /\ replies \in Seq(Msgs)
      BY DEF TypeOK
  <2>3. /\ \A k \in 1..Len(requests) : requests[k].from = sem
        /\ \A k \in 1..Len(replies) : replies[k].from = sem
      BY DEF OneInv
  <2>4. \A k \in 1..Len(requests) : requests'[k] = requests[k]
      BY <1>0, <2>2, <2>3, DisownedSeq DEF Check
  <2>5. \A k \in 1..Len(replies) : replies'[k] = replies[k]
      BY <1>0, <2>2, <2>3, DisownedSeq DEF Check
  <2>6. UNCHANGED << sem, done, answer, overdue >>
      BY DEF Check
  <2> QED  BY <1>1, <2>1, <2>3, <2>4, <2>5, <2>6 DEF OneInv
<1> QED  BY <1>1, <1>3, <1>4, <1>5, <1>6

LEMMA ReadInv == ASSUME IInv, NEW c \in Callers, ReadIfNum(c) PROVE IInv'
<1> USE DEF IInv
<1>0. pc[c] = "read" /\ sem # c
    BY DEF ReadIfNum, SemInv
<1>1. TypeOK'
  <2> DEFINE r == [ok |-> TRUE, if_num |-> current_if_num]
  <2>1. r \in Results /\ Return(c, r)
      BY DEF ReadIfNum, TypeOK, Results
  <2>2. UNCHANGED << sem, done, response, current_if_num, answer, overdue,
                     requests, replies, type, node >>
      BY DEF ReadIfNum
  <2> HIDE DEF r
  <2>3. /\ pc' \in [Callers -> {"idle", "down", "tx", "wait", "check", "read"}]
        /\ msg' \in [Callers -> Msgs \cup {NONE}]
        /\ result' \in [Callers -> Results]
      BY <2>1 DEF Return, TypeOK
  <2> QED  BY <2>2, <2>3 DEF TypeOK
<1>2. SemInv'
    BY <1>0 DEF ReadIfNum, Return, TypeOK, SemInv
<1>3. MsgInv'
    BY DEF ReadIfNum, Return, TypeOK, MsgInv
<1>4. MirrorInv'
    BY DEF ReadIfNum, MirrorInv, Decides, Decision
<1>5. OneInv'
  <2>1. Waiting' <=> Waiting
      BY <1>0 DEF ReadIfNum, Return, TypeOK, Waiting
  <2> QED  BY <2>1 DEF ReadIfNum, OneInv
<1> QED  BY <1>1, <1>2, <1>3, <1>4, <1>5

(***************************************************************************)
(* The steps of the NSS and of the handler.                                *)
(***************************************************************************)

LEMMA AnswerInv == ASSUME IInv, FirmwareAnswer PROVE IInv'
<1> USE DEF IInv
<1> DEFINE m == Head(requests)
<1>1. /\ requests \in Seq(Msgs) /\ replies \in Seq(Msgs) /\ requests # << >>
      /\ Len(requests) \in Nat /\ Len(replies) \in Nat /\ done \in Nat
    BY DEF FirmwareAnswer, TypeOK
<1>2. /\ m \in Msgs /\ m = requests[1] /\ 1 \in 1..Len(requests) /\ ~ m.ack
      /\ requests' = Tail(requests) /\ requests' \in Seq(Msgs)
      /\ Len(requests') = Len(requests) - 1
      /\ \A k \in 1..Len(requests') :
            k + 1 \in 1..Len(requests) /\ requests'[k] = requests[k + 1]
  <2>1. /\ m \in Msgs /\ m = requests[1] /\ 1 \in 1..Len(requests)
        /\ requests' = Tail(requests) /\ requests' \in Seq(Msgs)
        /\ Len(requests') = Len(requests) - 1
        /\ \A k \in 1..Len(requests') :
              k + 1 \in 1..Len(requests) /\ requests'[k] = requests[k + 1]
      BY <1>1 DEF FirmwareAnswer
  <2> QED  BY <2>1 DEF MsgInv
<1>3. PICK r \in Accepted(m) \cup {m} :
          /\ replies' = Append(replies, r)
          /\ node' = IF r.ack
                     THEN [node EXCEPT ![r.if_num] =
                              IF r.op = "alloc" THEN r.type ELSE NONE]
                     ELSE node
    BY DEF FirmwareAnswer
<1>4. UNCHANGED << sem, done, response, current_if_num, type, pc, msg, result,
                   answer, overdue >>
    BY DEF FirmwareAnswer
<1> HIDE DEF m
<1>5. r \in Msgs /\ r.from = m.from
  <2>1. CASE r = m
      BY <1>2, <2>1
  <2>2. CASE r \in Accepted(m) /\ m.op = "alloc"
    <3>1. PICK i \in IfNums : r = [m EXCEPT !.if_num = i, !.ack = TRUE]
        BY <2>2 DEF Accepted
    <3> QED  BY <1>2, <3>1 DEF Msgs
  <2>3. CASE r \in Accepted(m) /\ m.op # "alloc"
    <3>1. r = [m EXCEPT !.ack = TRUE]
        BY <2>3 DEF Accepted
    <3> QED  BY <1>2, <3>1 DEF Msgs
  <2> QED  BY <1>3, <2>1, <2>2, <2>3
<1>6. /\ replies' \in Seq(Msgs)
      /\ Len(replies') = Len(replies) + 1
      /\ \A k \in 1..Len(replies) : replies'[k] = replies[k]
      /\ replies'[Len(replies) + 1] = r
    BY <1>1, <1>3, <1>5, AppendProperties
<1>7. \A k \in 1..Len(replies') : k \in 1..Len(replies) \/ k = Len(replies) + 1
    BY <1>1, <1>6
<1>8. /\ Decision(r) \in Types \cup {NONE}
      /\ node' = IF r.ack THEN [node EXCEPT ![r.if_num] = Decision(r)] ELSE node
    BY <1>3, <1>5 DEF Decision, Msgs
<1>9. TypeOK'
  <2>1. node' \in [IfNums -> Types \cup {NONE}]
      BY <1>8 DEF TypeOK
  <2> QED  BY <1>2, <1>4, <1>6, <2>1 DEF TypeOK
<1>10. SemInv'
    BY <1>4 DEF SemInv
<1>11. MsgInv'
    BY <1>2, <1>4 DEF MsgInv
<1>12. MirrorInv'
  <2>1. \A i \in IfNums :
            node'[i] = IF Decides(r, i) THEN Decision(r) ELSE node[i]
      BY <1>8 DEF Decides, TypeOK
  <2>2. \A k : (Decision(replies[k]))' = Decision(replies'[k])
      BY DEF Decision
  <2>3. \A k, i : (Decides(replies[k], i))' <=> Decides(replies'[k], i)
      BY DEF Decides
  <2> HIDE DEF Decision, Decides
  <2> SUFFICES ASSUME NEW i \in IfNums
               PROVE  \/ /\ \A k \in 1..Len(replies') : ~ Decides(replies'[k], i)
                         /\ node'[i] = type[i]
                      \/ \E k \in 1..Len(replies') :
                          /\ Decides(replies'[k], i)
                          /\ \A l \in (k + 1)..Len(replies') : ~ Decides(replies'[l], i)
                          /\ node'[i] = Decision(replies'[k])
      BY <1>4, <2>2, <2>3 DEF MirrorInv
  <2>4. CASE Decides(r, i)
    <3>1. Len(replies) + 1 \in 1..Len(replies')
        BY <1>1, <1>6
    <3>2. \A l \in ((Len(replies) + 1) + 1)..Len(replies') : FALSE
        BY <1>1, <1>6
    <3> QED  BY <1>6, <2>1, <2>4, <3>1, <3>2
  <2>5. CASE ~ Decides(r, i) /\ \A k \in 1..Len(replies) : ~ Decides(replies[k], i)
    <3>1. node[i] = type[i]
        BY <2>5 DEF MirrorInv
    <3> QED  BY <1>6, <1>7, <2>1, <2>5, <3>1
  <2>6. CASE ~ Decides(r, i) /\ ~ \A k \in 1..Len(replies) : ~ Decides(replies[k], i)
    <3>1. PICK k \in 1..Len(replies) :
              /\ Decides(replies[k], i)
              /\ \A l \in (k + 1)..Len(replies) : ~ Decides(replies[l], i)
              /\ node[i] = Decision(replies[k])
        BY <2>6 DEF MirrorInv
    <3>2. k \in 1..Len(replies') /\ replies'[k] = replies[k]
        BY <1>1, <1>6
    <3>3. \A l \in (k + 1)..Len(replies') : ~ Decides(replies'[l], i)
      <4> TAKE l \in (k + 1)..Len(replies')
      <4>1. \/ l \in (k + 1)..Len(replies) /\ l \in 1..Len(replies)
            \/ l = Len(replies) + 1
          BY <1>1, <1>6
      <4> QED  BY <1>6, <2>6, <3>1, <4>1
    <3> QED  BY <2>1, <2>6, <3>1, <3>2, <3>3
  <2> QED  BY <2>4, <2>5, <2>6
<1>13. OneInv'
  <2> SUFFICES ASSUME ~ overdue PROVE OneInv'
      BY <1>4 DEF OneInv
  <2>1. Waiting' <=> Waiting
      BY <1>4 DEF Waiting
  <2>2. Len(requests) + Len(replies) = Len(requests') + Len(replies')
      BY <1>1, <1>2, <1>6
  <2>3. r.from = sem
      BY <1>2, <1>5 DEF OneInv
  <2>4. \A k \in 1..Len(requests') : requests'[k].from = sem
      BY <1>2 DEF OneInv
  <2>5. \A k \in 1..Len(replies') : replies'[k].from = sem
      BY <1>6, <1>7, <2>3 DEF OneInv
  <2>6. Len(requests') + Len(replies') + done' = IF Waiting THEN 1 ELSE 0
      BY <1>4, <2>2 DEF OneInv
  <2>7. done > 0 => answer[sem] # NONE
      BY DEF OneInv
  <2> QED  BY <1>4, <2>1, <2>4, <2>5, <2>6, <2>7 DEF OneInv
<1> QED  BY <1>9, <1>10, <1>11, <1>12, <1>13

LEMMA HandlerInv == ASSUME IInv, nss_dynamic_interface_handler PROVE IInv'
<1> USE DEF IInv
<1> DEFINE r == Head(replies)
<1>1. /\ requests \in Seq(Msgs) /\ replies \in Seq(Msgs) /\ replies # << >>
      /\ Len(requests) \in Nat /\ Len(replies) \in Nat /\ done \in Nat
    BY DEF nss_dynamic_interface_handler, TypeOK
<1>2. /\ r \in Msgs /\ r = replies[1] /\ 1 \in 1..Len(replies)
      /\ replies' = Tail(replies) /\ replies' \in Seq(Msgs)
      /\ Len(replies') = Len(replies) - 1
      /\ \A k \in 1..Len(replies') :
            k + 1 \in 1..Len(replies) /\ replies'[k] = replies[k + 1]
    BY <1>1 DEF nss_dynamic_interface_handler
<1>3. /\ StoreAnswer(r) /\ nss_dynamic_interface_callback(r)
      /\ answer' = IF r.from = Nobody THEN answer ELSE [answer EXCEPT ![r.from] = r]
      /\ UNCHANGED << sem, pc, msg, result, requests, node, overdue >>
    BY DEF nss_dynamic_interface_handler
<1> HIDE DEF r
<1>4. /\ r.from \in Callers \cup {Nobody} /\ r.if_num \in IfNums \cup {NoIf}
      /\ Decision(r) \in Types \cup {NONE}
    BY <1>2 DEF Decision, Msgs
<1>5. TypeOK'
  <2>1. type' \in [IfNums -> Types \cup {NONE}] /\ current_if_num' \in IfNums \cup {NoIf}
      BY <1>3, <1>4 DEF StoreAnswer, Decision, TypeOK
  <2>2. answer' \in [Callers -> Msgs \cup {NONE}]
      BY <1>2, <1>3, <1>4 DEF TypeOK
  <2>3. response' \in {"ACK", "NACK"} /\ done' \in Nat
      BY <1>1, <1>3 DEF nss_dynamic_interface_callback
  <2> QED  BY <1>2, <1>3, <2>1, <2>2, <2>3 DEF TypeOK
<1>6. SemInv'
    BY <1>3 DEF SemInv
<1>7. MsgInv'
    BY <1>3 DEF MsgInv
<1>8. MirrorInv'
  <2>1. \A i \in IfNums :
            type'[i] = IF Decides(r, i) THEN Decision(r) ELSE type[i]
      BY <1>3 DEF StoreAnswer, Decides, Decision, TypeOK
  <2>2. \A k : (Decision(replies[k]))' = Decision(replies'[k])
      BY DEF Decision
  <2>3. \A k, i : (Decides(replies[k], i))' <=> Decides(replies'[k], i)
      BY DEF Decides
  <2> HIDE DEF Decision, Decides
  <2> SUFFICES ASSUME NEW i \in IfNums
               PROVE  \/ /\ \A k \in 1..Len(replies') : ~ Decides(replies'[k], i)
                         /\ node[i] = type'[i]
                      \/ \E k \in 1..Len(replies') :
                          /\ Decides(replies'[k], i)
                          /\ \A l \in (k + 1)..Len(replies') : ~ Decides(replies'[l], i)
                          /\ node[i] = Decision(replies'[k])
      BY <1>3, <2>2, <2>3 DEF MirrorInv
  <2>4. CASE \A k \in 1..Len(replies) : ~ Decides(replies[k], i)
    <3>1. node[i] = type[i] /\ ~ Decides(r, i)
        BY <1>2, <2>4 DEF MirrorInv
    <3> QED  BY <1>2, <2>1, <2>4, <3>1
  <2>5. CASE ~ \A k \in 1..Len(replies) : ~ Decides(replies[k], i)
    <3>1. PICK k \in 1..Len(replies) :
              /\ Decides(replies[k], i)
              /\ \A l \in (k + 1)..Len(replies) : ~ Decides(replies[l], i)
              /\ node[i] = Decision(replies[k])
        BY <2>5 DEF MirrorInv
    <3>2. CASE k = 1
      <4>1. type'[i] = node[i]
          BY <1>2, <2>1, <3>1, <3>2
      <4>2. \A l \in 1..Len(replies') : l + 1 \in (k + 1)..Len(replies)
          BY <1>1, <1>2, <3>2
      <4> QED  BY <1>2, <3>1, <4>1, <4>2
    <3>3. CASE k # 1
      <4>1. k - 1 \in 1..Len(replies') /\ replies'[k - 1] = replies[k]
          BY <1>1, <1>2, <3>3
      <4>2. \A l \in ((k - 1) + 1)..Len(replies') :
                l \in 1..Len(replies') /\ l + 1 \in (k + 1)..Len(replies)
          BY <1>1, <1>2, <3>3
      <4>3. \A l \in ((k - 1) + 1)..Len(replies') : ~ Decides(replies'[l], i)
          BY <1>2, <3>1, <4>2
      <4> QED  BY <3>1, <4>1, <4>3
    <3> QED  BY <3>2, <3>3
  <2> QED  BY <2>4, <2>5
<1>9. OneInv'
  <2> SUFFICES ASSUME ~ overdue PROVE OneInv'
      BY <1>3 DEF OneInv
  <2>1. (Waiting' <=> Waiting) /\ done' = done + 1
      BY <1>3 DEF Waiting, nss_dynamic_interface_callback
  <2>2. Waiting /\ r.from = sem
      BY <1>1, <1>2 DEF OneInv
  <2>3. Len(requests') = 0 /\ Len(replies') = 0 /\ done' = 1
      BY <1>1, <1>2, <1>3, <2>1, <2>2 DEF OneInv
  <2>4. answer'[sem'] # NONE
    <3>1. sem \in Callers /\ r.from # Nobody
        BY <2>2 DEF Waiting, TypeOK
    <3>2. r # NONE
        BY <1>2, NoneAssumption
    <3> QED  BY <1>3, <2>2, <3>1, <3>2 DEF TypeOK
  <2> QED  BY <2>1, <2>2, <2>3, <2>4 DEF OneInv
<1> QED  BY <1>5, <1>6, <1>7, <1>8, <1>9

LEMMA NextInv == IInv /\ [Next]_vars => IInv'
<1> SUFFICES ASSUME IInv, [Next]_vars PROVE IInv'
    OBVIOUS
<1>1. ASSUME NEW c \in Callers,
             \/ \E t \in Types : nss_dynamic_interface_alloc_node(c, t)
             \/ \E t \in Types, i \in IfNums : nss_dynamic_interface_dealloc_node(c, i, t)
      PROVE  IInv'
  <2>1. PICK t \in Types, i \in IfNums \cup {NoIf}, op \in Ops : Call(c, op, t, i)
      BY <1>1 DEF nss_dynamic_interface_alloc_node, nss_dynamic_interface_dealloc_node, Ops
  <2> QED  BY <2>1, CallInv
<1>2. ASSUME NEW c \in Callers, Step(c) PROVE IInv'
    BY <1>2, DownInv, TxInv, TxFailureInv, WakeInv, TimeOutInv, CheckInv, ReadInv
       DEF Step
<1>3. CASE FirmwareAnswer
    BY <1>3, AnswerInv
<1>4. CASE nss_dynamic_interface_handler
    BY <1>4, HandlerInv
<1>5. CASE UNCHANGED vars
  <2> QED  BY <1>5 DEF vars, IInv, TypeOK, SemInv, MsgInv, MirrorInv, Decides, Decision,
                       OneInv, Waiting
<1> QED  BY <1>1, <1>2, <1>3, <1>4, <1>5 DEF Next

LEMMA Invariance == Spec => []IInv
<1> QED  BY InitInv, NextInv, PTL DEF Spec

(***************************************************************************)
(* What it implies.                                                        *)
(***************************************************************************)

\* The state is well typed, and until a call has timed out a completion of
\* nss_dynamic_interface_callback() is pending only for the caller between
\* down() and up() in nss_dynamic_interface_tx_sync(), and answers its message.
THEOREM Completions == Spec => []WellFormed
<1>1. IInv => WellFormed
  <2> SUFFICES ASSUME IInv, done > 0, ~ overdue
               PROVE  /\ done = 1
                      /\ sem # Nobody
                      /\ pc[sem] = "wait"
                      /\ answer[sem] # NONE
      BY DEF IInv, WellFormed, NoStaleCompletion
  <2>1. Len(requests) \in Nat /\ Len(replies) \in Nat /\ done \in Nat
      BY DEF IInv, TypeOK
  <2>2. Waiting /\ done = 1
      BY <2>1 DEF IInv, OneInv
  <2> QED  BY <2>2 DEF IInv, OneInv, Waiting
<1> QED  BY <1>1, Invariance, PTL

\* With no message on its way, di.type[], which nss_dynamic_interface_get_type()
\* reads, has the type of exactly the nodes that exist in the NSS: answers that
\* come after their callers gave up change that no more than others do.
THEOREM TypeTable == Spec => []TypeTableMirrorsNss
<1>1. IInv => TypeTableMirrorsNss
  <2> SUFFICES ASSUME IInv, replies = << >> PROVE type = node
      BY DEF TypeTableMirrorsNss
  <2>1. Len(replies) = 0
      OBVIOUS
  <2>2. \A i \in IfNums : node[i] = type[i]
      BY <2>1 DEF IInv, MirrorInv
  <2>3. type \in [IfNums -> Types \cup {NONE}] /\ node \in [IfNums -> Types \cup {NONE}]
      BY DEF IInv, TypeOK
  <2> QED  BY <2>2, <2>3
<1> QED  BY <1>1, Invariance, PTL
=============================================================================
