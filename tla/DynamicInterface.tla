-------------------------- MODULE DynamicInterface --------------------------
(***************************************************************************)
(* nss_dynamic_interface.c: callers in process context ask the NSS to      *)
(* allocate or deallocate a node with a synchronous message: a semaphore   *)
(* lets one of them send and wait on one completion with a timeout, the    *)
(* message handler (in the NAPI poll) stores the answer in the global `di` *)
(* and completes it.  The two rings in between are first-in first-out, and *)
(* one NSS core serves all the dynamic interface types.                    *)
(***************************************************************************)
EXTENDS Integers, Sequences, FiniteSets

CONSTANTS
    Callers,
    IfNums,      \* the dynamic interface numbers of the NSS
    Types,       \* enum nss_dynamic_interface_type without NONE
    RingMax,     \* bound: room in the command ring, and in the N2H ring
    NONE,        \* NSS_DYNAMIC_INTERFACE_TYPE_NONE
    NoIf,        \* -1
    Nobody

ASSUME CallerAssumption == Nobody \notin Callers
ASSUME IfNumAssumption == NoIf \notin IfNums /\ NONE \notin Types
ASSUME RingAssumption == RingMax \in Nat \ {0}

VARIABLES
    sem,             \* di.sem: the caller that is past down()
    done,            \* di.complete
    response,        \* di.response
    current_if_num,  \* di.current_if_num
    type,            \* di.type[]
    pc,              \* where each caller is
    msg,             \* the caller's message
    result,          \* what its last call returned, until the next one
    requests,        \* messages in the command ring
    replies,         \* messages in the N2H ring
    node,            \* NSS: the type of each allocated node
    answer,          \* history: the answer to the caller's present message
    overdue          \* history: a call has timed out before its answer came

vars == << sem, done, response, current_if_num, type, pc, msg, result,
           requests, replies, node, answer, overdue >>

Ops == {"alloc", "dealloc"}

Msgs == [from : Callers \cup {Nobody}, op : Ops, type : Types,
         if_num : IfNums \cup {NoIf}, ack : BOOLEAN]

\* No message is taken for the absence of one.
ASSUME NoneAssumption == NONE \notin Msgs

Failed == [ok |-> FALSE, if_num |-> NoIf]
Results == [ok : BOOLEAN, if_num : IfNums \cup {NoIf}]

TypeOK ==
    /\ sem \in Callers \cup {Nobody}
    /\ done \in Nat
    /\ response \in {"ACK", "NACK"}
    /\ current_if_num \in IfNums \cup {NoIf}
    /\ type \in [IfNums -> Types \cup {NONE}]
    /\ pc \in [Callers -> {"idle", "down", "tx", "wait", "check", "read"}]
    /\ msg \in [Callers -> Msgs \cup {NONE}]
    /\ result \in [Callers -> Results]
    /\ requests \in Seq(Msgs)
    /\ replies \in Seq(Msgs)
    /\ node \in [IfNums -> Types \cup {NONE}]
    /\ answer \in [Callers -> Msgs \cup {NONE}]
    /\ overdue \in BOOLEAN

\* nss_dynamic_interface_register_handler().
Init ==
    /\ sem = Nobody
    /\ done = 0
    /\ response = "ACK"
    /\ current_if_num = NoIf
    /\ type = [i \in IfNums |-> NONE]
    /\ pc = [c \in Callers |-> "idle"]
    /\ msg = [c \in Callers |-> NONE]
    /\ result = [c \in Callers |-> Failed]
    /\ requests = << >>
    /\ replies = << >>
    /\ node = [i \in IfNums |-> NONE]
    /\ answer = [c \in Callers |-> NONE]
    /\ overdue = FALSE

(***************************************************************************)
(* The callers.                                                            *)
(***************************************************************************)

\* History only: messages of a call that is over are no one's any more.
Disown(c, q) ==
    [i \in DOMAIN q |-> IF q[i].from = c THEN [q[i] EXCEPT !.from = Nobody]
                                         ELSE q[i]]

Call(c, op, t, i) ==
    /\ pc[c] = "idle"
    /\ msg' = [msg EXCEPT ![c] = [from |-> c, op |-> op, type |-> t,
                                  if_num |-> i, ack |-> FALSE]]
    /\ result' = [result EXCEPT ![c] = Failed]
    /\ answer' = [answer EXCEPT ![c] = NONE]
    /\ pc' = [pc EXCEPT ![c] = "down"]
    /\ UNCHANGED << sem, done, response, current_if_num, type, requests,
                    replies, node, overdue >>

\* if_num is -1 until the NSS has chosen one.
nss_dynamic_interface_alloc_node(c, t) == Call(c, "alloc", t, NoIf)

nss_dynamic_interface_dealloc_node(c, i, t) == Call(c, "dealloc", t, i)

Return(c, r) ==
    /\ result' = [result EXCEPT ![c] = r]
    /\ pc' = [pc EXCEPT ![c] = "idle"]
    /\ msg' = [msg EXCEPT ![c] = NONE]

\* nss_dynamic_interface_tx_sync(): down(), and response = false, which is
\* NSS_CMN_RESPONSE_ACK.
Down(c) ==
    /\ pc[c] = "down"
    /\ sem = Nobody
    /\ sem' = c
    /\ response' = "ACK"
    /\ pc' = [pc EXCEPT ![c] = "tx"]
    /\ UNCHANGED << done, current_if_num, type, msg, result, requests,
                    replies, node, answer, overdue >>

Tx(c) ==
    /\ pc[c] = "tx"
    /\ Len(requests) < RingMax
    /\ requests' = Append(requests, msg[c])
    /\ pc' = [pc EXCEPT ![c] = "wait"]
    /\ UNCHANGED << sem, done, response, current_if_num, type, msg, result,
                    replies, node, answer, overdue >>

\* The ring is full, or there is no memory: up() and return the status.
TxFailure(c) ==
    /\ pc[c] = "tx"
    /\ sem' = Nobody
    /\ Return(c, Failed)
    /\ UNCHANGED << done, response, current_if_num, type, requests, replies,
                    node, answer, overdue >>

\* wait_for_completion_timeout() finds the completion done; up().
Wake(c) ==
    /\ pc[c] = "wait"
    /\ done > 0
    /\ done' = done - 1
    /\ sem' = Nobody
    /\ pc' = [pc EXCEPT ![c] = "check"]
    /\ UNCHANGED << response, current_if_num, type, msg, result, requests,
                    replies, node, answer, overdue >>

\* Mutant of TimeOut: the error path forgets up().
TimeOut_NoUp(c) ==
    /\ pc[c] = "wait"
    /\ done = 0
    /\ requests' = Disown(c, requests)
    /\ replies' = Disown(c, replies)
    /\ overdue' = TRUE
    /\ Return(c, Failed)
    /\ UNCHANGED << sem, done, response, current_if_num, type, node, answer >>

\* It does not: up() and return a failure; the message is still on its way.
TimeOut(c) ==
    /\ pc[c] = "wait"
    /\ done = 0
    /\ sem' = Nobody
    /\ requests' = Disown(c, requests)
    /\ replies' = Disown(c, replies)
    /\ overdue' = TRUE
    /\ Return(c, Failed)
    /\ UNCHANGED << done, response, current_if_num, type, node, answer >>

\* Past up(), the caller looks at di.response ...
Check(c) ==
    /\ pc[c] = "check"
    /\ IF response = "ACK" /\ msg[c].op = "alloc"
       THEN /\ pc' = [pc EXCEPT ![c] = "read"]
            /\ UNCHANGED << msg, result >>
       ELSE Return(c, [ok |-> response = "ACK", if_num |-> NoIf])
    /\ requests' = Disown(c, requests)
    /\ replies' = Disown(c, replies)
    /\ UNCHANGED << sem, done, response, current_if_num, type, node, answer,
                    overdue >>

\* ... and, after an allocation, returns di.current_if_num.
ReadIfNum(c) ==
    /\ pc[c] = "read"
    /\ Return(c, [ok |-> TRUE, if_num |-> current_if_num])
    /\ UNCHANGED << sem, done, response, current_if_num, type, requests,
                    replies, node, answer, overdue >>

(***************************************************************************)
(* The answer.                                                             *)
(***************************************************************************)

\* External: the NSS takes a free node, frees the one named, or refuses.
Accepted(m) ==
    IF m.op = "alloc"
    THEN {[m EXCEPT !.if_num = i, !.ack = TRUE] : i \in {j \in IfNums : node[j] = NONE}}
    ELSE {[m EXCEPT !.ack = TRUE] : i \in {j \in {m.if_num} : node[j] = m.type}}

FirmwareAnswer ==
    /\ requests # << >>
    /\ Len(replies) < RingMax
    /\ \E r \in Accepted(Head(requests)) \cup {Head(requests)} :
        /\ replies' = Append(replies, r)
        /\ node' = IF r.ack
                   THEN [node EXCEPT ![r.if_num] =
                            IF r.op = "alloc" THEN r.type ELSE NONE]
                   ELSE node
    /\ requests' = Tail(requests)
    /\ UNCHANGED << sem, done, response, current_if_num, type, pc, msg, result,
                    answer, overdue >>

\* Mutant of StoreAnswer: a deallocation leaves the type in the table.
StoreAnswer_KeepsType(r) ==
    /\ current_if_num' = IF r.ack THEN r.if_num ELSE current_if_num
    /\ type' = IF r.ack /\ r.op = "alloc"
               THEN [type EXCEPT ![r.if_num] = r.type] ELSE type

\* nss_dynamic_interface_handler() stores an ACK's number and type.
StoreAnswer(r) ==
    IF r.ack
    THEN /\ current_if_num' = r.if_num
         /\ type' = [type EXCEPT ![r.if_num] =
                        IF r.op = "alloc" THEN r.type ELSE NONE]
    ELSE UNCHANGED << current_if_num, type >>

\* Mutant of nss_dynamic_interface_callback: the waiter is completed twice.
nss_dynamic_interface_callback_Twice(r) ==
    /\ response' = IF r.ack THEN "ACK" ELSE "NACK"
    /\ done' = done + 2

\* nss_dynamic_interface_callback() then wakes whoever waits.
nss_dynamic_interface_callback(r) ==
    /\ response' = IF r.ack THEN "ACK" ELSE "NACK"
    /\ done' = done + 1

nss_dynamic_interface_handler ==
    LET r == Head(replies)
    IN  /\ replies # << >>
        /\ StoreAnswer(r)
        /\ nss_dynamic_interface_callback(r)
        /\ replies' = Tail(replies)
        /\ answer' = IF r.from = Nobody THEN answer
                     ELSE [answer EXCEPT ![r.from] = r]
        /\ UNCHANGED << sem, pc, msg, result, requests, node, overdue >>

Step(c) ==
    Down(c) \/ Tx(c) \/ TxFailure(c) \/ Wake(c) \/ TimeOut(c) \/ Check(c) \/ ReadIfNum(c)

Next ==
    \/ \E c \in Callers :
        \/ \E t \in Types : nss_dynamic_interface_alloc_node(c, t)
        \/ \E t \in Types, i \in IfNums : nss_dynamic_interface_dealloc_node(c, i, t)
        \/ Step(c)
    \/ FirmwareAnswer
    \/ nss_dynamic_interface_handler

Spec == Init /\ [][Next]_vars

\* The waiters of a semaphore are served in turn, a timeout expires, and a
\* caller that can run does.  Nothing is assumed of the NSS.
Fairness ==
    \A c \in Callers :
        /\ SF_vars(Down(c))
        /\ WF_vars(Tx(c) \/ TxFailure(c))
        /\ WF_vars(Wake(c) \/ TimeOut(c))
        /\ WF_vars(Check(c))
        /\ WF_vars(ReadIfNum(c))

FairSpec == Spec /\ Fairness

(***************************************************************************)
(* Properties.                                                             *)
(***************************************************************************)

\* nss_dynamic_interface_get_type() tells the truth: with no message on its
\* way, the host's table has the type of exactly the nodes that exist in the
\* NSS, also after answers that came too late for their callers.
TypeTableMirrorsNss ==
    requests = << >> /\ replies = << >> => type = node

\* As long as the answers come in time, a completion is only ever pending
\* for the message of the caller that holds the semaphore: "wait till we get
\* an ACK or NACK for this msg" (nss_dynamic_interface_tx_sync()), and
\* nothing is left over to wake the next caller.
NoStaleCompletion ==
    done > 0 /\ ~ overdue => /\ done = 1
                             /\ sem # Nobody
                             /\ pc[sem] = "wait"
                             /\ answer[sem] # NONE

\* The state is well typed, and a completion belongs to the call that waits.
WellFormed == TypeOK /\ NoStaleCompletion

\* Every call returns, even if the NSS never answers.
CallReturns == \A c \in Callers : (pc[c] # "idle") ~> (pc[c] = "idle")
=============================================================================
