----------------------------- MODULE HostConfig -----------------------------
(***************************************************************************)
(* The sysctls that configure the firmware: the numbers of IPv4 and IPv6   *)
(* connections (nss_ipv4.c, nss_ipv6.c) and the buffer pool, water mark,   *)
(* Wi-Fi pool, RPS and mitigation settings of N2H (nss_n2h.c).  A write    *)
(* changes the host's variable, sends a message under a semaphore, waits   *)
(* for the answer with a timeout and, in some of the handlers, restores    *)
(* the variable on failure.  nss_core_init_nss() sets the two connection   *)
(* variables from the NAPI poll, without any of the semaphores.            *)
(*                                                                         *)
(* Connection numbers are in units of 1024; 0 stands for a number that is  *)
(* too small or no multiple of the unit, and in the pool settings for the  *)
(* initial -1, that is for what the firmware starts with.                  *)
(***************************************************************************)
EXTENDS Integers, Sequences, FiniteSets, TLC

CONSTANTS
    Callers,     \* processes that use the sysctls
    ConnValues,  \* what they write into the connection settings
    OtherValues, \* and into the others
    UsedSets,    \* bound: the sets of settings used in one behaviour
    MaxTotal,    \* NSS_MAX_TOTAL_NUM_CONN_IPV4_IPV6
    MaxIpv4,     \* max_ipv4_conn, the module parameter
    MaxIpv6,     \* max_ipv6_conn
    RingMax,     \* bound: the host's messages in either ring at a time
    TimeOuts,    \* whether an answer may take longer than the timeout
    Nobody

(***************************************************************************)
(* The settings: sem names the semaphore, the completion and the response  *)
(* that a setting uses; parse says whether the handler takes the semaphore *)
(* before the user's value is written; restore whether a failure puts the  *)
(* old value back; read what a read does before it shows the variable.     *)
(***************************************************************************)
ipv4_conn == [sem |-> "i4cfgp", parse |-> "locked", restore |-> TRUE,
              read |-> "variable"]
ipv6_conn == [sem |-> "i6cfgp", parse |-> "locked", restore |-> TRUE,
              read |-> "variable"]
empty_pool_buf == [sem |-> "nepbcfgp", parse |-> "locked", restore |-> TRUE,
                   read |-> "nss"]
water_mark == [sem |-> "nepbcfgp", parse |-> "locked", restore |-> TRUE,
               read |-> "nss"]
wifi_payloads == [sem |-> "wp", parse |-> "locked", restore |-> FALSE,
                  read |-> "zero"]
rps == [sem |-> "rcp", parse |-> "unlocked", restore |-> FALSE,
        read |-> "variable"]
mitigation == [sem |-> "mitigationcp", parse |-> "unlocked", restore |-> FALSE,
               read |-> "variable"]

Setting ==
    [ipv4_conn |-> ipv4_conn, ipv6_conn |-> ipv6_conn,
     empty_pool_buf |-> empty_pool_buf, water_mark |-> water_mark,
     wifi_payloads |-> wifi_payloads, rps |-> rps, mitigation |-> mitigation]

Knobs == DOMAIN Setting
Sems == {Setting[k].sem : k \in Knobs}
Pool == {"empty_pool_buf", "water_mark"}
Conn == {"ipv4_conn", "ipv6_conn"}
Flags == {"rps", "mitigation"}

ASSUME ValueAssumption == ConnValues \subseteq Nat /\ OtherValues \subseteq Nat
ASSUME UsedAssumption == \A u \in UsedSets : u \subseteq Knobs

\* The default numbers of connections fit.
ASSUME ConnAssumption ==
    /\ MaxTotal \in Nat /\ MaxIpv4 \in Nat /\ MaxIpv6 \in Nat
    /\ 4 + 4 <= MaxTotal
ASSUME BoundAssumption == RingMax \in Nat \ {0} /\ TimeOuts \in BOOLEAN
ASSUME NobodyAssumption == Nobody \notin Callers

VARIABLES
    used,      \* the settings used in this behaviour
    up,        \* the cores that are initialized
    value,     \* the variables behind the sysctls
    saved,     \* current_value, empty_buf_pool, low_water and high_water
    flag,      \* nss_ctx->n2h_rps_en and n2h_mitigate_en
    sem,       \* who holds each semaphore
    done,      \* the completions
    response,  \* the response fields
    pc,        \* where each caller is
    call,      \* its call
    requests,  \* messages in the command ring of core 0
    replies,   \* messages in its N2H ring
    nss,       \* what the firmware has in force
    overdue,   \* history: semaphores under which a call has timed out
    adrift     \* history: connection settings changed behind a semaphore, or
               \* without the firmware

ring == << requests, replies, nss >>
vars == << used, up, value, saved, flag, sem, done, response, pc, call, ring,
           overdue, adrift >>

\* NSS_DEFAULT_NUM_CONN, "RPS off", "mitigation on", and -1 for the pools.
Default == [k \in Knobs |-> IF k \in Conn THEN 4
                            ELSE IF k = "mitigation" THEN 1 ELSE 0]

AllValues == ConnValues \cup OtherValues \cup {MaxIpv4, MaxIpv6, 0, 1, 4}

Values(k) == IF k \in Conn THEN ConnValues ELSE OtherValues

Calls == [op : {"read", "write"}, knob : Knobs, val : AllValues]
NoCall == [op |-> "read", knob |-> "rps", val |-> 0]

\* info is the answer to nss_n2h_get_payload_info().
Msgs == [type : {"set", "get", "update"}, knob : Knobs, val : AllValues,
         ack : BOOLEAN, info : [Pool -> AllValues]]

Msg(type, k, v) == [type |-> type, knob |-> k, val |-> v, ack |-> FALSE,
                    info |-> [p \in Pool |-> 0]]

TypeOK ==
    /\ used \subseteq Knobs
    /\ up \subseteq {0, 1}
    /\ value \in [Knobs -> AllValues]
    /\ saved \in [Knobs -> AllValues]
    /\ flag \in [Flags -> AllValues]
    /\ sem \in [Sems -> Callers \cup {Nobody}]
    /\ done \in [Sems -> Nat]
    /\ response \in [Sems -> {"SUCCESS", "FAILURE"}]
    /\ pc \in [Callers -> {"idle", "test", "down", "parse", "tx", "wait", "check"}]
    /\ call \in [Callers -> Calls]
    /\ requests \in Seq(Msgs)
    /\ replies \in Seq(Msgs)
    /\ nss \in [Knobs -> AllValues]
    /\ overdue \subseteq Sems
    /\ adrift \subseteq Conn

\* nss_ipv4_register_sysctl() and nss_n2h_register_sysctl(), which run before
\* any core is up.
Init ==
    /\ used \in UsedSets
    /\ up = {}
    /\ value = Default
    /\ saved = Default
    /\ flag = [k \in Flags |-> Default[k]]
    /\ sem = [s \in Sems |-> Nobody]
    /\ done = [s \in Sems |-> 0]
    /\ response = [s \in Sems |-> "SUCCESS"]
    /\ pc = [c \in Callers |-> "idle"]
    /\ call = [c \in Callers |-> NoCall]
    /\ requests = << >>
    /\ replies = << >>
    /\ nss = Default
    /\ overdue = {}
    /\ adrift = {}

Goto(c, l) == pc' = [pc EXCEPT ![c] = l]
SemOf(c) == Setting[call[c].knob].sem

(***************************************************************************)
(* What is accepted.                                                       *)
(***************************************************************************)

\* Mutant of nss_ipv4_conn_cfg_process: the sum is not checked.
nss_ipv4_conn_cfg_process_NoSum(v) == v >= 1

nss_ipv4_conn_cfg_process(v) ==
    v >= 1 /\ v + value["ipv6_conn"] <= MaxTotal

nss_ipv6_conn_cfg_process(v) ==
    v >= 1 /\ value["ipv4_conn"] + v <= MaxTotal

\* The value is the variable's, read again after it was written.
Acceptable(k) ==
    CASE k = "ipv4_conn" -> nss_ipv4_conn_cfg_process(value[k])
      [] k = "ipv6_conn" -> nss_ipv6_conn_cfg_process(value[k])
      [] k \in Flags -> TRUE
      [] OTHER -> value[k] >= 1

\* Runtime changes go one way only: RPS on, mitigation off.
nss_n2h_rpscfg_handler == value["rps"] = 1
nss_n2h_mitigationcfg_handler == value["mitigation"] = 0

FlagAccepted(k) ==
    IF k = "rps" THEN nss_n2h_rpscfg_handler ELSE nss_n2h_mitigationcfg_handler

\* What the message says: a flag is sent as a constant.
Payload(k) ==
    CASE k = "rps" -> 1 [] k = "mitigation" -> 0 [] OTHER -> value[k]

(***************************************************************************)
(* The handlers of the sysctls.                                            *)
(***************************************************************************)
Call(c, op, k, v) ==
    /\ pc[c] = "idle"
    /\ k \in used
    /\ call' = [call EXCEPT ![c] = [op |-> op, knob |-> k, val |-> v]]
    /\ Goto(c, "down")
    /\ UNCHANGED << used, up, value, saved, flag, sem, done, response, ring,
                    overdue, adrift >>

Write(c, k, v) == Setting[k].parse = "locked" /\ Call(c, "write", k, v)

\* The handlers for the two flags write the variable first ...
WriteFlag(c, k, v) ==
    /\ Setting[k].parse = "unlocked"
    /\ pc[c] = "idle"
    /\ k \in used
    /\ value' = [value EXCEPT ![k] = v]
    /\ call' = [call EXCEPT ![c] = [op |-> "write", knob |-> k, val |-> v]]
    /\ Goto(c, "test")
    /\ UNCHANGED << used, up, saved, flag, sem, done, response, ring, overdue,
                    adrift >>

\* ... and look at what it holds by then.
TestFlag(c) ==
    /\ pc[c] = "test"
    /\ Goto(c, IF FlagAccepted(call[c].knob) THEN "down" ELSE "idle")
    /\ call' = IF FlagAccepted(call[c].knob) THEN call
               ELSE [call EXCEPT ![c] = NoCall]
    /\ UNCHANGED << used, up, value, saved, flag, sem, done, response, ring,
                    overdue, adrift >>

\* Only the reads that do more than to show the variable are calls.
Read(c, k) == Setting[k].read # "variable" /\ Call(c, "read", k, 0)

Return(c) ==
    /\ Goto(c, "idle")
    /\ call' = [call EXCEPT ![c] = NoCall]

Up(c) == sem' = [sem EXCEPT ![SemOf(c)] = Nobody]

\* down(), then the snapshot of the current value.
Down(c) ==
    LET k == call[c].knob
    IN  /\ pc[c] = "down"
        /\ sem[SemOf(c)] = Nobody
        /\ sem' = [sem EXCEPT ![SemOf(c)] = c]
        /\ saved' = IF Setting[k].restore THEN [saved EXCEPT ![k] = value[k]]
                    ELSE saved
        /\ Goto(c, IF call[c].op = "write" /\ Setting[k].parse = "locked"
                   THEN "parse" ELSE "tx")
        /\ UNCHANGED << used, up, value, flag, done, response, call, ring,
                        overdue, adrift >>

\* proc_dointvec() puts the user's value into the variable, or fails.
Parse(c) ==
    /\ pc[c] = "parse"
    /\ value' = [value EXCEPT ![call[c].knob] = call[c].val]
    /\ Goto(c, "tx")
    /\ UNCHANGED << used, up, saved, flag, sem, done, response, call, ring,
                    overdue, adrift >>

ParseError(c) ==
    /\ pc[c] = "parse"
    /\ Up(c)
    /\ Return(c)
    /\ UNCHANGED << used, up, value, saved, flag, done, response, ring,
                    overdue, adrift >>

\* nss_n2h_cfg_wifi_pool(): a read shows nss_n2h_wp.wifi_pool, never set.
ReadWifiPool(c) ==
    /\ pc[c] = "tx"
    /\ call[c].op = "read"
    /\ Setting[call[c].knob].read = "zero"
    /\ value' = [value EXCEPT ![call[c].knob] = 0]
    /\ Up(c)
    /\ Return(c)
    /\ UNCHANGED << used, up, saved, flag, done, response, ring, overdue,
                    adrift >>

\* nss_n2h_get_payload_info(), or the message with the new value, which is
\* checked first; nothing else can be seen of the check.
Tx(c) ==
    LET k == call[c].knob
    IN  /\ pc[c] = "tx"
        /\ call[c].op = "write" \/ Setting[k].read = "nss"
        /\ 0 \in up
        /\ Len(requests) < RingMax
        /\ call[c].op = "write" => Acceptable(k)
        /\ requests' = Append(requests, IF call[c].op = "write"
                                        THEN Msg("set", k, Payload(k))
                                        ELSE Msg("get", k, 0))
        /\ Goto(c, "wait")
        /\ UNCHANGED << used, up, value, saved, flag, sem, done, response,
                        call, replies, nss, overdue, adrift >>

\* Mutant of Fail: the variable is not restored.
Fail_NoRestore(c) ==
    /\ UNCHANGED value
    /\ Up(c)
    /\ Return(c)

\* The label `failure`; a read that failed gets its own snapshot back.
Fail(c) ==
    /\ value' = IF Setting[call[c].knob].restore
                THEN [value EXCEPT ![call[c].knob] = saved[call[c].knob]]
                ELSE value
    /\ Up(c)
    /\ Return(c)

\* The value was refused, the core is not ready, the ring is full or there
\* is no memory.
TxFailure(c) ==
    /\ pc[c] = "tx"
    /\ call[c].op = "write" \/ Setting[call[c].knob].read = "nss"
    /\ Fail(c)
    /\ UNCHANGED << used, up, saved, flag, done, response, ring, overdue,
                    adrift >>

\* wait_for_completion_timeout() finds the completion done.
Wake(c) ==
    /\ pc[c] = "wait"
    /\ done[SemOf(c)] > 0
    /\ done' = [done EXCEPT ![SemOf(c)] = @ - 1]
    /\ Goto(c, "check")
    /\ UNCHANGED << used, up, value, saved, flag, sem, response, call, ring,
                    overdue, adrift >>

\* Mutant of TimeOut: the semaphore is kept.
TimeOut_NoUp(c) ==
    /\ TimeOuts
    /\ pc[c] = "wait"
    /\ done[SemOf(c)] = 0
    /\ UNCHANGED << value, sem >>
    /\ Return(c)
    /\ overdue' = overdue \cup {SemOf(c)}
    /\ UNCHANGED << used, up, saved, flag, done, response, ring, adrift >>

\* It does not; the message is still on its way.
TimeOut(c) ==
    /\ TimeOuts
    /\ pc[c] = "wait"
    /\ done[SemOf(c)] = 0
    /\ Fail(c)
    /\ overdue' = overdue \cup {SemOf(c)}
    /\ UNCHANGED << used, up, saved, flag, done, response, ring, adrift >>

\* A write that succeeded leaves the variable as the user has written it; a
\* read copies what the callback has stored.
Succeed(c) ==
    /\ pc[c] = "check"
    /\ response[SemOf(c)] = "SUCCESS"
    /\ value' = IF call[c].op = "read"
                THEN [value EXCEPT ![call[c].knob] = saved[call[c].knob]]
                ELSE value
    /\ Up(c)
    /\ Return(c)
    /\ UNCHANGED << used, up, saved, flag, done, response, ring, overdue,
                    adrift >>

Refused(c) ==
    /\ pc[c] = "check"
    /\ response[SemOf(c)] = "FAILURE"
    /\ Fail(c)
    /\ UNCHANGED << used, up, saved, flag, done, response, ring, overdue,
                    adrift >>

(***************************************************************************)
(* nss_core_init_nss() of either core, in its NAPI poll.  Both cores set   *)
(* both variables; only core 0 sends them, with a callback that ignores    *)
(* the answer.  An update whose sum is not acceptable, or whose send fails *)
(* (no memory, a full ring), is not sent: nss_ipv4_update_conn_count()     *)
(* then restores what it found in the variable, which is the module        *)
(* parameter already, and the other update is sent none the less.          *)
(***************************************************************************)
MaxConn == [ipv4_conn |-> MaxIpv4, ipv6_conn |-> MaxIpv6]

\* sent: the updates whose send succeeds.
UpdateConnCount(k, sent) ==
    IF k \in sent /\ MaxConn[k] >= 1 /\ MaxIpv4 + MaxIpv6 <= MaxTotal
    THEN << Msg("update", k, MaxConn[k]) >>
    ELSE << >>

\* History notes what the firmware is not told, or is told behind a semaphore.
nss_core_init_nss(core, sent) ==
    /\ core \notin up
    /\ up' = up \cup {core}
    /\ value' = [value EXCEPT !["ipv4_conn"] = MaxIpv4, !["ipv6_conn"] = MaxIpv6]
    /\ requests' = IF core = 0 THEN requests \o UpdateConnCount("ipv4_conn", sent)
                                            \o UpdateConnCount("ipv6_conn", sent)
                   ELSE requests
    /\ adrift' = adrift \cup {k \in Conn : \/ core = 1
                                          \/ UpdateConnCount(k, sent) = << >>
                                          \/ sem[Setting[k].sem] # Nobody}
    /\ UNCHANGED << used, saved, flag, sem, done, response, pc, call, replies,
                    nss, overdue >>

(***************************************************************************)
(* The answers.                                                            *)
(***************************************************************************)

\* External: the firmware accepts a value or not; a "get" is answered with
\* the pool size and the water marks together.  Nobody hears of a refused
\* update, which history notes.
FirmwareAnswer ==
    LET m == Head(requests)
    IN  /\ requests # << >>
        /\ Len(replies) < RingMax
        /\ \E ack \in BOOLEAN :
            /\ replies' = Append(replies,
                    IF ack /\ m.type = "get"
                    THEN [m EXCEPT !.ack = TRUE, !.info = [p \in Pool |-> nss[p]]]
                    ELSE [m EXCEPT !.ack = ack])
            /\ nss' = IF ack /\ m.type # "get" THEN [nss EXCEPT ![m.knob] = m.val]
                      ELSE nss
            /\ adrift' = IF ~ ack /\ m.type = "update" THEN adrift \cup {m.knob}
                         ELSE adrift
        /\ requests' = Tail(requests)
        /\ UNCHANGED << used, up, value, saved, flag, sem, done, response, pc,
                        call, overdue >>

\* The callbacks of the messages store the answer and complete the waiter.
Callback(r) ==
    /\ done' = [done EXCEPT ![Setting[r.knob].sem] = @ + 1]
    /\ response' = [response EXCEPT ![Setting[r.knob].sem] =
                        IF r.ack THEN "SUCCESS" ELSE "FAILURE"]
    /\ flag' = IF r.ack /\ r.knob \in Flags
               THEN [flag EXCEPT ![r.knob] = r.val] ELSE flag
    /\ saved' = IF r.ack /\ r.type = "get"
                THEN [k \in Knobs |-> IF k \in Pool THEN r.info[k] ELSE saved[k]]
                ELSE saved

\* nss_ipv4_update_conn_count_cb() only logs.
nss_ipv4_update_conn_count_cb == UNCHANGED << done, response, flag, saved >>

\* nss_ipv4_rx_msg_handler() and nss_n2h_interface_handler() call them.
Handler ==
    LET r == Head(replies)
    IN  /\ replies # << >>
        /\ replies' = Tail(replies)
        /\ IF r.type = "update" THEN nss_ipv4_update_conn_count_cb ELSE Callback(r)
        /\ UNCHANGED << used, up, value, sem, pc, call, requests, nss, overdue,
                        adrift >>

AfterDown(c) ==
    \/ Parse(c) \/ ParseError(c) \/ ReadWifiPool(c) \/ Tx(c) \/ TxFailure(c)
    \/ Wake(c) \/ TimeOut(c) \/ Succeed(c) \/ Refused(c)

Next ==
    \/ \E c \in Callers, k \in Knobs :
        \/ Read(c, k)
        \/ \E v \in Values(k) : Write(c, k, v) \/ WriteFlag(c, k, v)
    \/ \E c \in Callers : TestFlag(c) \/ Down(c) \/ AfterDown(c)
    \/ \E sent \in SUBSET Conn : nss_core_init_nss(0, sent)
    \/ nss_core_init_nss(1, {})
    \/ FirmwareAnswer
    \/ Handler

Spec == Init /\ [][Next]_vars

Symmetry == Permutations(Callers)

(***************************************************************************)
(* Properties.                                                             *)
(***************************************************************************)
OnItsWay(k) == \E i \in DOMAIN requests : requests[i].knob = k
Answered(k) == \E i \in DOMAIN replies : replies[i].knob = k
Settled(k) == sem[Setting[k].sem] = Nobody /\ ~ OnItsWay(k) /\ ~ Answered(k)

\* "Restore the current_value to its previous state": once nobody is at a
\* setting with a restoring handler, and nothing of it is in the rings, the
\* variable is what the firmware has in force, whichever of the handler's steps
\* failed.  It is not so once a call timed out, whose message may still have
\* taken effect, nor for a connection setting once nss_core_init_nss() has
\* written the variable behind the semaphore or without an update that was
\* sent and accepted: the code never repairs that, and history names the
\* settings it happened to.
VariableInForce ==
    \A k \in Knobs :
        Setting[k].restore /\ Settled(k) /\ k \notin adrift
            /\ Setting[k].sem \notin overdue => value[k] = nss[k]

\* The driver's own flags, which the data path goes by, agree with the
\* firmware whenever no message about them is on its way, late answers and
\* failed calls included.
FlagInForce ==
    \A k \in Flags : ~ OnItsWay(k) /\ ~ Answered(k) => flag[k] = nss[k]

\* What the driver shows or goes by, variable or flag, is what the firmware
\* has in force.
InForce == VariableInForce /\ FlagInForce

\* "Input for ipv4 and ipv6 sum together should not exceed 8k"
\* (nss_ipv4_conn_cfg_process()).
SumWithinLimit == nss["ipv4_conn"] + nss["ipv6_conn"] <= MaxTotal

\* That is so as long as only one of the two settings is used at run time
\* and the variable of the other one is what the firmware has, except that of
\* the two updates of nss_core_init_nss() one takes effect before the other.
SoleUseWithinLimit ==
    /\ ~ Conn \subseteq used
    /\ adrift = {}
    /\ \A i \in DOMAIN requests : requests[i].type # "update"
    => SumWithinLimit

\* No path through a handler forgets up(): whoever holds a semaphore is in
\* the middle of a call on a setting of that semaphore.
HolderIsActive ==
    \A s \in Sems :
        sem[s] # Nobody => /\ pc[sem[s]] \in {"parse", "tx", "wait", "check"}
                           /\ SemOf(sem[s]) = s

\* The state is well typed, and every semaphore that is down has its call.
WellFormed == TypeOK /\ HolderIsActive
=============================================================================
