-------------------------- MODULE HostConfig_proofs --------------------------
(***************************************************************************)
(* The semaphores of the sysctls have their calls, what the driver shows   *)
(* or goes by is what the firmware has in force, and one setting used      *)
(* alone stays within the limit: for any callers, values, module           *)
(* parameters and rings.                                                   *)
(***************************************************************************)
EXTENDS HostConfig, SequenceTheorems, TLAPS

(***************************************************************************)
(* Who is where.                                                           *)
(***************************************************************************)
Held == {"parse", "tx", "wait", "check"}

\* A semaphore is held by the caller between down() and up().
SemInv ==
    \A s \in Sems, c \in Callers : sem[s] = c <=> pc[c] \in Held /\ SemOf(c) = s

\* What a call can be about where it is.
CallInv ==
    \A c \in Callers :
        /\ pc[c] # "idle" => call[c].knob \in used
        /\ pc[c] = "parse" => call[c].op = "write"
        /\ pc[c] \in {"wait", "check"} /\ call[c].op = "read" => call[c].knob \in Pool

(***************************************************************************)
(* Messages.                                                               *)
(***************************************************************************)
Update(m, k) == m.type = "update" /\ m.knob = k
Of(m, s) == m.type # "update" /\ Setting[m.knob].sem = s

\* The value a flag is set to.
Final == [rps |-> 1, mitigation |-> 0]

Plain(m) ==
    /\ m.type = "update" => m.knob \in Conn /\ m.val = MaxConn[m.knob]
    /\ m.type # "update" => m.knob \in used
    /\ m.type = "get" => m.knob \in Pool
    /\ m.knob \in Flags => m.val = Final[m.knob]

MsgInv ==
    /\ \A i \in 1..Len(requests) : Plain(requests[i]) /\ ~ requests[i].ack
    /\ \A i \in 1..Len(replies) : Plain(replies[i])

\* A flag that has been accepted is set in the firmware from then on, and in
\* the driver when its answer has been handled.
FlagInv ==
    \A k \in Flags :
        IF \E i \in 1..Len(replies) : replies[i].knob = k /\ replies[i].ack
        THEN nss[k] = Final[k]
        ELSE flag[k] = nss[k]

(***************************************************************************)
(* Values.  What the firmware will have when it has seen the updates that  *)
(* nss_core_init_nss() has sent.                                           *)
(***************************************************************************)
Coming(k) == \E i \in 1..Len(requests) : Update(requests[i], k)
Due(k) == IF Coming(k) THEN MaxConn[k] ELSE nss[k]

\* One of the connection settings is never used: its variable is what the
\* module parameter says, and every number asked for fits beside it.
Other(k) == IF k = "ipv4_conn" THEN "ipv6_conn" ELSE "ipv4_conn"

SumInv ==
    \A k \in Conn \ used :
        adrift = {} =>
            IF 0 \in up
            THEN /\ value[k] = MaxConn[k] /\ Due(k) = MaxConn[k]
                 /\ MaxIpv4 + MaxIpv6 <= MaxTotal
                 /\ Due(Other(k)) + MaxConn[k] <= MaxTotal
                 /\ \A i \in 1..Len(requests) :
                        requests[i].knob = Other(k) =>
                            requests[i].val + MaxConn[k] <= MaxTotal
            ELSE /\ nss["ipv4_conn"] = 4 /\ nss["ipv6_conn"] = 4
                 /\ \A i \in 1..Len(requests) : requests[i].knob \notin Conn

Waiting(s) == sem[s] # Nobody /\ pc[sem[s]] = "wait"

\* Until a call has timed out, a semaphore whose holder waits has one message,
\* answer or completion, and any other semaphore has none.
Exact(s) ==
    /\ \A i, j \in 1..Len(requests) : Of(requests[i], s) /\ Of(requests[j], s) => i = j
    /\ \A i, j \in 1..Len(replies) : Of(replies[i], s) /\ Of(replies[j], s) => i = j
    /\ \A i \in 1..Len(requests) : Of(requests[i], s) =>
            Waiting(s) /\ done[s] = 0 /\ requests[i].knob = call[sem[s]].knob
    /\ \A i \in 1..Len(replies) : Of(replies[i], s) =>
            Waiting(s) /\ done[s] = 0 /\ replies[i].knob = call[sem[s]].knob
    /\ \A i \in 1..Len(requests), j \in 1..Len(replies) :
            ~ (Of(requests[i], s) /\ Of(replies[j], s))
    /\ done[s] > 0 => Waiting(s) /\ done[s] = 1

OneInv == \A s \in Sems \ overdue : Exact(s)

\* The holder c of the semaphore of k is at k: what it would restore, what it
\* has written, and what the answer says of either.
At(c, k) == pc[c] \in Held /\ call[c].knob = k

Asked(c, k, m) ==
    /\ saved[k] = Due(k)
    /\ IF call[c].op = "write" THEN m.type = "set" /\ m.val = value[k]
                               ELSE m.type = "get" /\ value[k] = Due(k)

Answers(c, k, m) ==
    IF call[c].op = "write"
    THEN m.type = "set" /\ Due(k) = IF m.ack THEN value[k] ELSE saved[k]
    ELSE /\ m.type = "get" /\ saved[k] = Due(k) /\ value[k] = Due(k)
         /\ m.ack => m.info[k] = Due(k)

Heard(c, k, s) ==
    IF call[c].op = "write"
    THEN Due(k) = IF response[s] = "SUCCESS" THEN value[k] ELSE saved[k]
    ELSE saved[k] = Due(k) /\ value[k] = Due(k)

Value(k, s) ==
    /\ (\A c \in Callers : ~ At(c, k)) => value[k] = Due(k)
    /\ \A c \in Callers : At(c, k) =>
        /\ pc[c] \in {"parse", "tx"} => saved[k] = Due(k)
        /\ pc[c] = "parse" \/ (pc[c] = "tx" /\ call[c].op = "read") => value[k] = Due(k)
        /\ pc[c] = "check" \/ (pc[c] = "wait" /\ done[s] > 0) => Heard(c, k, s)
        /\ \A i \in 1..Len(requests) : Of(requests[i], s) =>
            /\ Asked(c, k, requests[i])
            /\ \A j \in (i + 1)..Len(requests) : ~ Update(requests[j], k)
        /\ \A i \in 1..Len(replies) : Of(replies[i], s) => Answers(c, k, replies[i])

ValueInv ==
    \A k \in Conn \cup Pool :
        k \notin adrift /\ Setting[k].sem \notin overdue => Value(k, Setting[k].sem)

IInv ==
    /\ TypeOK /\ SemInv /\ CallInv /\ MsgInv /\ FlagInv /\ SumInv /\ OneInv /\ ValueInv

(***************************************************************************)
(* The table of settings.                                                  *)
(***************************************************************************)
LEMMA SettingFacts ==
    /\ Knobs = {"ipv4_conn", "ipv6_conn", "empty_pool_buf", "water_mark",
                "wifi_payloads", "rps", "mitigation"}
    /\ \A k \in Knobs :
        /\ Setting[k].sem \in Sems
        /\ Setting[k].restore \in BOOLEAN
        /\ Setting[k].restore <=> k \in Conn \cup Pool
        /\ Setting[k].parse = "unlocked" <=> k \in Flags
        /\ Setting[k].parse = "locked" <=> k \notin Flags
        /\ Setting[k].read = "nss" <=> k \in Pool
        /\ Setting[k].read = "variable" <=> k \in Conn \cup Flags
        /\ Setting[k].read = "zero" <=> k = "wifi_payloads"
    /\ \A j, k \in Knobs : Setting[j].sem = Setting[k].sem =>
                            j = k \/ (j \in Pool /\ k \in Pool)
    /\ \A j, k \in Pool : Setting[j].sem = Setting[k].sem
    /\ Conn \subseteq Knobs /\ Pool \subseteq Knobs /\ Flags \subseteq Knobs
<1>1. Knobs = {"ipv4_conn", "ipv6_conn", "empty_pool_buf", "water_mark",
               "wifi_payloads", "rps", "mitigation"}
    BY DEF Knobs, Setting
<1>2. /\ Setting["ipv4_conn"].sem = "i4cfgp" /\ Setting["ipv6_conn"].sem = "i6cfgp"
      /\ Setting["empty_pool_buf"].sem = "nepbcfgp"
      /\ Setting["water_mark"].sem = "nepbcfgp"
      /\ Setting["wifi_payloads"].sem = "wp"
      /\ Setting["rps"].sem = "rcp" /\ Setting["mitigation"].sem = "mitigationcp"
    BY DEF Setting, ipv4_conn, ipv6_conn, empty_pool_buf, water_mark, wifi_payloads,
           rps, mitigation
<1>3. /\ \A k \in Conn \cup Pool : Setting[k].restore = TRUE
      /\ \A k \in {"wifi_payloads", "rps", "mitigation"} : Setting[k].restore = FALSE
    BY DEF Setting, ipv4_conn, ipv6_conn, empty_pool_buf, water_mark, wifi_payloads,
           rps, mitigation, Conn, Pool
<1>4. /\ \A k \in Flags : Setting[k].parse = "unlocked"
      /\ \A k \in Conn \cup Pool \cup {"wifi_payloads"} : Setting[k].parse = "locked"
    BY DEF Setting, ipv4_conn, ipv6_conn, empty_pool_buf, water_mark, wifi_payloads,
           rps, mitigation, Conn, Pool, Flags
<1>5. /\ \A k \in Pool : Setting[k].read = "nss"
      /\ \A k \in Conn \cup Flags : Setting[k].read = "variable"
      /\ Setting["wifi_payloads"].read = "zero"
    BY DEF Setting, ipv4_conn, ipv6_conn, empty_pool_buf, water_mark, wifi_payloads,
           rps, mitigation, Conn, Pool, Flags
<1>6. \A k \in Knobs : Setting[k].sem \in Sems
    BY DEF Sems
<1>7. /\ \A k \in Knobs : k \in Conn \/ k \in Pool \/ k \in Flags \/ k = "wifi_payloads"
      /\ \A k \in Knobs : k \in {"wifi_payloads", "rps", "mitigation"}
                            <=> k \notin Conn \cup Pool
      /\ \A k \in Flags : k \notin Conn \cup Pool \cup {"wifi_payloads"}
      /\ "wifi_payloads" \notin Conn \cup Pool /\ \A k \in Conn : k \notin Pool
    BY <1>1 DEF Conn, Pool, Flags
<1>8. /\ \A j, k \in Knobs : Setting[j].sem = Setting[k].sem =>
                                j = k \/ (j \in Pool /\ k \in Pool)
      /\ \A j, k \in Pool : Setting[j].sem = Setting[k].sem
    BY <1>1, <1>2 DEF Pool
<1>9. \A k \in Knobs :
        /\ Setting[k].restore \in BOOLEAN
        /\ Setting[k].restore <=> k \in Conn \cup Pool
    BY <1>3, <1>7, Zenon
<1>10. \A k \in Knobs :
        /\ Setting[k].parse = "unlocked" <=> k \in Flags
        /\ Setting[k].parse = "locked" <=> k \notin Flags
        /\ Setting[k].read = "nss" <=> k \in Pool
        /\ Setting[k].read = "variable" <=> k \in Conn \cup Flags
        /\ Setting[k].read = "zero" <=> k = "wifi_payloads"
    BY <1>4, <1>5, <1>7
<1>11. Conn \subseteq Knobs /\ Pool \subseteq Knobs /\ Flags \subseteq Knobs
    BY <1>1 DEF Conn, Pool, Flags
<1> QED  BY <1>1, <1>6, <1>8, <1>9, <1>10, <1>11

\* Every value is a number.
LEMMA ValueFacts ==
    /\ AllValues \subseteq Nat
    /\ {0, 1, 4, MaxIpv4, MaxIpv6} \subseteq AllValues
    /\ \A k \in Conn : MaxConn[k] \in AllValues
    /\ \A k \in Knobs : Values(k) \subseteq AllValues
    /\ Default \in [Knobs -> AllValues]
<1>1. AllValues \subseteq Nat
    BY ValueAssumption, ConnAssumption DEF AllValues
<1>2. {0, 1, 4, MaxIpv4, MaxIpv6} \subseteq AllValues
    BY DEF AllValues
<1>3. \A k \in Conn : MaxConn[k] \in AllValues
    BY <1>2 DEF Conn, MaxConn
<1>4. \A k \in Knobs : Values(k) \subseteq AllValues
    BY DEF Values, AllValues
<1>5. Default \in [Knobs -> AllValues]
    BY <1>2 DEF Default
<1> QED  BY <1>1, <1>2, <1>3, <1>4, <1>5

\* Messages are messages, whatever the firmware makes of them.
LEMMA MsgFacts ==
    ASSUME NEW k \in Knobs, NEW v \in AllValues, NEW type \in {"set", "get", "update"}
    PROVE  /\ Msg(type, k, v) \in Msgs
           /\ Msg(type, k, v).type = type /\ Msg(type, k, v).knob = k
           /\ Msg(type, k, v).val = v /\ ~ Msg(type, k, v).ack
<1>1. [p \in Pool |-> 0] \in [Pool -> AllValues]
    BY ValueFacts
<1> QED  BY <1>1 DEF Msg, Msgs

LEMMA CallFacts ==
    ASSUME TypeOK
    PROVE  \A c \in Callers : /\ call[c] \in Calls /\ call[c].knob \in Knobs
                              /\ call[c].val \in AllValues
                              /\ SemOf(c) \in Sems
                              /\ SemOf(c) = Setting[call[c].knob].sem
<1>1. \A c \in Callers : call[c] \in Calls /\ call[c].knob \in Knobs /\ call[c].val \in AllValues
    BY DEF TypeOK, Calls
<1> QED  BY <1>1, SettingFacts DEF SemOf

LEMMA InitInv == Init => IInv
<1> SUFFICES ASSUME Init PROVE IInv
    OBVIOUS
<1> USE DEF Init
<1>1. NoCall \in Calls /\ NoCall.knob = "rps"
    BY SettingFacts, ValueFacts DEF NoCall, Calls
<1>2. TypeOK
  <2>1. used \subseteq Knobs
      BY UsedAssumption
  <2>2. flag \in [Flags -> AllValues]
      BY ValueFacts, SettingFacts
  <2>3. pc \in [Callers -> {"idle", "test", "down", "parse", "tx", "wait", "check"}]
      OBVIOUS
  <2>4. requests \in Seq(Msgs) /\ replies \in Seq(Msgs)
      OBVIOUS
  <2>5. value \in [Knobs -> AllValues] /\ saved \in [Knobs -> AllValues] /\ nss \in [Knobs -> AllValues]
      BY ValueFacts
  <2> HIDE DEF Init
  <2>6. /\ up = {} /\ sem = [s \in Sems |-> Nobody] /\ done = [s \in Sems |-> 0]
        /\ response = [s \in Sems |-> "SUCCESS"] /\ call = [c \in Callers |-> NoCall]
        /\ overdue = {} /\ adrift = {}
      BY DEF Init
  <2> QED  BY <1>1, <2>1, <2>2, <2>3, <2>4, <2>5, <2>6 DEF TypeOK
<1>3. SemInv
    BY NobodyAssumption DEF SemInv, Held
<1>4. CallInv
    BY DEF CallInv
<1>5. requests = << >> /\ replies = << >> /\ Len(requests) = 0 /\ Len(replies) = 0
    OBVIOUS
<1>6. MsgInv
    BY <1>5 DEF MsgInv
<1>7. FlagInv
  <2>1. \A k \in Flags : flag[k] = nss[k]
      BY SettingFacts DEF Default
  <2> QED  BY <1>5, <2>1 DEF FlagInv
<1>8. SumInv
  <2>1. nss["ipv4_conn"] = 4 /\ nss["ipv6_conn"] = 4
      BY SettingFacts DEF Default, Conn
  <2> QED  BY <1>5, <2>1 DEF SumInv
<1>9. OneInv
    BY <1>5 DEF OneInv, Exact
<1>10. ValueInv
  <2>1. \A k \in Conn \cup Pool : value[k] = Due(k) /\ (\A c \in Callers : ~ At(c, k))
      BY <1>5 DEF Due, Coming, At, Held
  <2> QED  BY <2>1 DEF ValueInv, Value
<1> QED  BY <1>2, <1>3, <1>4, <1>6, <1>7, <1>8, <1>9, <1>10 DEF IInv

(***************************************************************************)
(* The steps of a caller c that sends nothing.                             *)
(***************************************************************************)
Quiet(c) ==
    /\ UNCHANGED << used, up, flag, response, ring, adrift >>
    /\ \A d \in Callers \ {c} : pc'[d] = pc[d] /\ call'[d] = call[d]

\* They leave the messages, the flags and the unused setting alone.
LEMMA QuietInv ==
    ASSUME IInv, NEW c \in Callers, Quiet(c),
           \A k \in Conn \ used : value'[k] = value[k]
    PROVE  MsgInv' /\ FlagInv' /\ SumInv'
<1>1. MsgInv'
    BY DEF IInv, Quiet, ring, MsgInv, Plain
<1>2. FlagInv'
    BY DEF IInv, Quiet, ring, FlagInv
<1>3. SumInv'
    BY DEF IInv, Quiet, ring, SumInv, Due, Coming, Update
<1> QED  BY <1>1, <1>2, <1>3

\* What is known of a setting stays true while its own things stay.
LEMMA ValueSame ==
    ASSUME NEW c \in Callers, Quiet(c), NEW k \in Knobs, NEW s \in Sems, Value(k, s),
           value'[k] = value[k], saved'[k] = saved[k],
           done'[s] = done[s] \/ \A d \in Callers : ~ At(d, k),
           \A d \in Callers : /\ At(d, k)' <=> At(d, k)
                              /\ At(d, k) => pc'[d] = pc[d] /\ call'[d] = call[d]
    PROVE  Value(k, s)'
<1>1. UNCHANGED << requests, replies, nss, response >>
    BY DEF Quiet, ring
<1>2. Due(k)' = Due(k)
    BY <1>1 DEF Due, Coming, Update
<1> QED  BY <1>1, <1>2 DEF Value, Heard, Asked, Answers, Of, Update

LEMMA ExactSame ==
    ASSUME NEW c \in Callers, Quiet(c), NEW s \in Sems, Exact(s),
           done'[s] = done[s], Waiting(s)' <=> Waiting(s),
           Waiting(s) => call'[sem'[s]].knob = call[sem[s]].knob
    PROVE  Exact(s)'
<1>1. requests' = requests /\ replies' = replies
    BY DEF Quiet, ring
<1>2. \A m : Of(m, s)' <=> Of(m, s)
    BY DEF Of
<1> DEFINE W == Waiting(s)
<1>3. W' <=> W
    OBVIOUS
<1>4. W => call'[sem'[s]].knob = call[sem[s]].knob
    OBVIOUS
<1> QED  BY <1>1, <1>2, <1>3, <1>4 DEF Exact, Of

\* A holder's call is its own, and the only one at its setting.
LEMMA HolderFacts ==
    ASSUME IInv, NEW c \in Callers, pc[c] \in Held
    PROVE  /\ sem[SemOf(c)] = c /\ c # Nobody
           /\ \A d \in Callers : pc[d] \in Held /\ SemOf(d) = SemOf(c) => d = c
           /\ \A d \in Callers : At(d, call[c].knob) => d = c
           /\ At(c, call[c].knob)
<1>1. TypeOK /\ SemInv
    BY DEF IInv
<1>2. sem[SemOf(c)] = c /\ c # Nobody
    BY <1>1, CallFacts, NobodyAssumption DEF SemInv
<1>3. \A d \in Callers : pc[d] \in Held /\ SemOf(d) = SemOf(c) => d = c
    BY <1>1, <1>2, CallFacts DEF SemInv
<1>4. \A d \in Callers : At(d, call[c].knob) => pc[d] \in Held /\ SemOf(d) = SemOf(c)
    BY DEF At, SemOf
<1> QED  BY <1>2, <1>3, <1>4 DEF At

(***************************************************************************)
(* Before down(), and behind up().                                         *)
(***************************************************************************)
LEMMA OutsideStep ==
    ASSUME IInv, NEW c \in Callers,
           \/ \E k \in Knobs :
                \/ Read(c, k)
                \/ \E v \in Values(k) : Write(c, k, v) \/ WriteFlag(c, k, v)
           \/ TestFlag(c)
    PROVE  /\ TypeOK' /\ Quiet(c)
           /\ UNCHANGED << saved, sem, done, overdue >>
           /\ \A k \in Conn \cup Pool : value'[k] = value[k]
           /\ pc[c] \notin Held /\ pc'[c] \notin Held
           /\ pc'[c] # "idle" => call'[c].knob \in used
<1>0. TypeOK /\ CallInv
    BY DEF IInv
<1>1. ASSUME NEW op \in {"read", "write"}, NEW k \in Knobs, NEW v \in AllValues,
             Call(c, op, k, v)
      PROVE  /\ TypeOK' /\ Quiet(c)
             /\ UNCHANGED << saved, sem, done, overdue, value >>
             /\ pc[c] \notin Held /\ pc'[c] \notin Held
             /\ pc'[c] # "idle" => call'[c].knob \in used
  <2> DEFINE m == [op |-> op, knob |-> k, val |-> v]
  <2>1. m \in Calls /\ m.knob = k /\ k \in used
      BY <1>1 DEF Call, Calls
  <2>2. /\ call' = [call EXCEPT ![c] = m] /\ pc[c] = "idle" /\ pc' = [pc EXCEPT ![c] = "down"]
        /\ UNCHANGED << used, up, value, saved, flag, sem, done, response, requests,
                        replies, nss, overdue, adrift >>
      BY <1>1 DEF Call, Goto, ring
  <2> HIDE DEF m
  <2>3. TypeOK'
      BY <1>0, <2>1, <2>2 DEF TypeOK
  <2>4. Quiet(c)
      BY <1>0, <2>2 DEF Quiet, TypeOK, ring
  <2> QED  BY <1>0, <2>1, <2>2, <2>3, <2>4 DEF TypeOK, Held
<1>2. ASSUME NEW k \in Knobs, NEW v \in AllValues, WriteFlag(c, k, v)
      PROVE  /\ TypeOK' /\ Quiet(c)
             /\ UNCHANGED << saved, sem, done, overdue >>
             /\ \A j \in Conn \cup Pool : value'[j] = value[j]
             /\ pc[c] \notin Held /\ pc'[c] \notin Held
             /\ pc'[c] # "idle" => call'[c].knob \in used
  <2> DEFINE m == [op |-> "write", knob |-> k, val |-> v]
  <2>1. m \in Calls /\ m.knob = k /\ k \in used
      BY <1>2 DEF WriteFlag, Calls
  <2>2. /\ call' = [call EXCEPT ![c] = m] /\ pc[c] = "idle" /\ pc' = [pc EXCEPT ![c] = "test"]
        /\ value' = [value EXCEPT ![k] = v]
        /\ UNCHANGED << used, up, saved, flag, sem, done, response, requests,
                        replies, nss, overdue, adrift >>
      BY <1>2 DEF WriteFlag, Goto, ring
  <2> HIDE DEF m
  <2>3. TypeOK'
      BY <1>0, <2>1, <2>2 DEF TypeOK
  <2>4. Quiet(c)
      BY <1>0, <2>2 DEF Quiet, TypeOK, ring
  <2>5. k \in Flags /\ \A j \in Conn \cup Pool : j \in Knobs /\ j # k
      BY <1>2, SettingFacts DEF WriteFlag, Conn, Pool, Flags
  <2>6. \A j \in Conn \cup Pool : value'[j] = value[j]
      BY <1>0, <2>2, <2>5 DEF TypeOK
  <2> QED  BY <1>0, <2>1, <2>2, <2>3, <2>4, <2>6 DEF TypeOK, Held
<1>3. ASSUME TestFlag(c)
      PROVE  /\ TypeOK' /\ Quiet(c)
             /\ UNCHANGED << saved, sem, done, overdue, value >>
             /\ pc[c] \notin Held /\ pc'[c] \notin Held
             /\ pc'[c] # "idle" => call'[c].knob \in used
  <2>1. NoCall \in Calls
      BY SettingFacts, ValueFacts DEF NoCall, Calls
  <2>2. /\ pc[c] = "test"
        /\ \/ pc' = [pc EXCEPT ![c] = "down"] /\ call' = call
           \/ pc' = [pc EXCEPT ![c] = "idle"] /\ call' = [call EXCEPT ![c] = NoCall]
        /\ UNCHANGED << used, up, value, saved, flag, sem, done, response, requests,
                        replies, nss, overdue, adrift >>
      BY <1>3 DEF TestFlag, Goto, ring
  <2>3. TypeOK'
      BY <1>0, <2>1, <2>2 DEF TypeOK
  <2>4. Quiet(c)
      BY <1>0, <2>2 DEF Quiet, TypeOK, ring
  <2> QED  BY <1>0, <2>2, <2>3, <2>4 DEF TypeOK, Held, CallInv
<1> QED
  <2>1. ASSUME NEW k \in Knobs, Read(c, k) PROVE Call(c, "read", k, 0)
      BY <2>1 DEF Read
  <2>2. ASSUME NEW k \in Knobs, NEW v \in Values(k), Write(c, k, v)
        PROVE  Call(c, "write", k, v) /\ v \in AllValues
      BY <2>2, ValueFacts DEF Write
  <2>3. \A k \in Knobs : \A v \in Values(k) : v \in AllValues
      BY ValueFacts
  <2> QED  BY <1>1, <1>2, <1>3, <2>1, <2>2, <2>3, ValueFacts

LEMMA OutsideInv ==
    ASSUME IInv, NEW c \in Callers,
           \/ \E k \in Knobs :
                \/ Read(c, k)
                \/ \E v \in Values(k) : Write(c, k, v) \/ WriteFlag(c, k, v)
           \/ TestFlag(c)
    PROVE  IInv'
<1>1. /\ TypeOK' /\ Quiet(c)
      /\ UNCHANGED << saved, sem, done, overdue >>
      /\ \A k \in Conn \cup Pool : value'[k] = value[k]
      /\ pc[c] \notin Held /\ pc'[c] \notin Held
      /\ pc'[c] # "idle" => call'[c].knob \in used
    BY OutsideStep
<1>2. TypeOK /\ SemInv /\ CallInv /\ OneInv /\ ValueInv
    BY DEF IInv
<1>3. SemInv'
    BY <1>1, <1>2 DEF SemInv, SemOf, Quiet
<1>4. CallInv'
    BY <1>1, <1>2 DEF CallInv, Quiet, Held
<1>5. MsgInv' /\ FlagInv' /\ SumInv'
    BY <1>1, QuietInv
<1>6. OneInv'
  <2>1. \A s \in Sems : /\ Waiting(s)' <=> Waiting(s)
                        /\ Waiting(s) => call'[sem[s]] = call[sem[s]]
      BY <1>1, <1>2 DEF Waiting, Quiet, Held, TypeOK
  <2>2. ASSUME NEW s \in Sems, Exact(s) PROVE Exact(s)'
      BY <1>1, <2>1, <2>2, ExactSame
  <2> QED  BY <1>1, <1>2, <2>2 DEF OneInv
<1>7. ValueInv'
  <2>1. ASSUME NEW k \in Conn \cup Pool, NEW d \in Callers
        PROVE  /\ At(d, k)' <=> At(d, k)
               /\ At(d, k) => pc'[d] = pc[d] /\ call'[d] = call[d]
      BY <1>1 DEF At, Quiet
  <2>2. ASSUME NEW k \in Conn \cup Pool, Value(k, Setting[k].sem)
        PROVE  Value(k, Setting[k].sem)'
    <3>1. k \in Knobs /\ Setting[k].sem \in Sems
        BY SettingFacts
    <3> QED  BY <1>1, <2>1, <2>2, <3>1, ValueSame
  <2> QED  BY <1>1, <1>2, <2>2 DEF ValueInv, Quiet
<1> QED  BY <1>1, <1>3, <1>4, <1>5, <1>6, <1>7 DEF IInv

(***************************************************************************)
(* Between down() and up().                                                *)
(***************************************************************************)
LEMMA DownInv == ASSUME IInv, NEW c \in Callers, Down(c) PROVE IInv'
<1>1. TypeOK /\ SemInv /\ CallInv /\ OneInv /\ ValueInv
    BY DEF IInv
<1>k. PICK k \in Knobs : k = call[c].knob
    BY <1>1, CallFacts
<1>s. PICK s \in Sems : s = SemOf(c)
    BY <1>1, CallFacts
<1>2. /\ s = Setting[k].sem /\ call[c] \in Calls /\ c # Nobody
      /\ call[c].knob = k /\ SemOf(c) = s
    BY <1>1, <1>k, <1>s, CallFacts, NobodyAssumption
<1>3. /\ pc[c] = "down" /\ sem[s] = Nobody /\ sem' = [sem EXCEPT ![s] = c]
      /\ saved' = IF Setting[k].restore THEN [saved EXCEPT ![k] = value[k]] ELSE saved
      /\ \/ pc' = [pc EXCEPT ![c] = "parse"] /\ call[c].op = "write"
         \/ pc' = [pc EXCEPT ![c] = "tx"]
      /\ UNCHANGED << used, up, value, flag, done, response, call, requests, replies, nss,
                      overdue, adrift >>
    BY <1>2 DEF Down, Goto, ring
<1>4. TypeOK'
    BY <1>1, <1>2, <1>3 DEF TypeOK
<1>5. /\ Quiet(c) /\ pc'[c] \in {"parse", "tx"}
      /\ sem'[s] = c /\ \A t \in Sems \ {s} : sem'[t] = sem[t]
    BY <1>1, <1>2, <1>3 DEF Quiet, TypeOK, ring
<1>6. \A d \in Callers : ~ (pc[d] \in Held /\ SemOf(d) = s)
    BY <1>1, <1>2, <1>3, NobodyAssumption DEF SemInv
<1>7. SemInv'
  <2>1. \A d \in Callers : SemOf(d)' = SemOf(d)
      BY <1>3 DEF SemOf
  <2>2. pc'[c] \in Held /\ pc[c] \notin Held
      BY <1>3, <1>5 DEF Held
  <2> QED  BY <1>1, <1>2, <1>3, <1>5, <1>6, <2>1, <2>2, NobodyAssumption DEF SemInv, Quiet
<1>8. CallInv'
    BY <1>1, <1>3, <1>5 DEF CallInv, Quiet, TypeOK
<1>9. MsgInv' /\ FlagInv' /\ SumInv'
    BY <1>3, <1>5, QuietInv
<1>10. OneInv'
  <2>1. ASSUME NEW t \in Sems
        PROVE  /\ Waiting(t)' <=> Waiting(t)
               /\ Waiting(t) => call'[sem'[t]].knob = call[sem[t]].knob
    <3>1. CASE t = s
        BY <1>3, <1>5, <3>1 DEF Waiting
    <3>2. CASE t # s
        BY <1>1, <1>3, <1>5, <3>2 DEF Waiting, Quiet, TypeOK
    <3> QED  BY <3>1, <3>2
  <2>2. ASSUME NEW t \in Sems, Exact(t) PROVE Exact(t)'
      BY <1>3, <1>5, <2>1, <2>2, ExactSame
  <2> QED  BY <1>1, <1>3, <2>2 DEF OneInv
<1>11. ValueInv'
  <2> SUFFICES ASSUME NEW j \in Conn \cup Pool, j \notin adrift, Setting[j].sem \notin overdue,
                      Value(j, Setting[j].sem)
               PROVE  Value(j, Setting[j].sem)'
      BY <1>1, <1>3 DEF ValueInv
  <2>0. j \in Knobs /\ Setting[j].sem \in Sems /\ Setting[j].restore
      BY SettingFacts
  <2>1. CASE j = k
    <3>1. \A d \in Callers : ~ At(d, k)
        BY <1>2, <1>6 DEF At, SemOf
    <3>2. value[k] = Due(k)
        BY <2>1, <3>1 DEF Value
    <3>3. \A d \in Callers : At(d, k)' => d = c
        BY <1>3, <1>5, <3>1 DEF At, Quiet
    <3>4. Due(k)' = Due(k)
        BY <1>3 DEF Due, Coming, Update
    <3>5. saved'[k] = Due(k)' /\ value'[k] = Due(k)'
        BY <1>1, <1>2, <1>3, <2>0, <2>1, <3>2, <3>4 DEF TypeOK
    <3>6. ~ Waiting(s)' /\ Exact(s)'
        BY <1>2, <1>5, <1>10, <2>1, <1>3 DEF Waiting, OneInv
    <3>7. /\ \A i \in 1..Len(requests') : ~ Of(requests[i], s)'
          /\ \A i \in 1..Len(replies') : ~ Of(replies[i], s)'
        BY <3>6 DEF Exact, Of
    <3> QED  BY <1>2, <1>5, <2>1, <3>3, <3>5, <3>7 DEF Value, Of
  <2>2. CASE j # k
    <3>1. saved'[j] = saved[j]
        BY <1>1, <1>2, <1>3, <2>0, <2>2 DEF TypeOK
    <3>2. ASSUME NEW d \in Callers
          PROVE  /\ At(d, j)' <=> At(d, j)
                 /\ At(d, j) => pc'[d] = pc[d] /\ call'[d] = call[d]
        BY <1>2, <1>3, <1>5, <2>2 DEF At, Quiet, Held
    <3> QED  BY <1>3, <1>5, <2>0, <3>1, <3>2, ValueSame
  <2> QED  BY <2>1, <2>2
<1> QED  BY <1>4, <1>7, <1>8, <1>9, <1>10, <1>11 DEF IInv

LEMMA ParseInv == ASSUME IInv, NEW c \in Callers, Parse(c) PROVE IInv'
<1>1. TypeOK /\ SemInv /\ CallInv /\ OneInv /\ ValueInv
    BY DEF IInv
<1>k. PICK k \in Knobs : k = call[c].knob
    BY <1>1, CallFacts
<1>s. PICK s \in Sems : s = SemOf(c)
    BY <1>1, CallFacts
<1>2. /\ s = Setting[k].sem /\ call[c] \in Calls /\ call[c].val \in AllValues
      /\ call[c].knob = k /\ SemOf(c) = s
    BY <1>1, <1>k, <1>s, CallFacts
<1>3. /\ pc[c] = "parse" /\ pc' = [pc EXCEPT ![c] = "tx"]
      /\ value' = [value EXCEPT ![k] = call[c].val]
      /\ UNCHANGED << used, up, saved, flag, sem, done, response, call, requests, replies,
                      nss, overdue, adrift >>
    BY <1>2 DEF Parse, Goto, ring
<1>4. TypeOK'
    BY <1>1, <1>2, <1>3 DEF TypeOK
<1>5. Quiet(c) /\ pc'[c] = "tx" /\ pc[c] \in Held /\ pc'[c] \in Held
    BY <1>1, <1>3 DEF Quiet, TypeOK, ring, Held
<1>6. /\ sem[s] = c /\ c # Nobody /\ (\A d \in Callers : At(d, k) => d = c) /\ At(c, k)
      /\ call[c].op = "write" /\ k \in used
    BY <1>1, <1>2, <1>3, <1>5, HolderFacts DEF CallInv
<1>7. SemInv'
  <2>1. \A d \in Callers : SemOf(d)' = SemOf(d)
      BY <1>3 DEF SemOf
  <2> QED  BY <1>1, <1>3, <1>5, <2>1 DEF SemInv, Quiet
<1>8. CallInv'
    BY <1>1, <1>3, <1>5 DEF CallInv, Quiet, TypeOK
<1>9. MsgInv' /\ FlagInv' /\ SumInv'
  <2>1. \A j \in Conn \ used : j \in Knobs /\ j # k
      BY <1>6, SettingFacts
  <2>2. \A j \in Conn \ used : value'[j] = value[j]
      BY <1>1, <1>3, <2>1 DEF TypeOK
  <2> QED  BY <1>5, <2>2, QuietInv
<1>10. OneInv'
  <2>1. ASSUME NEW t \in Sems
        PROVE  /\ Waiting(t)' <=> Waiting(t)
               /\ Waiting(t) => call'[sem'[t]].knob = call[sem[t]].knob
      BY <1>1, <1>3, <1>5 DEF Waiting, Quiet, TypeOK
  <2>2. ASSUME NEW t \in Sems, Exact(t) PROVE Exact(t)'
      BY <1>3, <1>5, <2>1, <2>2, ExactSame
  <2> QED  BY <1>1, <1>3, <2>2 DEF OneInv
<1>11. ValueInv'
  <2> SUFFICES ASSUME NEW j \in Conn \cup Pool, j \notin adrift, Setting[j].sem \notin overdue,
                      Value(j, Setting[j].sem)
               PROVE  Value(j, Setting[j].sem)'
      BY <1>1, <1>3 DEF ValueInv
  <2>0. j \in Knobs /\ Setting[j].sem \in Sems
      BY SettingFacts
  <2>1. CASE j = k
    <3>1. saved[k] = Due(k)
        BY <1>3, <1>6, <2>1 DEF Value
    <3>2. Due(k)' = Due(k)
        BY <1>3 DEF Due, Coming, Update
    <3>3. \A d \in Callers : At(d, k)' => d = c
        BY <1>3, <1>5, <1>6 DEF At, Quiet
    <3>4. ~ Waiting(s) /\ Exact(s)
        BY <1>1, <1>2, <1>3, <1>6, <2>1 DEF Waiting, OneInv
    <3>5. /\ \A i \in 1..Len(requests') : ~ Of(requests'[i], s)
          /\ \A i \in 1..Len(replies') : ~ Of(replies'[i], s)
        BY <1>3, <3>4 DEF Exact
    <3>6. At(c, k)'
        BY <1>3, <1>5, <1>6 DEF At
    <3> QED  BY <1>2, <1>3, <1>5, <1>6, <2>1, <3>1, <3>2, <3>3, <3>5, <3>6 DEF Value, Of
  <2>2. CASE j # k
    <3>1. value'[j] = value[j]
        BY <1>1, <1>2, <1>3, <2>0, <2>2 DEF TypeOK
    <3>2. ASSUME NEW d \in Callers
          PROVE  /\ At(d, j)' <=> At(d, j)
                 /\ At(d, j) => pc'[d] = pc[d] /\ call'[d] = call[d]
        BY <1>2, <1>3, <1>5, <2>2 DEF At, Quiet, Held
    <3> QED  BY <1>3, <1>5, <2>0, <3>1, <3>2, ValueSame
  <2> QED  BY <2>1, <2>2
<1> QED  BY <1>4, <1>7, <1>8, <1>9, <1>10, <1>11 DEF IInv

LEMMA WakeInv == ASSUME IInv, NEW c \in Callers, Wake(c) PROVE IInv'
<1>1. TypeOK /\ SemInv /\ CallInv /\ OneInv /\ ValueInv
    BY DEF IInv
<1>k. PICK k \in Knobs : k = call[c].knob
    BY <1>1, CallFacts
<1>s. PICK s \in Sems : s = SemOf(c)
    BY <1>1, CallFacts
<1>2. s = Setting[k].sem /\ call[c].knob = k /\ SemOf(c) = s
    BY <1>1, <1>k, <1>s, CallFacts
<1>3. /\ pc[c] = "wait" /\ pc' = [pc EXCEPT ![c] = "check"]
      /\ done[s] > 0 /\ done' = [done EXCEPT ![s] = @ - 1]
      /\ UNCHANGED << used, up, value, saved, flag, sem, response, call, requests, replies,
                      nss, overdue, adrift >>
    BY <1>2 DEF Wake, Goto, ring
<1>4. TypeOK'
    BY <1>1, <1>2, <1>3 DEF TypeOK
<1>5. /\ Quiet(c) /\ pc'[c] = "check" /\ pc[c] \in Held /\ pc'[c] \in Held
      /\ done[s] \in Nat /\ done'[s] = done[s] - 1
      /\ \A t \in Sems \ {s} : done'[t] = done[t]
    BY <1>1, <1>3 DEF Quiet, TypeOK, ring, Held
<1>6. sem[s] = c /\ c # Nobody /\ (\A d \in Callers : At(d, k) => d = c) /\ At(c, k)
    BY <1>1, <1>2, <1>3, <1>5, HolderFacts
<1>7. SemInv'
  <2>1. \A d \in Callers : SemOf(d)' = SemOf(d)
      BY <1>3 DEF SemOf
  <2> QED  BY <1>1, <1>3, <1>5, <2>1 DEF SemInv, Quiet
<1>8. CallInv'
    BY <1>1, <1>3, <1>5 DEF CallInv, Quiet, TypeOK
<1>9. MsgInv' /\ FlagInv' /\ SumInv'
    BY <1>3, <1>5, QuietInv
<1>10. OneInv'
  <2>1. ASSUME NEW t \in Sems \ {s}, Exact(t) PROVE Exact(t)'
    <3>1. \A d \in Callers : sem[t] = d => d # c
        BY <1>6, <1>1, <1>2, <2>1 DEF SemInv
    <3>2. /\ Waiting(t)' <=> Waiting(t)
          /\ Waiting(t) => call'[sem'[t]].knob = call[sem[t]].knob
        BY <1>1, <1>3, <1>5, <3>1 DEF Waiting, Quiet, TypeOK
    <3> QED  BY <1>3, <1>5, <2>1, <3>2, ExactSame
  <2>2. ASSUME s \notin overdue PROVE Exact(s)'
    <3>1. Exact(s)
        BY <1>1, <2>2 DEF OneInv
    <3>2. /\ \A i \in 1..Len(requests) : ~ Of(requests[i], s)
          /\ \A i \in 1..Len(replies) : ~ Of(replies[i], s)
          /\ done[s] = 1
        BY <1>3, <1>5, <3>1 DEF Exact
    <3> QED  BY <1>3, <1>5, <3>2 DEF Exact, Of
  <2> QED  BY <1>1, <1>3, <2>1, <2>2 DEF OneInv
<1>11. ValueInv'
  <2> SUFFICES ASSUME NEW j \in Conn \cup Pool, j \notin adrift, Setting[j].sem \notin overdue,
                      Value(j, Setting[j].sem)
               PROVE  Value(j, Setting[j].sem)'
      BY <1>1, <1>3 DEF ValueInv
  <2>0. j \in Knobs /\ Setting[j].sem \in Sems
      BY SettingFacts
  <2>1. CASE j = k
    <3>1. Heard(c, k, s)
        BY <1>2, <1>3, <1>6, <2>1 DEF Value
    <3>2. Due(k)' = Due(k)
        BY <1>3 DEF Due, Coming, Update
    <3>3. Heard(c, k, s)'
        BY <1>3, <3>1, <3>2 DEF Heard
    <3>4. \A d \in Callers : At(d, k)' => d = c
        BY <1>3, <1>5, <1>6 DEF At, Quiet
    <3>5. Exact(s)
        BY <1>1, <1>2, <2>1 DEF OneInv
    <3>6. /\ \A i \in 1..Len(requests') : ~ Of(requests'[i], s)
          /\ \A i \in 1..Len(replies') : ~ Of(replies'[i], s)
        BY <1>3, <1>5, <3>5 DEF Exact
    <3>7. At(c, k)'
        BY <1>3, <1>5, <1>6 DEF At
    <3> QED  BY <1>2, <1>5, <2>1, <3>3, <3>4, <3>6, <3>7 DEF Value, Of
  <2>2. CASE j # k
    <3>1. \/ done'[Setting[j].sem] = done[Setting[j].sem]
          \/ \A d \in Callers : ~ At(d, j)
      <4>1. CASE Setting[j].sem = s
        <5>1. \A d \in Callers : At(d, j) => pc[d] \in Held /\ SemOf(d) = SemOf(c)
            BY <1>2, <4>1 DEF At, SemOf
        <5> QED  BY <1>2, <1>5, <2>2, <5>1, HolderFacts DEF At
      <4>2. CASE Setting[j].sem # s
          BY <1>5, <2>0, <4>2
      <4> QED  BY <4>1, <4>2
    <3>2. ASSUME NEW d \in Callers
          PROVE  /\ At(d, j)' <=> At(d, j)
                 /\ At(d, j) => pc'[d] = pc[d] /\ call'[d] = call[d]
        BY <1>2, <1>3, <1>5, <2>2 DEF At, Quiet, Held
    <3> QED  BY <1>3, <1>5, <2>0, <3>1, <3>2, ValueSame
  <2> QED  BY <2>1, <2>2
<1> QED  BY <1>4, <1>7, <1>8, <1>9, <1>10, <1>11 DEF IInv

(***************************************************************************)
(* up() and out: the variable is what the firmware will have.              *)
(***************************************************************************)
Leave(c) ==
    ParseError(c) \/ ReadWifiPool(c) \/ TxFailure(c) \/ TimeOut(c) \/ Succeed(c) \/ Refused(c)

LEMMA LeaveStep ==
    ASSUME IInv, NEW c \in Callers, Leave(c),
           NEW k \in Knobs, k = call[c].knob, NEW s \in Sems, s = SemOf(c)
    PROVE  /\ pc[c] \in Held /\ pc' = [pc EXCEPT ![c] = "idle"]
           /\ call' = [call EXCEPT ![c] = NoCall]
           /\ sem' = [sem EXCEPT ![s] = Nobody]
           /\ \/ value' = value
              \/ \E x \in AllValues : value' = [value EXCEPT ![k] = x]
           /\ k \in Conn \cup Pool /\ k \notin adrift /\ s \notin overdue'
                => value'[k] = Due(k)
           /\ overdue' = overdue \/ overdue' = overdue \cup {s}
           /\ pc[c] = "wait" => s \in overdue'
           /\ UNCHANGED << used, up, saved, flag, done, response, requests, replies, nss,
                           adrift >>
<1>1. TypeOK /\ CallInv /\ ValueInv
    BY DEF IInv
<1>2. /\ s = Setting[k].sem /\ call[c] \in Calls /\ call[c].knob = k
      /\ value[k] \in AllValues /\ saved[k] \in AllValues /\ value \in [Knobs -> AllValues]
    BY <1>1, CallFacts DEF TypeOK
<1>3. Setting[k].restore <=> k \in Conn \cup Pool
    BY SettingFacts
<1>4. ASSUME pc[c] \in Held, k \in Conn \cup Pool, k \notin adrift, s \notin overdue
      PROVE  /\ pc[c] = "parse" => value[k] = Due(k)
             /\ pc[c] = "tx" => saved[k] = Due(k)
             /\ pc[c] = "check" => Heard(c, k, s)
  <2>1. Value(k, s) /\ At(c, k)
      BY <1>1, <1>2, <1>4 DEF ValueInv, At
  <2> QED  BY <2>1 DEF Value
<1>5. ASSUME Fail(c)
      PROVE  /\ pc' = [pc EXCEPT ![c] = "idle"]
             /\ call' = [call EXCEPT ![c] = NoCall]
             /\ sem' = [sem EXCEPT ![s] = Nobody]
             /\ \/ value' = value
                \/ \E x \in AllValues : value' = [value EXCEPT ![k] = x]
             /\ k \in Conn \cup Pool => value'[k] = saved[k]
  <2>1. value' = IF Setting[k].restore THEN [value EXCEPT ![k] = saved[k]] ELSE value
      BY <1>2, <1>5 DEF Fail
  <2>2. /\ pc' = [pc EXCEPT ![c] = "idle"]
        /\ call' = [call EXCEPT ![c] = NoCall]
        /\ sem' = [sem EXCEPT ![s] = Nobody]
      BY <1>5 DEF Fail, Up, Return, Goto
  <2> QED  BY <1>2, <1>3, <2>1, <2>2
<1>6. CASE ParseError(c)
  <2>1. /\ pc[c] = "parse" /\ pc[c] \in Held
        /\ pc' = [pc EXCEPT ![c] = "idle"]
        /\ call' = [call EXCEPT ![c] = NoCall]
        /\ sem' = [sem EXCEPT ![s] = Nobody]
        /\ UNCHANGED << used, up, value, saved, flag, done, response, requests, replies, nss,
                        overdue, adrift >>
      BY <1>6 DEF ParseError, Up, Return, Goto, ring, Held
  <2> QED  BY <1>4, <2>1
<1>7. CASE ReadWifiPool(c)
  <2>1. /\ pc[c] = "tx" /\ pc[c] \in Held /\ Setting[k].read = "zero"
        /\ pc' = [pc EXCEPT ![c] = "idle"]
        /\ call' = [call EXCEPT ![c] = NoCall]
        /\ sem' = [sem EXCEPT ![s] = Nobody]
        /\ value' = [value EXCEPT ![k] = 0]
        /\ UNCHANGED << used, up, saved, flag, done, response, requests, replies, nss,
                        overdue, adrift >>
      BY <1>2, <1>7 DEF ReadWifiPool, Up, Return, Goto, ring, Held
  <2>2. k \notin Conn \cup Pool /\ 0 \in AllValues
      BY <2>1, SettingFacts, ValueFacts DEF Conn, Pool
  <2> QED  BY <2>1, <2>2
<1>8. CASE TxFailure(c)
  <2>1. /\ pc[c] = "tx" /\ pc[c] \in Held /\ Fail(c)
        /\ UNCHANGED << used, up, saved, flag, done, response, requests, replies, nss,
                        overdue, adrift >>
      BY <1>8 DEF TxFailure, ring, Held
  <2> QED  BY <1>4, <1>5, <2>1
<1>9. CASE TimeOut(c)
  <2>1. /\ pc[c] = "wait" /\ pc[c] \in Held /\ Fail(c) /\ overdue' = overdue \cup {s}
        /\ UNCHANGED << used, up, saved, flag, done, response, requests, replies, nss,
                        adrift >>
      BY <1>9 DEF TimeOut, ring, Held
  <2> QED  BY <1>5, <2>1
<1>10. CASE Succeed(c)
  <2>1. /\ pc[c] = "check" /\ pc[c] \in Held /\ response[s] = "SUCCESS"
        /\ pc' = [pc EXCEPT ![c] = "idle"]
        /\ call' = [call EXCEPT ![c] = NoCall]
        /\ sem' = [sem EXCEPT ![s] = Nobody]
        /\ value' = IF call[c].op = "read" THEN [value EXCEPT ![k] = saved[k]] ELSE value
        /\ UNCHANGED << used, up, saved, flag, done, response, requests, replies, nss,
                        overdue, adrift >>
      BY <1>2, <1>10 DEF Succeed, Up, Return, Goto, ring, Held
  <2>2. k \in Conn \cup Pool /\ k \notin adrift /\ s \notin overdue' => value'[k] = Due(k)
      BY <1>2, <1>4, <2>1 DEF Heard
  <2> QED  BY <1>2, <2>1, <2>2
<1>11. CASE Refused(c)
  <2>1. /\ pc[c] = "check" /\ pc[c] \in Held /\ response[s] = "FAILURE" /\ Fail(c)
        /\ UNCHANGED << used, up, saved, flag, done, response, requests, replies, nss,
                        overdue, adrift >>
      BY <1>11 DEF Refused, ring, Held
  <2>2. k \in Conn \cup Pool /\ k \notin adrift /\ s \notin overdue' => saved[k] = Due(k)
      BY <1>4, <2>1 DEF Heard
  <2> QED  BY <1>5, <2>1, <2>2
<1> QED  BY <1>6, <1>7, <1>8, <1>9, <1>10, <1>11 DEF Leave

LEMMA LeaveInv == ASSUME IInv, NEW c \in Callers, Leave(c) PROVE IInv'
<1>1. TypeOK /\ SemInv /\ CallInv /\ OneInv /\ ValueInv
    BY DEF IInv
<1>k. PICK k \in Knobs : k = call[c].knob
    BY <1>1, CallFacts
<1>s. PICK s \in Sems : s = SemOf(c)
    BY <1>1, CallFacts
<1>2. s = Setting[k].sem /\ call[c].knob = k /\ SemOf(c) = s
    BY <1>1, <1>k, <1>s, CallFacts
<1>3. /\ pc[c] \in Held /\ pc' = [pc EXCEPT ![c] = "idle"]
      /\ call' = [call EXCEPT ![c] = NoCall]
      /\ sem' = [sem EXCEPT ![s] = Nobody]
      /\ \/ value' = value
         \/ \E x \in AllValues : value' = [value EXCEPT ![k] = x]
      /\ k \in Conn \cup Pool /\ k \notin adrift /\ s \notin overdue' => value'[k] = Due(k)
      /\ overdue' = overdue \/ overdue' = overdue \cup {s}
      /\ pc[c] = "wait" => s \in overdue'
      /\ UNCHANGED << used, up, saved, flag, done, response, requests, replies, nss, adrift >>
    BY <1>k, <1>s, LeaveStep
<1>4. TypeOK'
  <2>1. NoCall \in Calls
      BY SettingFacts, ValueFacts DEF NoCall, Calls
  <2>2. value' \in [Knobs -> AllValues]
      BY <1>1, <1>3 DEF TypeOK
  <2> QED  BY <1>1, <1>3, <2>1, <2>2 DEF TypeOK
<1>5. /\ Quiet(c) /\ pc'[c] = "idle"
      /\ sem'[s] = Nobody /\ \A t \in Sems \ {s} : sem'[t] = sem[t]
      /\ \A j \in Knobs \ {k} : value'[j] = value[j]
    BY <1>1, <1>3 DEF Quiet, TypeOK, ring
<1>6. /\ sem[s] = c /\ c # Nobody
      /\ \A d \in Callers : pc[d] \in Held /\ SemOf(d) = s => d = c
    BY <1>2, <1>3, HolderFacts
<1>7. SemInv'
  <2>1. \A d \in Callers \ {c} : SemOf(d)' = SemOf(d) /\ pc'[d] = pc[d]
      BY <1>5 DEF SemOf, Quiet
  <2>2. pc'[c] \notin Held
      BY <1>5 DEF Held
  <2>3. ASSUME NEW t \in Sems, NEW d \in Callers
        PROVE  sem'[t] = d <=> pc'[d] \in Held /\ SemOf(d)' = t
    <3>1. sem[t] = d <=> pc[d] \in Held /\ SemOf(d) = t
        BY <1>1 DEF SemInv
    <3>2. d # Nobody
        BY NobodyAssumption
    <3> QED  BY <1>2, <1>5, <1>6, <2>1, <2>2, <3>1, <3>2
  <2> QED  BY <2>3 DEF SemInv
<1>8. CallInv'
    BY <1>1, <1>3, <1>5 DEF CallInv, Quiet
<1>9. MsgInv' /\ FlagInv' /\ SumInv'
  <2>1. k \in used
      BY <1>1, <1>2, <1>3 DEF CallInv, Held
  <2>2. \A j \in Conn \ used : value'[j] = value[j]
      BY <1>5, <2>1, SettingFacts
  <2> QED  BY <1>5, <2>2, QuietInv
<1>10. OneInv'
  <2>1. ASSUME NEW t \in Sems \ {s}, Exact(t) PROVE Exact(t)'
    <3>1. sem[t] # c
        BY <1>1, <1>2, <2>1 DEF SemInv
    <3>2. /\ Waiting(t)' <=> Waiting(t)
          /\ Waiting(t) => call'[sem'[t]].knob = call[sem[t]].knob
        BY <1>1, <1>5, <3>1 DEF Waiting, Quiet, TypeOK
    <3> QED  BY <1>3, <1>5, <2>1, <3>2, ExactSame
  <2>2. ASSUME s \notin overdue', s \notin overdue PROVE Exact(s)'
    <3>1. Exact(s)
        BY <1>1, <2>2 DEF OneInv
    <3>2. ~ Waiting(s) /\ ~ Waiting(s)'
        BY <1>3, <1>5, <1>6, <2>2 DEF Waiting
    <3> QED  BY <1>3, <1>5, <3>1, <3>2, ExactSame
  <2> QED  BY <1>1, <1>3, <2>1, <2>2 DEF OneInv
<1>11. ValueInv'
  <2> SUFFICES ASSUME NEW j \in Conn \cup Pool, j \notin adrift, Setting[j].sem \notin overdue,
                      Setting[j].sem \notin overdue', Value(j, Setting[j].sem)
               PROVE  Value(j, Setting[j].sem)'
      BY <1>1, <1>3 DEF ValueInv
  <2>0. j \in Knobs /\ Setting[j].sem \in Sems
      BY SettingFacts
  <2>1. CASE j = k
    <3>1. value'[k] = Due(k) /\ Due(k)' = Due(k)
        BY <1>2, <1>3, <2>1 DEF Due, Coming, Update
    <3>2. \A d \in Callers : ~ At(d, k)'
        BY <1>2, <1>5, <1>6 DEF At, Quiet, Held, SemOf
    <3> QED  BY <1>2, <2>1, <3>1, <3>2 DEF Value
  <2>2. CASE j # k
    <3>1. ASSUME NEW d \in Callers
          PROVE  /\ At(d, j)' <=> At(d, j)
                 /\ At(d, j) => pc'[d] = pc[d] /\ call'[d] = call[d]
        BY <1>2, <1>5, <2>2 DEF At, Quiet, Held
    <3> QED  BY <1>3, <1>5, <2>0, <2>2, <3>1, ValueSame
  <2> QED  BY <2>1, <2>2
<1> QED  BY <1>4, <1>7, <1>8, <1>9, <1>10, <1>11 DEF IInv

(***************************************************************************)
(* A message is sent.                                                      *)
(***************************************************************************)
LEMMA TxStep ==
    ASSUME IInv, NEW c \in Callers, Tx(c),
           NEW k \in Knobs, k = call[c].knob, NEW s \in Sems, s = SemOf(c)
    PROVE  \E m \in Msgs :
            /\ requests' = Append(requests, m)
            /\ m.knob = k /\ ~ m.ack /\ Plain(m)
            /\ call[c].op = "read" => m.type = "get" /\ k \in Pool
            /\ call[c].op = "write" =>
                 m.type = "set" /\ Acceptable(k) /\ (k \notin Flags => m.val = value[k])
<1>1. TypeOK /\ CallInv
    BY DEF IInv
<1>2. /\ call[c] \in Calls /\ call[c].op \in {"read", "write"} /\ value[k] \in AllValues
      /\ pc[c] = "tx"
    BY <1>1, CallFacts DEF TypeOK, Calls, Tx
<1>3. k \in used
    BY <1>1, <1>2 DEF CallInv
<1>4. CASE call[c].op = "write"
  <2>1. Payload(k) \in AllValues /\ (k \notin Flags => Payload(k) = value[k])
        /\ (k \in Flags => Payload(k) = Final[k])
      BY <1>2, ValueFacts DEF Payload, Flags, Final
  <2> DEFINE m == Msg("set", k, Payload(k))
  <2>2. requests' = Append(requests, m) /\ Acceptable(k)
      BY <1>4 DEF Tx
  <2>3. m \in Msgs /\ m.type = "set" /\ m.knob = k /\ m.val = Payload(k) /\ ~ m.ack
      BY <2>1, MsgFacts
  <2> HIDE DEF m
  <2>4. Plain(m)
      BY <1>3, <2>1, <2>3 DEF Plain
  <2> QED  BY <1>4, <2>1, <2>2, <2>3, <2>4
<1>5. CASE call[c].op = "read"
  <2>1. k \in Pool /\ k \notin Flags
      BY <1>5, SettingFacts DEF Tx, Pool, Flags
  <2> DEFINE m == Msg("get", k, 0)
  <2>2. requests' = Append(requests, m)
      BY <1>5 DEF Tx
  <2>3. m \in Msgs /\ m.type = "get" /\ m.knob = k /\ ~ m.ack
      BY MsgFacts, ValueFacts
  <2> HIDE DEF m
  <2>4. Plain(m)
      BY <1>3, <2>1, <2>3 DEF Plain
  <2> QED  BY <1>5, <2>1, <2>2, <2>3, <2>4
<1> QED  BY <1>2, <1>4, <1>5

\* A number of connections that is sent has passed the check of the sum.
LEMMA AcceptableSum ==
    ASSUME NEW k, Acceptable(k)
    PROVE  /\ k = "ipv4_conn" => value[k] + value["ipv6_conn"] <= MaxTotal
           /\ k = "ipv6_conn" => value["ipv4_conn"] + value[k] <= MaxTotal
<1>1. ASSUME k = "ipv4_conn" PROVE value[k] + value["ipv6_conn"] <= MaxTotal
  <2>1. nss_ipv4_conn_cfg_process(value[k])
      BY <1>1 DEF Acceptable, Flags
  <2> QED  BY <2>1 DEF nss_ipv4_conn_cfg_process
<1>2. ASSUME k = "ipv6_conn" PROVE value["ipv4_conn"] + value[k] <= MaxTotal
  <2>1. nss_ipv6_conn_cfg_process(value[k])
      BY <1>2 DEF Acceptable, Flags
  <2> QED  BY <2>1 DEF nss_ipv6_conn_cfg_process
<1> QED  BY <1>1, <1>2

LEMMA TxInv == ASSUME IInv, NEW c \in Callers, Tx(c) PROVE IInv'
<1>1. TypeOK /\ SemInv /\ CallInv /\ MsgInv /\ FlagInv /\ SumInv /\ OneInv /\ ValueInv
    BY DEF IInv
<1>k. PICK k \in Knobs : k = call[c].knob
    BY <1>1, CallFacts
<1>s. PICK s \in Sems : s = SemOf(c)
    BY <1>1, CallFacts
<1>2. /\ s = Setting[k].sem /\ call[c].knob = k /\ SemOf(c) = s
      /\ call[c].op \in {"read", "write"}
    BY <1>1, <1>k, <1>s, CallFacts DEF Calls
<1>3. /\ pc[c] = "tx" /\ pc' = [pc EXCEPT ![c] = "wait"] /\ 0 \in up
      /\ UNCHANGED << used, up, value, saved, flag, sem, done, response, call, replies, nss,
                      overdue, adrift >>
    BY <1>2 DEF Tx, Goto, ring
<1>4. PICK m \in Msgs :
          /\ requests' = Append(requests, m)
          /\ m.knob = k /\ ~ m.ack /\ Plain(m)
          /\ call[c].op = "read" => m.type = "get" /\ k \in Pool
          /\ call[c].op = "write" =>
               m.type = "set" /\ Acceptable(k) /\ (k \notin Flags => m.val = value[k])
    BY <1>k, <1>s, TxStep
<1>5. m.type # "update" /\ Of(m, s)
    BY <1>2, <1>4 DEF Of
<1>n. PICK N \in Nat : N = Len(requests)
    BY <1>1 DEF TypeOK
<1>6. /\ requests \in Seq(Msgs) /\ N = Len(requests) /\ requests' \in Seq(Msgs)
      /\ Len(requests') = N + 1
      /\ \A i \in 1..N : requests'[i] = requests[i] /\ i \in 1..(N + 1)
      /\ requests'[N + 1] = m /\ N + 1 \in 1..(N + 1)
      /\ \A i \in 1..(N + 1) : i \in 1..N \/ i = N + 1
  <2>1. requests \in Seq(Msgs)
      BY <1>1 DEF TypeOK
  <2> QED  BY <1>4, <1>n, <2>1, AppendProperties
<1>7. TypeOK'
    BY <1>1, <1>3, <1>6 DEF TypeOK
<1>8. /\ pc[c] \in Held /\ pc'[c] = "wait" /\ pc'[c] \in Held
      /\ \A d \in Callers \ {c} : pc'[d] = pc[d]
    BY <1>1, <1>3 DEF Held, TypeOK
<1>9. /\ sem[s] = c /\ c # Nobody /\ (\A d \in Callers : At(d, k) => d = c) /\ At(c, k)
      /\ \A d \in Callers : pc[d] \in Held /\ SemOf(d) = s => d = c
    BY <1>2, <1>8, HolderFacts
<1>10. SemInv'
  <2>1. \A d \in Callers : SemOf(d)' = SemOf(d)
      BY <1>3 DEF SemOf
  <2> QED  BY <1>1, <1>3, <1>8, <2>1 DEF SemInv
<1>11. CallInv'
    BY <1>1, <1>2, <1>3, <1>4, <1>8 DEF CallInv
<1>12. MsgInv'
  <2>1. \A q : Plain(q)' <=> Plain(q)
      BY <1>3 DEF Plain
  <2>2. \A i \in 1..(N + 1) : Plain(requests'[i]) /\ ~ requests'[i].ack
      BY <1>1, <1>4, <1>6 DEF MsgInv
  <2>3. \A i \in 1..Len(replies) : Plain(replies[i])
      BY <1>1 DEF MsgInv
  <2> HIDE DEF Plain
  <2> QED  BY <1>3, <1>6, <2>1, <2>2, <2>3 DEF MsgInv, Plain
<1>13. FlagInv'
    BY <1>1, <1>3 DEF FlagInv
<1>14. \A j : Coming(j)' <=> Coming(j)
    BY <1>5, <1>6 DEF Coming, Update
<1>15. \A j : Due(j)' = Due(j)
    BY <1>3, <1>14 DEF Due
<1>16. SumInv'
  <2> SUFFICES ASSUME NEW j \in Conn \ used, adrift = {}
               PROVE  \A i \in 1..(N + 1) :
                          requests'[i].knob = Other(j) =>
                              requests'[i].val + MaxConn[j] <= MaxTotal
    <3>1. \A j \in Conn \ used : adrift = {} =>
            /\ value[j] = MaxConn[j] /\ Due(j) = MaxConn[j]
            /\ MaxIpv4 + MaxIpv6 <= MaxTotal
            /\ Due(Other(j)) + MaxConn[j] <= MaxTotal
        BY <1>1, <1>3 DEF SumInv
    <3>2. \A j : Due(Other(j))' = Due(Other(j))
        BY <1>15 DEF Other
    <3> HIDE DEF Due, Other
    <3> QED  BY <1>3, <1>6, <1>15, <3>1, <3>2 DEF SumInv, Other
  <2>1. /\ value[j] = MaxConn[j]
        /\ \A i \in 1..N : requests[i].knob = Other(j) =>
                              requests[i].val + MaxConn[j] <= MaxTotal
      BY <1>1, <1>3, <1>6 DEF SumInv
  <2>2. ASSUME k = Other(j) PROVE m.val + MaxConn[j] <= MaxTotal
    <3>1. k \in Conn /\ k \notin Pool /\ k \notin Flags /\ j \in Conn
        BY <2>2 DEF Other, Conn, Pool, Flags
    <3>2. Acceptable(k) /\ m.val = value[k]
        BY <1>2, <1>4, <3>1
    <3>3. value[k] \in Nat /\ value[j] \in Nat
      <4>1. value \in [Knobs -> AllValues] /\ Conn \subseteq Knobs
          BY <1>1, SettingFacts DEF TypeOK, Conn
      <4>2. AllValues \subseteq Nat
          BY ValueFacts
      <4> QED  BY <3>1, <4>1, <4>2
    <3>4. value[k] + value[j] <= MaxTotal
      <4>1. CASE k = "ipv4_conn"
        <5>1. j = "ipv6_conn"
            BY <2>2, <3>1, <4>1 DEF Other, Conn
        <5> QED  BY <3>2, <3>3, <4>1, <5>1, AcceptableSum
      <4>2. CASE k = "ipv6_conn"
        <5>1. j = "ipv4_conn"
            BY <2>2, <3>1, <4>2 DEF Other, Conn
        <5> QED  BY <3>2, <3>3, <4>2, <5>1, AcceptableSum
      <4> QED  BY <3>1, <4>1, <4>2 DEF Conn
    <3> QED  BY <2>1, <3>2, <3>4
  <2> QED  BY <1>4, <1>6, <2>1, <2>2
<1>17. \A q, t : Of(q, t)' <=> Of(q, t)
    BY DEF Of
<1>18. \A t \in Sems : t # s => (Waiting(t)' <=> Waiting(t)) /\ ~ Of(m, t)
  <2>1. ASSUME NEW t \in Sems, t # s PROVE sem[t] # c
      BY <1>1, <1>2, <2>1 DEF SemInv
  <2>2. ASSUME NEW t \in Sems, t # s PROVE Waiting(t)' <=> Waiting(t)
      BY <1>1, <1>3, <1>8, <2>1, <2>2 DEF Waiting, TypeOK
  <2> QED  BY <1>2, <1>4, <2>2 DEF Of
<1>19. s \notin overdue =>
            /\ \A i \in 1..N : ~ Of(requests[i], s)
            /\ \A i \in 1..Len(replies) : ~ Of(replies[i], s)
            /\ done[s] = 0
  <2>1. ~ Waiting(s)
      BY <1>3, <1>9 DEF Waiting
  <2>2. done[s] \in Nat
      BY <1>1 DEF TypeOK
  <2> QED  BY <1>1, <1>6, <2>1, <2>2 DEF OneInv, Exact
<1>20. OneInv'
  <2>1. ASSUME NEW t \in Sems, t # s, Exact(t) PROVE Exact(t)'
    <3>1. \A i \in 1..(N + 1) : Of(requests'[i], t) =>
                                    i \in 1..N /\ requests'[i] = requests[i]
        BY <1>6, <1>18, <2>1
    <3>2. Waiting(t)' <=> Waiting(t)
        BY <1>18, <2>1
    <3> HIDE DEF Of, Waiting
    <3>3. \A i \in 1..(N + 1) : Of(requests'[i], t) => i \in 1..N /\ Of(requests[i], t)
        BY <3>1
    <3>4. Len(requests') = N + 1 /\ N = Len(requests) /\ replies' = replies
          /\ done' = done /\ call' = call /\ sem' = sem
        BY <1>3, <1>6
    <3>5. /\ \A i, j \in 1..(N + 1) : Of(requests'[i], t) /\ Of(requests'[j], t) => i = j
          /\ \A i \in 1..(N + 1), j \in 1..Len(replies) :
                    ~ (Of(requests'[i], t) /\ Of(replies[j], t))
        BY <2>1, <3>3, <3>4 DEF Exact
    <3>6. \A i \in 1..(N + 1) : Of(requests'[i], t) =>
              Waiting(t) /\ done[t] = 0 /\ requests'[i].knob = call[sem[t]].knob
        BY <2>1, <3>1, <3>3, <3>4 DEF Exact
    <3>7. /\ \A i, j \in 1..Len(replies) : Of(replies[i], t) /\ Of(replies[j], t) => i = j
          /\ \A i \in 1..Len(replies) : Of(replies[i], t) =>
                Waiting(t) /\ done[t] = 0 /\ replies[i].knob = call[sem[t]].knob
          /\ done[t] > 0 => Waiting(t) /\ done[t] = 1
        BY <2>1 DEF Exact
    <3>8. \A q : Of(q, t)' <=> Of(q, t)
        BY <1>17
    <3> QED  BY <3>2, <3>4, <3>5, <3>6, <3>7, <3>8 DEF Exact, Of
  <2>2. ASSUME s \notin overdue PROVE Exact(s)'
    <3>1. \A i \in 1..(N + 1) : Of(requests'[i], s) => i = N + 1
        BY <1>6, <1>19, <2>2
    <3>2. Waiting(s)'
        BY <1>3, <1>8, <1>9 DEF Waiting
    <3>3. requests'[N + 1].knob = call[sem[s]].knob
        BY <1>2, <1>4, <1>6, <1>9
    <3> QED  BY <1>3, <1>6, <1>19, <2>2, <3>1, <3>2, <3>3 DEF Exact, Of
  <2> QED  BY <1>1, <1>3, <2>1, <2>2 DEF OneInv
<1>21. ValueInv'
  <2> SUFFICES ASSUME NEW j \in Conn \cup Pool, j \notin adrift, Setting[j].sem \notin overdue,
                      Value(j, Setting[j].sem)
               PROVE  Value(j, Setting[j].sem)'
      BY <1>1, <1>3 DEF ValueInv
  <2>0. j \in Knobs /\ Setting[j].sem \in Sems
      BY SettingFacts
  <2>1. \A d \in Callers : At(d, j)' <=> At(d, j)
      BY <1>3, <1>8 DEF At
  <2>2. CASE j = k
    <3>1. /\ saved[k] = Due(k) /\ (call[c].op = "read" => value[k] = Due(k))
          /\ Due(k)' = Due(k)
        BY <1>2, <1>3, <1>9, <1>15, <2>2 DEF Value
    <3>2. k \notin Flags
        BY <2>2 DEF Conn, Pool, Flags
    <3>3. Asked(c, k, m)'
        BY <1>2, <1>3, <1>4, <3>1, <3>2 DEF Asked
    <3>4. /\ \A i \in 1..(N + 1) : Of(requests'[i], s) => i = N + 1
          /\ \A i \in 1..Len(replies) : ~ Of(replies[i], s)
          /\ done[s] = 0
        BY <1>2, <1>6, <1>19, <2>2
    <3>5. \A i \in ((N + 1) + 1)..(N + 1) : FALSE
        BY <1>6
    <3>6. At(c, k)' /\ \A d \in Callers : At(d, k)' => d = c
        BY <1>9, <2>1, <2>2
    <3>7. Asked(c, k, requests[N + 1])'
        BY <1>6, <3>3 DEF Asked
    <3> QED  BY <1>2, <1>3, <1>6, <1>8, <2>2, <3>4, <3>5, <3>6, <3>7 DEF Value, Of, Update
  <2>3. CASE j # k /\ Setting[j].sem = s
    <3>1. \A d \in Callers : ~ At(d, j)
      <4>1. \A d \in Callers : At(d, j) => pc[d] \in Held /\ SemOf(d) = s
          BY <2>3 DEF At, SemOf
      <4> QED  BY <1>2, <1>9, <2>3, <4>1 DEF At
    <3>2. value[j] = Due(j) /\ Due(j)' = Due(j)
        BY <1>15, <3>1 DEF Value
    <3> QED  BY <1>3, <2>1, <3>1, <3>2 DEF Value
  <2>4. CASE j # k /\ Setting[j].sem # s
    <3> DEFINE t == Setting[j].sem
    <3>1. \A i \in 1..(N + 1) : Of(requests'[i], t) => i \in 1..N /\ requests'[i] = requests[i]
        BY <1>6, <1>18, <2>0, <2>4
    <3>2. \A i \in 1..N : \A l \in (i + 1)..(N + 1) :
                \/ l \in (i + 1)..N /\ requests'[l] = requests[l]
                \/ ~ Update(requests'[l], j)
      <4>1. \A i \in 1..N : \A l \in (i + 1)..(N + 1) :
                (l \in (i + 1)..N /\ l \in 1..N) \/ l = N + 1
          BY <1>6
      <4> QED  BY <1>5, <1>6, <4>1 DEF Update
    <3>3. \A d \in Callers : At(d, j) => d # c
        BY <1>2, <2>4 DEF At
    <3>4. ASSUME NEW d \in Callers, At(d, j) PROVE pc'[d] = pc[d]
        BY <1>8, <3>3, <3>4
    <3>5. Due(j)' = Due(j)
        BY <1>15
    <3> HIDE DEF t
    <3>6. Value(j, t)
        BY DEF t
    <3>7. Value(j, t)'
      <4>1. \A q, d : /\ Asked(d, j, q)' <=> Asked(d, j, q)
                      /\ Answers(d, j, q)' <=> Answers(d, j, q)
          BY <1>3, <3>5 DEF Asked, Answers
      <4>2. \A d : Heard(d, j, t)' <=> Heard(d, j, t)
          BY <1>3, <3>5 DEF Heard, t
      <4> QED  BY <1>3, <1>6, <2>1, <3>1, <3>2, <3>4, <3>5, <3>6, <4>1, <4>2
               DEF Value, Of, Update, Asked, t
    <3> QED  BY <3>7 DEF t
  <2> QED  BY <2>2, <2>3, <2>4
<1> QED  BY <1>7, <1>10, <1>11, <1>12, <1>13, <1>16, <1>20, <1>21 DEF IInv

(***************************************************************************)
(* nss_core_init_nss() overwrites both connection settings.                *)
(***************************************************************************)
LEMMA UpdateFacts ==
    ASSUME NEW q \in Seq(Msgs), NEW k \in Conn, NEW sent
    PROVE  LET U == UpdateConnCount(k, sent)
           IN  /\ q \o U \in Seq(Msgs) /\ Len(q \o U) \in Nat
               /\ Len(q \o U) = Len(q) \/ Len(q \o U) = Len(q) + 1
               /\ \A i \in 1..Len(q) : (q \o U)[i] = q[i]
               /\ Len(q \o U) = Len(q) + 1 =>
                    LET m == (q \o U)[Len(q) + 1]
                    IN  Update(m, k) /\ Plain(m) /\ ~ m.ack /\ m.val = MaxConn[k]
               /\ U # << >> => /\ Len(q \o U) = Len(q) + 1
                               /\ MaxIpv4 + MaxIpv6 <= MaxTotal
<1> DEFINE U == UpdateConnCount(k, sent)
           m == Msg("update", k, MaxConn[k])
<1>1. /\ m \in Msgs /\ m.type = "update" /\ m.knob = k /\ m.val = MaxConn[k] /\ ~ m.ack
  <2>1. k \in Knobs /\ MaxConn[k] \in AllValues
      BY SettingFacts, ValueFacts
  <2> QED  BY <2>1, MsgFacts
<1>2. U = << m >> \/ U = << >>
    BY DEF UpdateConnCount
<1>3. U # << >> => MaxIpv4 + MaxIpv6 <= MaxTotal
    BY DEF UpdateConnCount
<1> HIDE DEF m, U
<1>4. k \notin Flags
    BY DEF Conn, Flags
<1>5. Plain(m) /\ Update(m, k)
    BY <1>1, <1>4 DEF Plain, Update
<1>6. CASE U = << >>
    BY <1>6 DEF U
<1>7. CASE U = << m >>
  <2>1. /\ q \o U = Append(q, m)
        /\ U # << >>
      BY <1>1, <1>7
  <2>2. /\ Append(q, m) \in Seq(Msgs)
        /\ Len(Append(q, m)) = Len(q) + 1
        /\ \A i \in 1..Len(q) : Append(q, m)[i] = q[i]
        /\ Append(q, m)[Len(q) + 1] = m
      BY <1>1, AppendProperties
  <2> QED  BY <1>1, <1>3, <1>5, <2>1, <2>2 DEF U
<1> QED  BY <1>2, <1>6, <1>7

LEMMA CoreInv ==
    ASSUME IInv, NEW core \in {0, 1}, NEW sent, nss_core_init_nss(core, sent)
    PROVE  IInv'
<1>1. TypeOK /\ SemInv /\ CallInv /\ MsgInv /\ FlagInv /\ SumInv /\ OneInv /\ ValueInv
    BY DEF IInv
<1>2. /\ core \notin up /\ up' = up \cup {core}
      /\ value' = [value EXCEPT !["ipv4_conn"] = MaxIpv4, !["ipv6_conn"] = MaxIpv6]
      /\ UNCHANGED << used, saved, flag, sem, done, response, pc, call, replies, nss, overdue >>
    BY DEF nss_core_init_nss
<1>3. adrift' = adrift \cup {k \in Conn : \/ core = 1
                                          \/ UpdateConnCount(k, sent) = << >>
                                          \/ sem[Setting[k].sem] # Nobody}
    BY DEF nss_core_init_nss
<1>n. PICK N \in Nat : N = Len(requests)
    BY <1>1 DEF TypeOK
<1>o. PICK P \in Nat : P = Len(requests')
  <2>1. requests' \in Seq(Msgs)
      BY <1>1, UpdateFacts DEF nss_core_init_nss, TypeOK, Conn
  <2> QED  BY <2>1
<1>4. /\ requests' \in Seq(Msgs) /\ P >= N
      /\ \A i \in 1..N : requests'[i] = requests[i] /\ i \in 1..P
      /\ \A i \in 1..P : i \in 1..N \/ i \in (N + 1)..P
      /\ \A i \in (N + 1)..P :
            /\ i \in 1..P
            /\ Plain(requests'[i]) /\ ~ requests'[i].ack /\ requests'[i].type = "update"
            /\ requests'[i].knob \in Conn /\ requests'[i].val = MaxConn[requests'[i].knob]
      /\ \A k \in Conn : core = 0 /\ UpdateConnCount(k, sent) # << >> =>
            \E i \in (N + 1)..P : Update(requests'[i], k)
  <2>0. requests \in Seq(Msgs) /\ {"ipv4_conn", "ipv6_conn"} = Conn
      BY <1>1 DEF TypeOK, Conn
  <2>1. CASE core = 1
      BY <1>n, <1>o, <2>0, <2>1 DEF nss_core_init_nss
  <2>2. CASE core = 0
    <3> DEFINE a == requests \o UpdateConnCount("ipv4_conn", sent)
               b == a \o UpdateConnCount("ipv6_conn", sent)
    <3>1. requests' = b
        BY <2>2 DEF nss_core_init_nss
    <3>2. /\ a \in Seq(Msgs) /\ Len(a) \in Nat
          /\ Len(a) = N \/ Len(a) = N + 1
          /\ \A i \in 1..N : a[i] = requests[i]
          /\ Len(a) = N + 1 => /\ Update(a[N + 1], "ipv4_conn") /\ Plain(a[N + 1])
                               /\ ~ a[N + 1].ack /\ a[N + 1].val = MaxConn["ipv4_conn"]
          /\ UpdateConnCount("ipv4_conn", sent) # << >> => Len(a) = N + 1
        BY <1>n, <2>0, UpdateFacts
    <3> HIDE DEF a
    <3>3. /\ b \in Seq(Msgs) /\ Len(b) \in Nat
          /\ Len(b) = Len(a) \/ Len(b) = Len(a) + 1
          /\ \A i \in 1..Len(a) : b[i] = a[i]
          /\ Len(b) = Len(a) + 1 =>
                /\ Update(b[Len(a) + 1], "ipv6_conn") /\ Plain(b[Len(a) + 1])
                /\ ~ b[Len(a) + 1].ack /\ b[Len(a) + 1].val = MaxConn["ipv6_conn"]
          /\ UpdateConnCount("ipv6_conn", sent) # << >> => Len(b) = Len(a) + 1
        BY <2>0, <3>2, UpdateFacts
    <3> HIDE DEF b
    <3>4. P = Len(b) /\ P >= N /\ N <= Len(a) /\ Len(a) <= P
        BY <1>o, <3>1, <3>2, <3>3
    <3>5. /\ \A i \in 1..N : b[i] = requests[i] /\ i \in 1..P
          /\ \A i \in 1..P : i \in 1..N \/ i \in (N + 1)..P
        BY <3>2, <3>3, <3>4
    <3>6. ASSUME NEW i \in (N + 1)..P
          PROVE  /\ i \in 1..P
                 /\ Plain(b[i]) /\ ~ b[i].ack /\ b[i].type = "update"
                 /\ b[i].knob \in Conn /\ b[i].val = MaxConn[b[i].knob]
      <4>1. CASE i <= Len(a)
        <5>1. i = N + 1 /\ Len(a) = N + 1 /\ i \in 1..Len(a)
            BY <3>2, <4>1
        <5> QED  BY <2>0, <3>2, <3>3, <3>4, <5>1 DEF Update
      <4>2. CASE ~ i <= Len(a)
        <5>1. i = Len(a) + 1 /\ Len(b) = Len(a) + 1
            BY <3>2, <3>3, <3>4, <4>2
        <5> QED  BY <2>0, <3>3, <3>4, <5>1 DEF Update
      <4> QED  BY <4>1, <4>2
    <3>7. UpdateConnCount("ipv4_conn", sent) # << >> =>
                \E i \in (N + 1)..P : Update(b[i], "ipv4_conn")
      <4> SUFFICES ASSUME UpdateConnCount("ipv4_conn", sent) # << >>
                   PROVE  N + 1 \in (N + 1)..P /\ Update(b[N + 1], "ipv4_conn")
          OBVIOUS
      <4> QED  BY <3>2, <3>3, <3>4
    <3>8. UpdateConnCount("ipv6_conn", sent) # << >> =>
                \E i \in (N + 1)..P : Update(b[i], "ipv6_conn")
      <4> SUFFICES ASSUME UpdateConnCount("ipv6_conn", sent) # << >>
                   PROVE  /\ Len(a) + 1 \in (N + 1)..P
                          /\ Update(b[Len(a) + 1], "ipv6_conn")
          OBVIOUS
      <4> QED  BY <3>2, <3>3, <3>4
    <3> QED  BY <2>0, <3>1, <3>3, <3>4, <3>5, <3>6, <3>7, <3>8
  <2> QED  BY <2>1, <2>2
<1>5. TypeOK'
  <2>1. value' \in [Knobs -> AllValues]
      BY <1>1, <1>2, ValueFacts DEF TypeOK
  <2>2. up' \subseteq {0, 1} /\ adrift' \subseteq Conn
      BY <1>1, <1>2, <1>3 DEF TypeOK
  <2> QED  BY <1>1, <1>2, <1>4, <2>1, <2>2 DEF TypeOK
<1>6. SemInv' /\ CallInv' /\ FlagInv'
  <2>1. SemInv'
      BY <1>1, <1>2 DEF SemInv, SemOf
  <2>2. CallInv'
      BY <1>1, <1>2 DEF CallInv
  <2>3. FlagInv'
      BY <1>1, <1>2 DEF FlagInv
  <2> QED  BY <2>1, <2>2, <2>3
<1>7. MsgInv'
  <2>1. \A q : Plain(q)' <=> Plain(q)
      BY <1>2 DEF Plain
  <2>2. \A i \in 1..P : Plain(requests'[i]) /\ ~ requests'[i].ack
      BY <1>1, <1>n, <1>4 DEF MsgInv
  <2>3. \A i \in 1..Len(replies) : Plain(replies[i])
      BY <1>1 DEF MsgInv
  <2> HIDE DEF Plain
  <2> QED  BY <1>2, <1>o, <2>1, <2>2, <2>3 DEF MsgInv, Plain
<1>8. \A q, t : Of(q, t)' <=> Of(q, t)
    BY DEF Of
<1>9. ASSUME NEW k \in Conn, k \notin adrift'
      PROVE  /\ value'[k] = MaxConn[k] /\ Due(k)' = MaxConn[k]
             /\ core = 0 /\ sem[Setting[k].sem] = Nobody /\ MaxIpv4 + MaxIpv6 <= MaxTotal
  <2>1. core = 0 /\ UpdateConnCount(k, sent) # << >> /\ sem[Setting[k].sem] = Nobody
      BY <1>3, <1>9
  <2>2. value'[k] = MaxConn[k]
      BY <1>1, <1>2, SettingFacts DEF TypeOK, MaxConn, Conn
  <2>3. \E i \in 1..P : Update(requests'[i], k)
      BY <1>4, <2>1
  <2>4. Coming(k)'
      BY <1>o, <2>3 DEF Coming, Update
  <2>5. MaxIpv4 + MaxIpv6 <= MaxTotal
      BY <2>1 DEF UpdateConnCount
  <2> QED  BY <2>1, <2>2, <2>4, <2>5 DEF Due
<1>10. SumInv'
  <2> SUFFICES ASSUME NEW j \in Conn \ used, adrift' = {}
               PROVE  /\ 0 \in up'
                      /\ value'[j] = MaxConn[j] /\ Due(j)' = MaxConn[j]
                      /\ MaxIpv4 + MaxIpv6 <= MaxTotal
                      /\ Due(Other(j))' + MaxConn[j] <= MaxTotal
                      /\ \A i \in 1..P :
                            requests'[i].knob = Other(j) =>
                                requests'[i].val + MaxConn[j] <= MaxTotal
      BY <1>2, <1>o DEF SumInv, Other, Due, Coming, Update
  <2>1. Other(j) \in Conn /\ j \in Conn
      BY DEF Other, Conn
  <2>2. /\ value'[j] = MaxConn[j] /\ Due(j)' = MaxConn[j] /\ core = 0
        /\ MaxIpv4 + MaxIpv6 <= MaxTotal
      BY <1>9, <2>1
  <2>3. Due(Other(j))' = MaxConn[Other(j)]
    <3>1. \A k \in Conn : Due(k)' = MaxConn[k]
        BY <1>9
    <3> QED  BY <2>1, <3>1 DEF Due, Coming, Update, Other
  <2>4. MaxConn[Other(j)] + MaxConn[j] <= MaxTotal
      BY <2>2, ConnAssumption DEF Other, Conn, MaxConn
  <2>5. \A i \in 1..N : requests[i].knob \notin Conn
      BY <1>1, <1>2, <1>3, <1>n, <2>2 DEF SumInv
  <2>6. \A i \in 1..P : requests'[i].knob = Other(j) =>
            requests'[i].val = MaxConn[Other(j)]
      BY <1>4, <2>1, <2>5
  <2> QED  BY <1>2, <2>2, <2>3, <2>4, <2>6
<1>11. OneInv'
  <2>1. ASSUME NEW t \in Sems, Exact(t) PROVE Exact(t)'
    <3>1. \A i \in 1..P : Of(requests'[i], t) => i \in 1..N /\ requests'[i] = requests[i]
        BY <1>4 DEF Of
    <3>2. Waiting(t)' <=> Waiting(t)
        BY <1>2 DEF Waiting
    <3> HIDE DEF Of, Waiting
    <3> QED  BY <1>2, <1>n, <1>o, <1>8, <2>1, <3>1, <3>2 DEF Exact, Of
  <2> QED  BY <1>1, <1>2, <2>1 DEF OneInv
<1>12. ValueInv'
  <2> SUFFICES ASSUME NEW j \in Conn \cup Pool, j \notin adrift', Setting[j].sem \notin overdue,
                      Value(j, Setting[j].sem)
               PROVE  Value(j, Setting[j].sem)'
      BY <1>1, <1>2, <1>3 DEF ValueInv
  <2>1. CASE j \in Conn
    <3>1. \A d \in Callers : ~ At(d, j)
      <4>1. \A d \in Callers : At(d, j) => sem[Setting[j].sem] = d
          BY <1>1, <2>1, SettingFacts DEF At, SemOf, SemInv
      <4> QED  BY <1>9, <2>1, <4>1, NobodyAssumption
    <3>2. value'[j] = Due(j)'
        BY <1>9, <2>1
    <3>3. \A d \in Callers : ~ At(d, j)'
        BY <1>2, <3>1 DEF At
    <3> QED  BY <3>2, <3>3 DEF Value
  <2>2. CASE j \in Pool
    <3> DEFINE t == Setting[j].sem
    <3>1. \A i \in 1..P : Of(requests'[i], t) => i \in 1..N /\ requests'[i] = requests[i]
        BY <1>4 DEF Of
    <3>2. j \notin Conn /\ j \in Knobs /\ \A i \in (N + 1)..P : ~ Update(requests'[i], j)
        BY <1>4, <2>2, SettingFacts DEF Conn, Pool, Update
    <3>3. \A i \in 1..N : \A l \in (i + 1)..P :
                \/ l \in (i + 1)..N /\ requests'[l] = requests[l]
                \/ ~ Update(requests'[l], j)
      <4>1. \A i \in 1..N : \A l \in (i + 1)..P :
                (l \in (i + 1)..N /\ l \in 1..N) \/ l \in (N + 1)..P
          BY <1>4
      <4> QED  BY <1>4, <3>2, <4>1
    <3>4. value'[j] = value[j]
        BY <1>1, <1>2, <3>2 DEF TypeOK, Conn
    <3>5. Coming(j)' <=> Coming(j)
        BY <1>n, <1>o, <1>4, <3>2 DEF Coming, Update
    <3>6. Due(j)' = Due(j)
        BY <1>2, <3>5 DEF Due
    <3> HIDE DEF t
    <3>7. Value(j, t)
        BY DEF t
    <3>9. \A d : (Heard(d, j, t)' <=> Heard(d, j, t)) /\ (At(d, j)' <=> At(d, j))
        BY <1>2, <3>4, <3>6 DEF Heard, At, t
    <3>10. ASSUME NEW d \in Callers, At(d, j), NEW i \in 1..P, Of(requests'[i], t)
           PROVE  /\ Asked(d, j, requests'[i])
                  /\ \A l \in (i + 1)..P : ~ Update(requests'[l], j)
      <4>1. i \in 1..N /\ requests'[i] = requests[i]
          BY <3>1, <3>10
      <4>2. /\ Asked(d, j, requests[i])
            /\ \A l \in (i + 1)..N : ~ Update(requests[l], j)
          BY <1>n, <3>7, <3>10, <4>1 DEF Value
      <4> QED  BY <3>3, <4>1, <4>2
    <3>11. \A d \in Callers : At(d, j) =>
            \A i \in 1..Len(replies) : Of(replies[i], t) => Answers(d, j, replies[i])
        BY <3>7 DEF Value
    <3>12. \A d \in Callers : At(d, j) =>
              /\ pc[d] \in {"parse", "tx"} => saved[j] = Due(j)
              /\ pc[d] = "parse" \/ (pc[d] = "tx" /\ call[d].op = "read") => value[j] = Due(j)
              /\ pc[d] = "check" \/ (pc[d] = "wait" /\ done[t] > 0) => Heard(d, j, t)
        BY <3>7 DEF Value
    <3>13. (\A d \in Callers : ~ At(d, j)) => value[j] = Due(j)
        BY <3>7 DEF Value
    <3>14. \A d, i : /\ Of(requests[i], t)' <=> Of(requests'[i], t)
                     /\ Of(replies[i], t)' <=> Of(replies'[i], t)
                     /\ Update(requests[i], j)' <=> Update(requests'[i], j)
        BY DEF Of, Update, t
    <3>15. \A d, i : /\ Asked(d, j, requests[i])' <=> Asked(d, j, requests'[i])
                     /\ Answers(d, j, replies[i])' <=> Answers(d, j, replies[i])
        BY <1>2, <3>4, <3>6 DEF Asked, Answers
    <3>16. Value(j, t)'
        BY <1>2, <1>o, <3>4, <3>6, <3>9, <3>10, <3>11, <3>12, <3>13, <3>14, <3>15
           DEF Value
    <3> QED  BY <3>16 DEF t
  <2> QED  BY <2>1, <2>2
<1> QED  BY <1>5, <1>6, <1>7, <1>10, <1>11, <1>12 DEF IInv

(***************************************************************************)
(* The firmware answers.                                                   *)
(***************************************************************************)
LEMMA AnswerStep ==
    ASSUME IInv, FirmwareAnswer
    PROVE  \E m, r \in Msgs, ack \in BOOLEAN :
            /\ requests # << >> /\ m = Head(requests) /\ Plain(m) /\ Plain(r)
            /\ requests' = Tail(requests) /\ replies' = Append(replies, r)
            /\ r.type = m.type /\ r.knob = m.knob /\ r.val = m.val /\ r.ack = ack
            /\ ack /\ m.type = "get" => \A p \in Pool : r.info[p] = nss[p]
            /\ nss' = IF ack /\ m.type # "get" THEN [nss EXCEPT ![m.knob] = m.val]
                      ELSE nss
            /\ adrift' = IF ~ ack /\ m.type = "update" THEN adrift \cup {m.knob}
                         ELSE adrift
<1>1. TypeOK /\ MsgInv
    BY DEF IInv
<1> DEFINE m == Head(requests)
<1>2. requests # << >> /\ requests \in Seq(Msgs) /\ requests' = Tail(requests)
    BY <1>1 DEF FirmwareAnswer, TypeOK
<1>3. m \in Msgs /\ m = requests[1] /\ 1 \in 1..Len(requests)
    BY <1>2
<1>4. PICK ack \in BOOLEAN :
        /\ replies' = Append(replies,
                IF ack /\ m.type = "get"
                THEN [m EXCEPT !.ack = TRUE, !.info = [p \in Pool |-> nss[p]]]
                ELSE [m EXCEPT !.ack = ack])
        /\ nss' = IF ack /\ m.type # "get" THEN [nss EXCEPT ![m.knob] = m.val]
                  ELSE nss
        /\ adrift' = IF ~ ack /\ m.type = "update" THEN adrift \cup {m.knob}
                     ELSE adrift
    BY DEF FirmwareAnswer
<1>5. Plain(m)
    BY <1>1, <1>3 DEF MsgInv
<1> HIDE DEF m
<1> DEFINE q == [p \in Pool |-> nss[p]]
           r == IF ack /\ m.type = "get" THEN [m EXCEPT !.ack = TRUE, !.info = q]
                ELSE [m EXCEPT !.ack = ack]
<1>6. q \in [Pool -> AllValues] /\ \A p \in Pool : q[p] = nss[p]
    BY <1>1, SettingFacts DEF TypeOK
<1> HIDE DEF q
<1>7. /\ r \in Msgs /\ r.type = m.type /\ r.knob = m.knob /\ r.val = m.val /\ r.ack = ack
      /\ ack /\ m.type = "get" => r.info = q
  <2>1. CASE ack /\ m.type = "get"
      BY <1>3, <1>6, <2>1 DEF Msgs
  <2>2. CASE ~ (ack /\ m.type = "get")
      BY <1>3, <2>2 DEF Msgs
  <2> QED  BY <2>1, <2>2
<1>8. replies' = Append(replies, r)
    BY <1>4 DEF q
<1> HIDE DEF r
<1>9. Plain(r)
    BY <1>5, <1>7 DEF Plain
<1>10. m = Head(requests)
    BY DEF m
<1>11. ack /\ m.type = "get" => \A p \in Pool : r.info[p] = nss[p]
    BY <1>6, <1>7
<1> HIDE DEF m
<1> QED  BY <1>2, <1>3, <1>4, <1>5, <1>7, <1>8, <1>9, <1>10, <1>11

LEMMA AnswerInv == ASSUME IInv, FirmwareAnswer PROVE IInv'
<1>1. TypeOK /\ SemInv /\ CallInv /\ MsgInv /\ FlagInv /\ SumInv /\ OneInv /\ ValueInv
    BY DEF IInv
<1>2. UNCHANGED << used, up, value, saved, flag, sem, done, response, pc, call, overdue >>
    BY DEF FirmwareAnswer
<1>3. PICK m, r \in Msgs, ack \in BOOLEAN :
        /\ requests # << >> /\ m = Head(requests) /\ Plain(m) /\ Plain(r)
        /\ requests' = Tail(requests) /\ replies' = Append(replies, r)
        /\ r.type = m.type /\ r.knob = m.knob /\ r.val = m.val /\ r.ack = ack
        /\ ack /\ m.type = "get" => \A p \in Pool : r.info[p] = nss[p]
        /\ nss' = IF ack /\ m.type # "get" THEN [nss EXCEPT ![m.knob] = m.val]
                  ELSE nss
        /\ adrift' = IF ~ ack /\ m.type = "update" THEN adrift \cup {m.knob}
                     ELSE adrift
    BY AnswerStep
<1>m. /\ m.type \in {"set", "get", "update"} /\ m.knob \in Knobs /\ m.val \in AllValues
    BY DEF Msgs
<1>n. PICK N \in Nat : N = Len(requests)
    BY <1>1 DEF TypeOK
<1>q. PICK Q \in Nat : Q = Len(replies)
    BY <1>1 DEF TypeOK
<1>4. /\ N \in Nat \ {0} /\ 1 \in 1..N /\ requests[1] = m
      /\ requests' \in Seq(Msgs) /\ Len(requests') = N - 1
      /\ \A i \in 1..(N - 1) : i + 1 \in 1..N /\ requests'[i] = requests[i + 1]
  <2>1. requests \in Seq(Msgs) /\ requests # << >>
      BY <1>1, <1>3 DEF TypeOK
  <2> QED  BY <1>3, <1>n, <2>1
<1>5. /\ replies' \in Seq(Msgs) /\ Len(replies') = Q + 1
      /\ \A i \in 1..Q : replies'[i] = replies[i] /\ i \in 1..(Q + 1)
      /\ replies'[Q + 1] = r /\ Q + 1 \in 1..(Q + 1)
      /\ \A i \in 1..(Q + 1) : i \in 1..Q \/ i = Q + 1
  <2>1. replies \in Seq(Msgs)
      BY <1>1 DEF TypeOK
  <2> QED  BY <1>3, <1>q, <2>1, AppendProperties
<1>6. TypeOK'
  <2>1. nss' \in [Knobs -> AllValues]
      BY <1>1, <1>3, <1>m DEF TypeOK
  <2>2. adrift' \subseteq Conn
      BY <1>1, <1>3 DEF TypeOK, Plain
  <2> QED  BY <1>1, <1>2, <1>4, <1>5, <2>1, <2>2 DEF TypeOK
<1>7. SemInv' /\ CallInv'
  <2>1. SemInv'
      BY <1>1, <1>2 DEF SemInv, SemOf
  <2>2. CallInv'
      BY <1>1, <1>2 DEF CallInv
  <2> QED  BY <2>1, <2>2
<1>8. MsgInv'
  <2>1. \A p : Plain(p)' <=> Plain(p)
      BY <1>2 DEF Plain
  <2>2. \A i \in 1..(N - 1) : Plain(requests'[i]) /\ ~ requests'[i].ack
      BY <1>1, <1>n, <1>4 DEF MsgInv
  <2>3. \A i \in 1..(Q + 1) : Plain(replies'[i])
      BY <1>1, <1>3, <1>q, <1>5 DEF MsgInv
  <2> HIDE DEF Plain
  <2> QED  BY <1>4, <1>5, <2>1, <2>2, <2>3 DEF MsgInv, Plain
<1>9. \A k \in Knobs : k # m.knob \/ m.type = "get" \/ ~ ack => nss'[k] = nss[k]
    BY <1>1, <1>3, <1>m DEF TypeOK
<1>10. m.type # "get" /\ ack => nss'[m.knob] = m.val
    BY <1>1, <1>3, <1>m DEF TypeOK
<1>11. FlagInv'
  <2> SUFFICES ASSUME NEW k \in Flags
               PROVE  IF \E i \in 1..(Q + 1) : replies'[i].knob = k /\ replies'[i].ack
                      THEN nss'[k] = Final[k]
                      ELSE flag[k] = nss'[k]
      BY <1>2, <1>5 DEF FlagInv
  <2>0. k \in Knobs /\ k \notin Pool
      BY SettingFacts DEF Flags, Pool
  <2>1. CASE m.knob = k /\ ack
    <3>1. nss'[k] = Final[k] /\ r.knob = k /\ r.ack
        BY <1>3, <1>10, <2>0, <2>1 DEF Plain
    <3> QED  BY <1>5, <3>1
  <2>2. CASE ~ (m.knob = k /\ ack)
    <3>1. nss'[k] = nss[k] /\ ~ (r.knob = k /\ r.ack)
        BY <1>3, <1>9, <2>0, <2>2
    <3>2. (\E i \in 1..(Q + 1) : replies'[i].knob = k /\ replies'[i].ack)
            <=> \E i \in 1..Q : replies[i].knob = k /\ replies[i].ack
        BY <1>5, <3>1
    <3> QED  BY <1>1, <1>q, <3>1, <3>2 DEF FlagInv
  <2> QED  BY <2>1, <2>2
<1>12. ASSUME NEW k \in Conn \cup Pool, k \notin adrift'
       PROVE  /\ k \notin adrift
              /\ m.knob # k \/ m.type # "set" \/ ~ ack => Due(k)' = Due(k)
              /\ m.knob = k /\ m.type = "set" /\ ack =>
                    Due(k)' = IF Coming(k) THEN Due(k) ELSE m.val
  <2>0. k \in Knobs
      BY SettingFacts
  <2>1. Coming(k)' <=> \E i \in 1..(N - 1) : Update(requests[i + 1], k)
      BY <1>4 DEF Coming, Update
  <2>2. Coming(k)' => Coming(k)
      BY <1>n, <1>4, <2>1 DEF Coming
  <2>3. Coming(k) /\ ~ Update(m, k) => Coming(k)'
    <3> SUFFICES ASSUME Coming(k), ~ Update(m, k) PROVE Coming(k)'
        OBVIOUS
    <3>1. PICK i \in 1..N : Update(requests[i], k)
        BY <1>n DEF Coming
    <3>2. i # 1
        BY <1>4, <3>1
    <3>3. i - 1 \in 1..(N - 1) /\ (i - 1) + 1 = i
        BY <3>2
    <3> QED  BY <2>1, <3>1, <3>3
  <2>4. CASE Update(m, k)
    <3>1. Coming(k) /\ ack /\ nss'[k] = MaxConn[k]
        BY <1>3, <1>n, <1>4, <1>10, <1>12, <2>4 DEF Coming, Update, Plain
    <3>2. Due(k) = MaxConn[k] /\ Due(k)' = MaxConn[k]
        BY <3>1 DEF Due
    <3> QED  BY <1>3, <1>12, <2>4, <3>2 DEF Update
  <2>5. CASE ~ Update(m, k)
    <3>1. Coming(k)' <=> Coming(k)
        BY <2>2, <2>3, <2>5
    <3>2. m.knob # k \/ m.type # "set" \/ ~ ack => nss'[k] = nss[k]
        BY <1>9, <1>m, <2>0, <2>5 DEF Update
    <3>3. m.knob = k /\ m.type = "set" /\ ack => nss'[k] = m.val
        BY <1>10
    <3> QED  BY <1>3, <1>12, <3>1, <3>2, <3>3 DEF Due
  <2> QED  BY <2>4, <2>5
<1>13. SumInv'
  <2> SUFFICES ASSUME NEW j \in Conn \ used, adrift' = {}
               PROVE  IF 0 \in up
                      THEN /\ value[j] = MaxConn[j] /\ Due(j)' = MaxConn[j]
                           /\ MaxIpv4 + MaxIpv6 <= MaxTotal
                           /\ Due(Other(j))' + MaxConn[j] <= MaxTotal
                           /\ \A i \in 1..(N - 1) :
                                 requests'[i].knob = Other(j) =>
                                     requests'[i].val + MaxConn[j] <= MaxTotal
                      ELSE /\ nss'["ipv4_conn"] = 4 /\ nss'["ipv6_conn"] = 4
                           /\ \A i \in 1..(N - 1) : requests'[i].knob \notin Conn
      BY <1>2, <1>4 DEF SumInv, Other, Due, Coming, Update
  <2>1. /\ Other(j) \in Conn /\ j \in Conn /\ adrift = {}
        /\ "ipv4_conn" \in Conn /\ "ipv6_conn" \in Conn /\ Conn \subseteq Knobs
      BY <1>3, SettingFacts DEF Other, Conn
  <2>2. CASE 0 \in up
    <3>1. /\ value[j] = MaxConn[j] /\ Due(j) = MaxConn[j]
          /\ MaxIpv4 + MaxIpv6 <= MaxTotal
          /\ Due(Other(j)) + MaxConn[j] <= MaxTotal
          /\ \A i \in 1..N : requests[i].knob = Other(j) =>
                                requests[i].val + MaxConn[j] <= MaxTotal
        BY <1>1, <1>n, <2>1, <2>2 DEF SumInv
    <3>2. Due(j)' = Due(j)
      <4>1. m.knob = j => m.type = "update"
          BY <1>3 DEF Plain
      <4> QED  BY <1>12, <2>1, <4>1
    <3>3. Due(Other(j))' = Due(Other(j)) \/ (m.knob = Other(j) /\ Due(Other(j))' = m.val)
      <4>1. \A k \in Conn : Due(k)' = Due(k) \/ (m.knob = k /\ Due(k)' = m.val)
          BY <1>12
      <4> QED  BY <2>1, <4>1 DEF Other, Due, Coming, Update
    <3>4. \A i \in 1..(N - 1) : requests'[i].knob = Other(j) =>
                                requests'[i].val + MaxConn[j] <= MaxTotal
        BY <1>4, <3>1
    <3> QED  BY <1>4, <2>2, <3>1, <3>2, <3>3, <3>4
  <2>3. CASE 0 \notin up
    <3>1. /\ nss["ipv4_conn"] = 4 /\ nss["ipv6_conn"] = 4
          /\ \A i \in 1..N : requests[i].knob \notin Conn
        BY <1>1, <1>n, <2>1, <2>3 DEF SumInv
    <3>2. m.knob \notin Conn
        BY <1>4, <3>1
    <3> QED  BY <1>4, <1>9, <2>1, <2>3, <3>1, <3>2
  <2> QED  BY <2>2, <2>3
<1>14. \A t : /\ \A i : Of(requests[i], t)' <=> Of(requests'[i], t)
              /\ \A i : Of(replies[i], t)' <=> Of(replies'[i], t)
              /\ Of(r, t) <=> Of(m, t)
    BY <1>3 DEF Of
<1>15. OneInv'
  <2> SUFFICES ASSUME NEW t \in Sems, Exact(t) PROVE Exact(t)'
      BY <1>1, <1>2 DEF OneInv
  <2>1. Waiting(t)' <=> Waiting(t)
      BY <1>2 DEF Waiting
  <2>2. \A i, j \in 1..(N - 1) : Of(requests'[i], t) /\ Of(requests'[j], t) => i = j
    <3> TAKE i, j \in 1..(N - 1)
    <3> HAVE Of(requests'[i], t) /\ Of(requests'[j], t)
    <3>1. i + 1 = j + 1
        BY <1>n, <1>4 DEF Exact
    <3> QED  BY <3>1
  <2>3. Of(r, t) => /\ \A i \in 1..Q : ~ Of(replies[i], t)
                    /\ \A i \in 1..(N - 1) : ~ Of(requests'[i], t)
                    /\ Waiting(t) /\ done[t] = 0 /\ r.knob = call[sem[t]].knob
    <3> SUFFICES ASSUME Of(r, t)
                 PROVE  /\ \A i \in 1..Q : ~ Of(replies[i], t)
                        /\ \A i \in 1..(N - 1) : ~ Of(requests'[i], t)
                        /\ Waiting(t) /\ done[t] = 0 /\ r.knob = call[sem[t]].knob
        OBVIOUS
    <3>1. Of(requests[1], t)
        BY <1>4, <1>14
    <3>2. /\ \A i \in 1..Q : ~ Of(replies[i], t)
          /\ Waiting(t) /\ done[t] = 0 /\ requests[1].knob = call[sem[t]].knob
        BY <1>n, <1>q, <1>4, <3>1 DEF Exact
    <3>3. \A i \in 1..(N - 1) : Of(requests[i + 1], t) => i + 1 = 1
        BY <1>n, <1>4, <3>1 DEF Exact
    <3>4. \A i \in 1..(N - 1) : ~ Of(requests'[i], t)
      <4> TAKE i \in 1..(N - 1)
      <4>1. i + 1 # 1
          OBVIOUS
      <4>2. requests'[i] = requests[i + 1]
          BY <1>4
      <4> QED  BY <3>3, <4>1, <4>2
    <3>5. r.knob = requests[1].knob
        BY <1>3, <1>4
    <3> QED  BY <3>2, <3>4, <3>5
  <2>4. \A i \in 1..(N - 1) : Of(requests'[i], t) =>
            Waiting(t) /\ done[t] = 0 /\ requests'[i].knob = call[sem[t]].knob
      BY <1>n, <1>4 DEF Exact
  <2>5. \A i \in 1..Q : Of(replies[i], t) =>
            Waiting(t) /\ done[t] = 0 /\ replies[i].knob = call[sem[t]].knob
      BY <1>q DEF Exact
  <2>6. \A i, j \in 1..Q : Of(replies[i], t) /\ Of(replies[j], t) => i = j
      BY <1>q DEF Exact
  <2>7. \A i \in 1..(N - 1), j \in 1..Q : ~ (Of(requests'[i], t) /\ Of(replies[j], t))
      BY <1>n, <1>q, <1>4 DEF Exact
  <2>8. done[t] > 0 => Waiting(t) /\ done[t] = 1
      BY DEF Exact
  <2>9. /\ sem' = sem /\ done' = done /\ call' = call
        /\ Len(requests') = N - 1 /\ Len(replies') = Q + 1
        /\ \A i \in 1..(Q + 1) :
                \/ i \in 1..Q /\ replies'[i] = replies[i]
                \/ i = Q + 1 /\ replies'[i] = r
    <3>1. sem' = sem /\ done' = done /\ call' = call
        BY <1>2
    <3>2. Len(requests') = N - 1 /\ Len(replies') = Q + 1
        BY <1>4, <1>5
    <3>3. ASSUME NEW i \in 1..(Q + 1)
          PROVE  \/ i \in 1..Q /\ replies'[i] = replies[i]
                 \/ i = Q + 1 /\ replies'[i] = r
      <4>1. i \in 1..Q \/ i = Q + 1
          OBVIOUS
      <4> QED  BY <1>5, <4>1
    <3> QED  BY <3>1, <3>2, <3>3
  <2>10. \A i, j \in 1..(Q + 1) : Of(replies'[i], t) /\ Of(replies'[j], t) => i = j
      BY <2>3, <2>6, <2>9
  <2>11. \A i \in 1..(Q + 1) : Of(replies'[i], t) =>
            Waiting(t) /\ done[t] = 0 /\ replies'[i].knob = call[sem[t]].knob
      BY <2>3, <2>5, <2>9
  <2>12. \A i \in 1..(N - 1), j \in 1..(Q + 1) : ~ (Of(requests'[i], t) /\ Of(replies'[j], t))
      BY <2>3, <2>7, <2>9
  <2>13. /\ \A i : Of(requests[i], t)' <=> Of(requests'[i], t)
         /\ \A i : Of(replies[i], t)' <=> Of(replies'[i], t)
      BY <1>14
  <2> QED  BY <2>1, <2>2, <2>4, <2>8, <2>9, <2>10, <2>11, <2>12, <2>13 DEF Exact
<1>16. ValueInv'
  <2> SUFFICES ASSUME NEW j \in Conn \cup Pool, j \notin adrift', Setting[j].sem \notin overdue
               PROVE  Value(j, Setting[j].sem)'
      BY <1>2 DEF ValueInv
  <2> DEFINE t == Setting[j].sem
  <2>0. j \in Knobs /\ t \in Sems
      BY SettingFacts
  <2>1. Value(j, t) /\ Exact(t) /\ j \notin adrift
      BY <1>1, <1>12, <2>0 DEF ValueInv, OneInv
  <2>2. t = Setting[j].sem
      OBVIOUS
  <2> HIDE DEF t
  <2>3. \A d \in Callers : At(d, j)' <=> At(d, j)
      BY <1>2 DEF At
  <2>4. Of(m, t) =>
            /\ \A d \in Callers : At(d, j) =>
                    sem[t] = d /\ pc[d] = "wait" /\ done[t] = 0 /\ m.knob = j
                        /\ Asked(d, j, m) /\ ~ Coming(j)
            /\ \A i \in 1..Q : ~ Of(replies[i], t)
            /\ \A i \in 1..(N - 1) : ~ Of(requests[i + 1], t)
            /\ m.knob = j => \E d \in Callers : At(d, j)
    <3> SUFFICES ASSUME Of(m, t)
                 PROVE  /\ \A d \in Callers : At(d, j) =>
                                sem[t] = d /\ pc[d] = "wait" /\ done[t] = 0 /\ m.knob = j
                                    /\ Asked(d, j, m) /\ ~ Coming(j)
                        /\ \A i \in 1..Q : ~ Of(replies[i], t)
                        /\ \A i \in 1..(N - 1) : ~ Of(requests[i + 1], t)
                        /\ m.knob = j => \E d \in Callers : At(d, j)
        OBVIOUS
    <3>1. Waiting(t) /\ done[t] = 0 /\ m.knob = call[sem[t]].knob
        BY <1>n, <1>4, <2>1 DEF Exact
    <3>2. /\ \A i \in 1..Q : ~ Of(replies[i], t)
          /\ \A i \in 1..(N - 1) : Of(requests[i + 1], t) => i + 1 = 1
        BY <1>n, <1>q, <1>4, <2>1 DEF Exact
    <3>3. ASSUME NEW d \in Callers, At(d, j)
          PROVE  sem[t] = d /\ pc[d] = "wait" /\ m.knob = j /\ Asked(d, j, m) /\ ~ Coming(j)
      <4>1. sem[t] = d
          BY <1>1, <2>0, <2>2, <3>3 DEF At, SemInv, SemOf
      <4>2. /\ Asked(d, j, m)
            /\ \A l \in (1 + 1)..N : ~ Update(requests[l], j)
          BY <1>n, <1>4, <2>1, <3>3 DEF Value
      <4>3. \A l \in 1..N : l = 1 \/ l \in (1 + 1)..N
          OBVIOUS
      <4>4. ~ Update(requests[1], j)
          BY <1>4 DEF Of, Update
      <4>5. ~ Coming(j)
          BY <1>n, <4>2, <4>3, <4>4 DEF Coming
      <4> QED  BY <3>1, <3>3, <4>1, <4>2, <4>5 DEF Waiting, At
    <3>4. m.knob = j => \E d \in Callers : At(d, j)
        BY <1>1, <2>0, <3>1 DEF Waiting, At, Held, TypeOK
    <3>5. \A i \in 1..(N - 1) : ~ Of(requests[i + 1], t)
      <4> TAKE i \in 1..(N - 1)
      <4>1. i + 1 # 1
          OBVIOUS
      <4> QED  BY <3>2, <4>1
    <3>6. done[t] = 0
        BY <3>1
    <3>7. \A i \in 1..Q : ~ Of(replies[i], t)
        BY <3>2
    <3>8. \A d \in Callers : At(d, j) =>
              sem[t] = d /\ pc[d] = "wait" /\ done[t] = 0 /\ m.knob = j
                  /\ Asked(d, j, m) /\ ~ Coming(j)
        BY <3>3, <3>6
    <3> QED  BY <3>4, <3>5, <3>7, <3>8
  <2>5. m.knob = j /\ m.type # "update" => Of(m, t)
      BY <2>2 DEF Of
  <2>6. CASE m.knob = j /\ m.type = "set" /\ ack
    <3>1. PICK h \in Callers : At(h, j)
        BY <2>4, <2>5, <2>6
    <3>2. /\ sem[t] = h /\ pc[h] = "wait" /\ done[t] = 0 /\ Asked(h, j, m) /\ ~ Coming(j)
          /\ \A d \in Callers : At(d, j) => d = h
        BY <2>4, <2>5, <2>6, <3>1
    <3>3. call[h].op = "write" /\ m.val = value[j]
        BY <2>6, <3>2 DEF Asked
    <3>4. Due(j)' = value[j]
        BY <1>12, <2>6, <3>2, <3>3
    <3>5. Answers(h, j, r)'
        BY <1>2, <1>3, <2>6, <3>3, <3>4 DEF Answers
    <3>6. Answers(h, j, replies[Q + 1])'
        BY <1>5, <3>5 DEF Answers
    <3>7. /\ \A i \in 1..(Q + 1) : Of(replies'[i], t) => i = Q + 1
          /\ \A i \in 1..(N - 1) : ~ Of(requests'[i], t)
        BY <1>4, <1>5, <2>4, <2>5, <2>6
    <3>8. /\ \A i : Of(requests[i], t)' <=> Of(requests'[i], t)
          /\ \A i : Of(replies[i], t)' <=> Of(replies'[i], t)
        BY <2>2, <1>14
    <3>9. Value(j, t)'
        BY <1>2, <1>4, <1>5, <2>3, <3>1, <3>2, <3>6, <3>7, <3>8 DEF Value
    <3> QED  BY <2>2, <3>9
  <2>7. CASE ~ (m.knob = j /\ m.type = "set" /\ ack)
    <3>1. Due(j)' = Due(j)
        BY <1>12, <2>7
    <3>2. ASSUME NEW d \in Callers, At(d, j), Of(r, t)
          PROVE  Answers(d, j, r)
      <4>1. Of(m, t)
          BY <1>14, <3>2
      <4>2. m.knob = j /\ Asked(d, j, m) /\ ~ Coming(j)
          BY <2>4, <3>2, <4>1
      <4>3. CASE call[d].op = "write"
          BY <1>3, <2>7, <4>2, <4>3 DEF Asked, Answers
      <4>4. CASE call[d].op # "write"
        <5>1. r.type = "get" /\ saved[j] = Due(j) /\ value[j] = Due(j)
            BY <1>3, <4>2, <4>4 DEF Asked
        <5>2. j \in Pool
            BY <1>3, <4>2, <5>1 DEF Plain
        <5>3. r.ack => r.info[j] = Due(j)
            BY <1>3, <4>2, <5>1, <5>2 DEF Due
        <5> QED  BY <4>4, <5>1, <5>3 DEF Answers
      <4> QED  BY <4>3, <4>4
    <3>3. ASSUME NEW d \in Callers, At(d, j), NEW i \in 1..(N - 1), Of(requests'[i], t)
          PROVE  /\ Asked(d, j, requests'[i])
                 /\ \A l \in (i + 1)..(N - 1) : ~ Update(requests'[l], j)
      <4>1. /\ Asked(d, j, requests[i + 1])
            /\ \A l \in ((i + 1) + 1)..N : ~ Update(requests[l], j)
          BY <1>n, <1>4, <2>1, <3>3 DEF Value
      <4>2. \A l \in (i + 1)..(N - 1) : l \in 1..(N - 1) /\ l + 1 \in ((i + 1) + 1)..N
          OBVIOUS
      <4> QED  BY <1>4, <4>1, <4>2
    <3>4. ASSUME NEW d \in Callers, At(d, j), NEW i \in 1..(Q + 1), Of(replies'[i], t)
          PROVE  Answers(d, j, replies'[i])
      <4>1. CASE i = Q + 1
          BY <1>5, <3>2, <3>4, <4>1
      <4>2. CASE i # Q + 1
        <5>1. i \in 1..Q /\ replies'[i] = replies[i]
            BY <1>5, <4>2
        <5> QED  BY <1>q, <2>1, <3>4, <5>1 DEF Value
      <4> QED  BY <4>1, <4>2
    <3>5. \A d \in Callers : At(d, j) =>
              /\ pc[d] \in {"parse", "tx"} => saved[j] = Due(j)
              /\ pc[d] = "parse" \/ (pc[d] = "tx" /\ call[d].op = "read") => value[j] = Due(j)
              /\ pc[d] = "check" \/ (pc[d] = "wait" /\ done[t] > 0) => Heard(d, j, t)
        BY <2>1 DEF Value
    <3>6. (\A d \in Callers : ~ At(d, j)) => value[j] = Due(j)
        BY <2>1 DEF Value
    <3>7. \A d, i : /\ Of(requests[i], t)' <=> Of(requests'[i], t)
                    /\ Of(replies[i], t)' <=> Of(replies'[i], t)
                    /\ Update(requests[i], j)' <=> Update(requests'[i], j)
        BY <2>2 DEF Of, Update
    <3>8. \A d, i : /\ Asked(d, j, requests[i])' <=> Asked(d, j, requests'[i])
                    /\ Answers(d, j, replies[i])' <=> Answers(d, j, replies'[i])
                    /\ Heard(d, j, t)' <=> Heard(d, j, t)
        BY <1>2, <2>2, <3>1 DEF Asked, Answers, Heard
    <3>9. Value(j, t)'
        BY <1>2, <1>4, <1>5, <2>3, <3>1, <3>3, <3>4, <3>5, <3>6, <3>7, <3>8 DEF Value
    <3> QED  BY <2>2, <3>9
  <2> QED  BY <2>6, <2>7
<1> QED  BY <1>6, <1>7, <1>8, <1>11, <1>13, <1>15, <1>16 DEF IInv

(***************************************************************************)
(* The host handles an answer.                                             *)
(***************************************************************************)
LEMMA HandlerInv == ASSUME IInv, Handler PROVE IInv'
<1>1. TypeOK /\ SemInv /\ CallInv /\ MsgInv /\ FlagInv /\ SumInv /\ OneInv /\ ValueInv
    BY DEF IInv
<1>2. UNCHANGED << used, up, value, sem, pc, call, requests, nss, overdue, adrift >>
    BY DEF Handler
<1>q. PICK Q \in Nat : Q = Len(replies)
    BY <1>1 DEF TypeOK
<1>r. PICK r \in Msgs : r = Head(replies)
    BY <1>1 DEF Handler, TypeOK
<1>3. /\ 1 \in 1..Q /\ replies[1] = r
      /\ replies' \in Seq(Msgs) /\ Len(replies') = Q - 1
      /\ \A i \in 1..(Q - 1) : i + 1 \in 1..Q /\ replies'[i] = replies[i + 1]
  <2>1. replies \in Seq(Msgs) /\ replies # << >> /\ replies' = Tail(replies)
      BY <1>1 DEF TypeOK, Handler
  <2> QED  BY <1>q, <1>r, <2>1
<1>4. Plain(r)
    BY <1>1, <1>q, <1>3 DEF MsgInv
<1>m. /\ r.type \in {"set", "get", "update"} /\ r.knob \in Knobs /\ r.val \in AllValues
      /\ r.ack \in BOOLEAN /\ r.info \in [Pool -> AllValues]
      /\ Setting[r.knob].sem \in Sems
    BY SettingFacts DEF Msgs
<1>u. PICK u \in Sems : u = Setting[r.knob].sem
    BY <1>m
<1>5. IF r.type = "update" THEN UNCHANGED << done, response, flag, saved >>
      ELSE /\ done' = [done EXCEPT ![u] = @ + 1]
           /\ response' = [response EXCEPT ![u] = IF r.ack THEN "SUCCESS" ELSE "FAILURE"]
           /\ flag' = IF r.ack /\ r.knob \in Flags THEN [flag EXCEPT ![r.knob] = r.val]
                      ELSE flag
           /\ saved' = IF r.ack /\ r.type = "get"
                       THEN [k \in Knobs |-> IF k \in Pool THEN r.info[k] ELSE saved[k]]
                       ELSE saved
    BY <1>r, <1>u DEF Handler, Callback, nss_ipv4_update_conn_count_cb
<1>6. TypeOK'
  <2>1. done' \in [Sems -> Nat]
    <3>1. done \in [Sems -> Nat] /\ done[u] + 1 \in Nat
        BY <1>1 DEF TypeOK
    <3>2. done' = done \/ done' = [done EXCEPT ![u] = done[u] + 1]
        BY <1>5
    <3> QED  BY <3>1, <3>2
  <2>2. response' \in [Sems -> {"SUCCESS", "FAILURE"}]
      BY <1>1, <1>5 DEF TypeOK
  <2>3. flag' \in [Flags -> AllValues]
      BY <1>1, <1>m, <1>5 DEF TypeOK
  <2>4. saved' \in [Knobs -> AllValues]
    <3>1. \A k \in Knobs : saved[k] \in AllValues
        BY <1>1 DEF TypeOK
    <3> DEFINE w == [k \in Knobs |-> IF k \in Pool THEN r.info[k] ELSE saved[k]]
    <3>2. w \in [Knobs -> AllValues]
        BY <1>m, <3>1
    <3>3. saved' = w \/ saved' = saved
        BY <1>5
    <3> HIDE DEF w
    <3> QED  BY <1>1, <3>2, <3>3 DEF TypeOK
  <2> QED  BY <1>1, <1>2, <1>3, <2>1, <2>2, <2>3, <2>4 DEF TypeOK
<1>7. SemInv' /\ CallInv'
  <2>1. SemInv'
      BY <1>1, <1>2 DEF SemInv, SemOf
  <2>2. CallInv'
      BY <1>1, <1>2 DEF CallInv
  <2> QED  BY <2>1, <2>2
<1>8. MsgInv'
  <2>1. \A p : Plain(p)' <=> Plain(p)
      BY <1>2 DEF Plain
  <2>2. \A i \in 1..Len(requests) : Plain(requests[i]) /\ ~ requests[i].ack
      BY <1>1 DEF MsgInv
  <2>3. \A i \in 1..(Q - 1) : Plain(replies'[i])
      BY <1>1, <1>q, <1>3 DEF MsgInv
  <2> HIDE DEF Plain
  <2> QED  BY <1>2, <1>3, <2>1, <2>2, <2>3 DEF MsgInv, Plain
<1>9. FlagInv'
  <2> SUFFICES ASSUME NEW k \in Flags
               PROVE  IF \E i \in 1..(Q - 1) : replies'[i].knob = k /\ replies'[i].ack
                      THEN nss[k] = Final[k]
                      ELSE flag'[k] = nss[k]
      BY <1>2, <1>3 DEF FlagInv
  <2>0. k \notin Conn
      BY DEF Flags, Conn
  <2>1. (\E i \in 1..(Q - 1) : replies'[i].knob = k /\ replies'[i].ack)
            => \E i \in 1..Q : replies[i].knob = k /\ replies[i].ack
      BY <1>3
  <2>2. CASE r.knob = k /\ r.ack
    <3>1. nss[k] = Final[k]
        BY <1>1, <1>q, <1>3, <2>2 DEF FlagInv
    <3>2. r.type # "update" /\ r.val = Final[k]
        BY <1>4, <2>0, <2>2 DEF Plain
    <3>3. flag'[k] = Final[k]
        BY <1>1, <1>5, <2>2, <3>2 DEF TypeOK
    <3> QED  BY <3>1, <3>3
  <2>3. CASE ~ (r.knob = k /\ r.ack)
    <3>1. flag'[k] = flag[k]
        BY <1>1, <1>5, <2>3 DEF TypeOK
    <3>2. (\E i \in 1..Q : replies[i].knob = k /\ replies[i].ack)
            => \E i \in 1..(Q - 1) : replies'[i].knob = k /\ replies'[i].ack
      <4> SUFFICES ASSUME NEW i \in 1..Q, replies[i].knob = k, replies[i].ack
                   PROVE  \E l \in 1..(Q - 1) : replies'[l].knob = k /\ replies'[l].ack
          OBVIOUS
      <4>1. i # 1
          BY <1>3, <2>3
      <4>2. i - 1 \in 1..(Q - 1) /\ (i - 1) + 1 = i
          BY <4>1
      <4> QED  BY <1>3, <4>2
    <3> QED  BY <1>1, <1>q, <2>1, <3>1, <3>2 DEF FlagInv
  <2> QED  BY <2>2, <2>3
<1>10. \A k : Due(k)' = Due(k)
    BY <1>2 DEF Due, Coming, Update
<1>11. SumInv'
    BY <1>1, <1>2 DEF SumInv, Due, Coming, Update
<1>12. \A t : /\ \A i : Of(requests[i], t)' <=> Of(requests[i], t)
              /\ \A i : Of(replies[i], t)' <=> Of(replies'[i], t)
    BY <1>2 DEF Of
<1>13. ASSUME NEW t \in Sems, ~ Of(r, t)
       PROVE  done'[t] = done[t] /\ response'[t] = response[t]
  <2>1. r.type = "update" \/ u # t
      BY <1>u, <1>13 DEF Of
  <2> QED  BY <1>1, <1>5, <2>1 DEF TypeOK
<1>14. ASSUME NEW t \in Sems, Of(r, t)
       PROVE  /\ done'[t] = done[t] + 1 /\ t = u
              /\ response'[t] = IF r.ack THEN "SUCCESS" ELSE "FAILURE"
  <2>1. r.type # "update" /\ u = t
      BY <1>u, <1>14 DEF Of
  <2> QED  BY <1>1, <1>5, <2>1 DEF TypeOK
<1>15. ASSUME NEW t \in Sems, Exact(t), Of(r, t)
       PROVE  /\ \A i \in 1..Len(requests) : ~ Of(requests[i], t)
              /\ \A i \in 1..(Q - 1) : ~ Of(replies'[i], t)
              /\ Waiting(t) /\ done[t] = 0 /\ done'[t] = 1
              /\ r.knob = call[sem[t]].knob
  <2>1. /\ \A i \in 1..Len(requests) : ~ Of(requests[i], t)
        /\ \A i \in 1..(Q - 1) : Of(replies[i + 1], t) => i + 1 = 1
        /\ Waiting(t) /\ done[t] = 0 /\ r.knob = call[sem[t]].knob
      BY <1>q, <1>3, <1>15 DEF Exact
  <2>2. \A i \in 1..(Q - 1) : ~ Of(replies'[i], t)
      BY <1>3, <2>1
  <2> QED  BY <1>14, <1>15, <2>1, <2>2
<1>16. OneInv'
  <2> SUFFICES ASSUME NEW t \in Sems, Exact(t) PROVE Exact(t)'
      BY <1>1, <1>2 DEF OneInv
  <2>1. Waiting(t)' <=> Waiting(t)
      BY <1>2 DEF Waiting
  <2>2. CASE Of(r, t)
      BY <1>2, <1>3, <1>12, <1>15, <2>1, <2>2 DEF Exact
  <2>3. CASE ~ Of(r, t)
    <3>1. done'[t] = done[t]
        BY <1>13, <2>3
    <3>2. \A i, j \in 1..(Q - 1) : Of(replies'[i], t) /\ Of(replies'[j], t) => i = j
      <4> TAKE i, j \in 1..(Q - 1)
      <4> HAVE Of(replies'[i], t) /\ Of(replies'[j], t)
      <4>1. i + 1 = j + 1
          BY <1>q, <1>3 DEF Exact
      <4> QED  BY <4>1
    <3>3. \A i \in 1..(Q - 1) : Of(replies'[i], t) =>
            Waiting(t) /\ done[t] = 0 /\ replies'[i].knob = call[sem[t]].knob
        BY <1>q, <1>3 DEF Exact
    <3>4. \A i \in 1..Len(requests), j \in 1..(Q - 1) :
                ~ (Of(requests[i], t) /\ Of(replies'[j], t))
        BY <1>q, <1>3 DEF Exact
    <3>5. /\ \A i, j \in 1..Len(requests) : Of(requests[i], t) /\ Of(requests[j], t) => i = j
          /\ \A i \in 1..Len(requests) : Of(requests[i], t) =>
                Waiting(t) /\ done[t] = 0 /\ requests[i].knob = call[sem[t]].knob
          /\ done[t] > 0 => Waiting(t) /\ done[t] = 1
        BY DEF Exact
    <3> QED  BY <1>2, <1>3, <1>12, <2>1, <3>1, <3>2, <3>3, <3>4, <3>5 DEF Exact
  <2> QED  BY <2>2, <2>3
<1>17. ValueInv'
  <2> SUFFICES ASSUME NEW j \in Conn \cup Pool, j \notin adrift, Setting[j].sem \notin overdue
               PROVE  Value(j, Setting[j].sem)'
      BY <1>2 DEF ValueInv
  <2> DEFINE t == Setting[j].sem
  <2>0. j \in Knobs /\ t \in Sems
      BY SettingFacts
  <2>1. Value(j, t) /\ Exact(t)
      BY <1>1, <2>0 DEF ValueInv, OneInv
  <2>2. t = Setting[j].sem
      OBVIOUS
  <2> HIDE DEF t
  <2>3. \A d \in Callers : At(d, j)' <=> At(d, j)
      BY <1>2 DEF At
  <2>4. (\A d \in Callers : ~ At(d, j)) => value[j] = Due(j)
      BY <2>1 DEF Value
  <2>5. CASE Of(r, t)
    <3>1. ASSUME NEW d \in Callers, At(d, j) PROVE pc[d] = "wait" /\ Heard(d, j, t)'
      <4>1. sem[t] = d
          BY <1>1, <2>0, <2>2, <3>1 DEF At, SemInv, SemOf
      <4>2. pc[d] = "wait" /\ r.knob = j
          BY <1>15, <2>0, <2>1, <2>5, <3>1, <4>1 DEF Waiting, At
      <4>3. Answers(d, j, r)
          BY <1>q, <1>3, <2>1, <2>5, <3>1 DEF Value
      <4>4. response'[t] = IF r.ack THEN "SUCCESS" ELSE "FAILURE"
          BY <1>14, <2>0, <2>5
      <4>5. CASE call[d].op = "write"
        <5>1. r.type = "set" /\ Due(j) = IF r.ack THEN value[j] ELSE saved[j]
            BY <4>3, <4>5 DEF Answers
        <5>2. saved' = saved
            BY <1>5, <5>1
        <5> QED  BY <1>2, <1>10, <2>2, <4>2, <4>4, <4>5, <5>1, <5>2 DEF Heard
      <4>6. CASE call[d].op # "write"
        <5>1. r.type = "get" /\ saved[j] = Due(j) /\ value[j] = Due(j)
              /\ (r.ack => r.info[j] = Due(j))
            BY <4>3, <4>6 DEF Answers
        <5>2. j \in Pool
            BY <1>4, <4>2, <5>1 DEF Plain
        <5>3. saved'[j] = Due(j)
            BY <1>5, <2>0, <5>1, <5>2
        <5> QED  BY <1>2, <1>10, <4>2, <4>6, <5>1, <5>3 DEF Heard
      <4> QED  BY <4>2, <4>5, <4>6
    <3>2. /\ \A i \in 1..Len(requests) : ~ Of(requests[i], t)
          /\ \A i \in 1..(Q - 1) : ~ Of(replies'[i], t)
        BY <1>15, <2>0, <2>1, <2>5
    <3>3. \A i : /\ Of(requests[i], t)' <=> Of(requests[i], t)
                 /\ Of(replies[i], t)' <=> Of(replies'[i], t)
        BY <1>2, <2>2 DEF Of
    <3>4. Value(j, t)'
        BY <1>2, <1>3, <1>10, <2>3, <2>4, <3>1, <3>2, <3>3 DEF Value
    <3> QED  BY <2>2, <3>4
  <2>6. CASE ~ Of(r, t)
    <3>1. done'[t] = done[t] /\ response'[t] = response[t]
        BY <1>13, <2>0, <2>6
    <3>2. saved'[j] = saved[j]
      <4>1. r.ack /\ r.type = "get" => j \notin Pool
        <5>1. r.type = "get" => r.knob \in Pool
            BY <1>4 DEF Plain
        <5>2. \A k \in Pool : j \in Pool => Setting[k].sem = Setting[j].sem
            BY SettingFacts
        <5>3. r.type = "get" /\ j \in Pool => Of(r, t)
            BY <2>2, <5>1, <5>2 DEF Of
        <5> QED  BY <2>6, <5>3
      <4> QED  BY <1>5, <2>0, <4>1
    <3>3. ASSUME NEW d \in Callers, At(d, j), NEW i \in 1..(Q - 1), Of(replies'[i], t)
          PROVE  Answers(d, j, replies'[i])
        BY <1>q, <1>3, <2>1, <3>3 DEF Value
    <3>4. \A d \in Callers : At(d, j) =>
              /\ pc[d] \in {"parse", "tx"} => saved[j] = Due(j)
              /\ pc[d] = "parse" \/ (pc[d] = "tx" /\ call[d].op = "read") => value[j] = Due(j)
              /\ pc[d] = "check" \/ (pc[d] = "wait" /\ done[t] > 0) => Heard(d, j, t)
              /\ \A i \in 1..Len(requests) : Of(requests[i], t) =>
                    /\ Asked(d, j, requests[i])
                    /\ \A l \in (i + 1)..Len(requests) : ~ Update(requests[l], j)
        BY <2>1 DEF Value
    <3>5. \A d, i : /\ Of(requests[i], t)' <=> Of(requests[i], t)
                    /\ Of(replies[i], t)' <=> Of(replies'[i], t)
                    /\ Update(requests[i], j)' <=> Update(requests[i], j)
        BY <1>2, <2>2 DEF Of, Update
    <3>6. \A d, i : /\ Asked(d, j, requests[i])' <=> Asked(d, j, requests[i])
                    /\ Answers(d, j, replies[i])' <=> Answers(d, j, replies'[i])
                    /\ Heard(d, j, t)' <=> Heard(d, j, t)
        BY <1>2, <1>10, <2>2, <3>1, <3>2 DEF Asked, Answers, Heard
    <3>7. Value(j, t)'
        BY <1>2, <1>3, <1>10, <2>3, <2>4, <3>1, <3>2, <3>3, <3>4, <3>5, <3>6 DEF Value
    <3> QED  BY <2>2, <3>7
  <2> QED  BY <2>5, <2>6
<1> QED  BY <1>6, <1>7, <1>8, <1>9, <1>11, <1>16, <1>17 DEF IInv

LEMMA StutterInv == IInv /\ UNCHANGED vars => IInv'
<1> SUFFICES ASSUME IInv, UNCHANGED vars PROVE IInv'
    OBVIOUS
<1>1. UNCHANGED << used, up, value, saved, flag, sem, done, response, pc, call, requests,
                   replies, nss, overdue, adrift >>
    BY DEF vars, ring
<1>2. TypeOK'
    BY <1>1 DEF IInv, TypeOK
<1>3. /\ SemInv'
      /\ CallInv'
      /\ MsgInv'
      /\ FlagInv'
  <2>1. SemInv'
      BY <1>1 DEF IInv, SemInv, SemOf
  <2>2. CallInv'
      BY <1>1 DEF IInv, CallInv
  <2>3. MsgInv'
      BY <1>1 DEF IInv, MsgInv, Plain
  <2>4. FlagInv'
      BY <1>1 DEF IInv, FlagInv
  <2> QED  BY <2>1, <2>2, <2>3, <2>4
<1>4. SumInv'
    BY <1>1 DEF IInv, SumInv, Due, Coming, Update
<1>5. OneInv'
  <2>1. \A s : Waiting(s)' = Waiting(s)
      BY <1>1 DEF Waiting
  <2>2. ASSUME NEW s, Exact(s)
        PROVE  Exact(s)'
      BY <1>1, <2>1, <2>2 DEF Exact, Of
  <2> QED  BY <1>1, <2>2 DEF IInv, OneInv
<1>6. ValueInv'
  <2>1. \A k : Due(k)' = Due(k)
      BY <1>1 DEF Due, Coming, Update
  <2>2. ASSUME NEW k, NEW s, Value(k, s)
        PROVE  Value(k, s)'
      BY <1>1, <2>1, <2>2 DEF Value, At, Heard, Asked, Answers, Of
  <2> QED  BY <1>1, <2>2 DEF IInv, ValueInv
<1> QED  BY <1>2, <1>3, <1>4, <1>5, <1>6 DEF IInv

LEMMA NextInv == IInv /\ [Next]_vars => IInv'
<1> SUFFICES ASSUME IInv, [Next]_vars PROVE IInv'
    OBVIOUS
<1>1. ASSUME NEW c \in Callers, NEW k \in Knobs,
             Read(c, k) \/ \E v \in Values(k) : Write(c, k, v) \/ WriteFlag(c, k, v)
      PROVE  IInv'
    BY <1>1, OutsideInv
<1>2. ASSUME NEW c \in Callers, TestFlag(c) \/ Down(c) \/ AfterDown(c) PROVE IInv'
    BY <1>2, OutsideInv, DownInv, ParseInv, TxInv, WakeInv, LeaveInv DEF AfterDown, Leave
<1>3. ASSUME (\E sent \in SUBSET Conn : nss_core_init_nss(0, sent)) \/ nss_core_init_nss(1, {})
      PROVE  IInv'
  <2>1. ASSUME NEW sent \in SUBSET Conn, nss_core_init_nss(0, sent) PROVE IInv'
      BY <2>1, CoreInv
  <2>2. CASE nss_core_init_nss(1, {})
      BY <2>2, CoreInv
  <2> QED  BY <1>3, <2>1, <2>2
<1> QED  BY <1>1, <1>2, <1>3, AnswerInv, HandlerInv, StutterInv DEF Next

LEMMA Invariance == Spec => []IInv
<1> QED  BY InitInv, NextInv, PTL DEF Spec

(***************************************************************************)
(* What it implies.                                                        *)
(***************************************************************************)

\* The state is well typed, and no path through nss_ipv4_conn_cfg_handler(),
\* nss_n2h_empty_pool_buf_cfg_core0_handler() and the others forgets up(): whoever
\* holds a semaphore is in the middle of a call on a setting of that semaphore.
THEOREM Holders == Spec => []WellFormed
<1>1. IInv => WellFormed
  <2> SUFFICES ASSUME IInv, NEW s \in Sems, sem[s] # Nobody
               PROVE  pc[sem[s]] \in Held /\ SemOf(sem[s]) = s
      BY DEF IInv, WellFormed, HolderIsActive, Held
  <2>1. sem[s] \in Callers
      BY DEF IInv, TypeOK
  <2> QED  BY <2>1 DEF IInv, SemInv
<1> QED  BY <1>1, Invariance, PTL

\* Once nobody is at a setting whose handler "restore[s] the current_value to
\* its previous state", and nothing of it is in the rings, the variable is what
\* the firmware has in force, whatever failed, unless a call on its semaphore
\* timed out, or nss_core_init_nss() wrote the variable behind it or without an
\* update that was sent and accepted; and the flags the data path goes by agree
\* with the firmware whatever timed out.
THEOREM Agreement == Spec => []InForce
<1>1. IInv => InForce
  <2> SUFFICES ASSUME IInv PROVE VariableInForce /\ FlagInForce
      BY DEF InForce
  <2>1. requests \in Seq(Msgs) /\ replies \in Seq(Msgs)
      BY DEF IInv, TypeOK
  <2>2. FlagInForce
    <3>1. \A k \in Flags : ~ Answered(k) => flag[k] = nss[k]
        BY <2>1 DEF IInv, FlagInv, Answered
    <3> QED  BY <3>1 DEF FlagInForce
  <2>3. VariableInForce
    <3> SUFFICES ASSUME NEW k \in Knobs, Setting[k].restore, Settled(k), k \notin adrift,
                        Setting[k].sem \notin overdue
                 PROVE  value[k] = nss[k]
        BY DEF VariableInForce
    <3>1. k \in Conn \cup Pool /\ Setting[k].sem \in Sems
        BY SettingFacts
    <3>2. \A d \in Callers : ~ At(d, k)
      <4>1. \A d \in Callers : At(d, k) => sem[Setting[k].sem] = d
          BY <3>1 DEF IInv, SemInv, At, SemOf
      <4> QED  BY <4>1, NobodyAssumption DEF Settled
    <3>3. value[k] = Due(k)
        BY <3>1, <3>2 DEF IInv, ValueInv, Value
    <3>4. ~ Coming(k)
        BY <2>1 DEF Settled, OnItsWay, Coming, Update
    <3> QED  BY <3>3, <3>4 DEF Due
  <2> QED  BY <2>2, <2>3
<1> QED  BY <1>1, Invariance, PTL

\* With one of the two connection settings used, and the updates of
\* nss_core_init_nss() accepted, the firmware's IPv4 and IPv6 connections never
\* exceed the limit that nss_ipv4_conn_cfg_process() checks.
THEOREM WithinLimit == Spec => []SoleUseWithinLimit
<1>1. IInv => SoleUseWithinLimit
  <2> SUFFICES ASSUME IInv, ~ Conn \subseteq used, adrift = {},
                      \A i \in DOMAIN requests : requests[i].type # "update"
               PROVE  SumWithinLimit
      BY DEF SoleUseWithinLimit
  <2>1. PICK k \in Conn \ used : TRUE
      OBVIOUS
  <2>2. requests \in Seq(Msgs)
      BY DEF IInv, TypeOK
  <2>3. \A j \in Conn : Due(j) = nss[j]
      BY <2>2 DEF Due, Coming, Update
  <2>4. Other(k) \in Conn /\ MaxTotal \in Nat
      BY ConnAssumption DEF Other, Conn
  <2>5. CASE 0 \in up
    <3>1. Due(k) = MaxConn[k] /\ Due(Other(k)) + MaxConn[k] <= MaxTotal
        BY <2>5 DEF IInv, SumInv
    <3>2. nss[Other(k)] + nss[k] <= MaxTotal
        BY <2>3, <2>4, <3>1
    <3>3. nss["ipv4_conn"] \in Nat /\ nss["ipv6_conn"] \in Nat
        BY SettingFacts, ValueFacts DEF IInv, TypeOK
    <3> QED  BY <3>2, <3>3 DEF SumWithinLimit, Other, Conn
  <2>6. CASE 0 \notin up
    <3>1. nss["ipv4_conn"] = 4 /\ nss["ipv6_conn"] = 4
        BY <2>6 DEF IInv, SumInv
    <3> QED  BY <3>1, ConnAssumption DEF SumWithinLimit
  <2> QED  BY <2>5, <2>6
<1> QED  BY <1>1, Invariance, PTL
=============================================================================
