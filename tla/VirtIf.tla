------------------------------- MODULE VirtIf -------------------------------
(***************************************************************************)
(* nss_virt_if.c, nss_tx_rx_virt_if.c and nss_wifi_if.c: an interface of   *)
(* the host with a node of its own in the NSS.  Each file keeps a table of *)
(* handles by number; creating and destroying one takes a message to the   *)
(* dynamic interface, a registration with the core, a message to the node  *)
(* and a reference to the net device, by callers in process context (or by *)
(* callbacks in the poll, asynchronously) that any of these may fail for.  *)
(*                                                                         *)
(* A call of nss_dynamic_interface_alloc_node() or _dealloc_node() returns *)
(* the answer to its own message or times out: what module DynamicInterface*)
(* establishes as long as no earlier call has been overtaken.              *)
(***************************************************************************)
EXTENDS Integers, Sequences, FiniteSets

CONSTANTS
    Callers,     \* processes; each has a net device, known by its name
    Handles,     \* bound: the handles that can be allocated, never reused
    IfNums,      \* the dynamic interface numbers of the NSS
    RingMax,     \* bound: room in the command ring, and in the N2H ring
    UsedSets,    \* sets of files; the functions of one of them are used
    Null

ASSUME RingAssumption == RingMax \in Nat \ {0}
ASSUME FiniteAssumption ==
    IsFiniteSet(Callers) /\ IsFiniteSet(Handles) /\ IsFiniteSet(IfNums)

\* nss_virt_if.c, nss_tx_rx_virt_if.c, nss_wifi_if.c.
Files == {"virt_if", "tx_rx", "wifi"}

ASSUME NullAssumption == Null \notin Callers \cup Handles \cup IfNums \cup Files
ASSUME UsedAssumption == UsedSets \subseteq SUBSET Files

VARIABLES
    used,      \* the files whose functions are used
    hd,        \* the handles: state, file, number, completion, who uses it
    table,     \* each file's table of handles
    handlers,  \* nss_rx_interface_handlers[]: the file whose handler is set
    ndev,      \* subsys_dp_register[].ndev
    refs,      \* references to each net device
    pc,        \* where each caller is
    job,       \* the handle, number, file and device of its call
    got,       \* the answer of the dynamic interface to its present message
    cur,       \* the message and the handle that the poll works on
    cmds,      \* messages in the command ring
    replies,   \* messages in the N2H ring
    node,      \* NSS: the nodes allocated
    evicted    \* history: handles taken out of the table when another one with
               \* their number before was freed

vars == << used, hd, table, handlers, ndev, refs, pc, job, got, cur, cmds,
           replies, node, evicted >>
shared == << used, table, handlers, ndev, refs, evicted >>
nss == << cur, cmds, replies, node >>

Msgs == [op : {"alloc", "dealloc", "create", "stats"}, i : IfNums \cup {Null},
         h : Handles \cup {Null}, from : Callers \cup {Null}, ack : BOOLEAN]
Msg(op, i, h, c) == [op |-> op, i |-> i, h |-> h, from |-> c, ack |-> FALSE]

\* Null is nothing that the poll works on.
ASSUME NoWork == Null \notin [m : Msgs, h : Handles \cup {Null}]

NoJob == [file |-> "virt_if", h |-> Null, i |-> Null, user |-> FALSE,
          dev |-> Null, next |-> "destroy"]

TypeOK ==
    /\ used \subseteq Files
    /\ hd \in [Handles -> [st : {"new", "live", "freed"}, file : Files,
                           i : IfNums \cup {Null}, owner : Callers \cup {Null},
                           done : {"no", "ACK", "NACK"}]]
    /\ table \in [Files -> [IfNums -> Handles \cup {Null}]]
    /\ handlers \in [IfNums -> Files \cup {Null}]
    /\ ndev \in [IfNums -> Callers \cup {Null}]
    /\ refs \in [Callers -> Nat]
    /\ pc \in [Callers -> {"idle", "alloc", "alloc_wait", "handle", "register",
                           "create", "wait", "ndev", "hold", "put", "destroy",
                           "dealloc", "dealloc_wait", "free", "async",
                           "unregister"}]
    /\ got \in [Callers -> Msgs \cup {Null}]
    /\ cmds \in Seq(Msgs) /\ replies \in Seq(Msgs)
    /\ node \subseteq IfNums
    /\ evicted \subseteq Handles

Init ==
    /\ used \in UsedSets
    /\ hd = [h \in Handles |-> [st |-> "new", file |-> "virt_if", i |-> Null,
                                owner |-> Null, done |-> "no"]]
    /\ table = [f \in Files |-> [i \in IfNums |-> Null]]
    /\ handlers = [i \in IfNums |-> Null]
    /\ ndev = [i \in IfNums |-> Null]
    /\ refs = [c \in Callers |-> 0]
    /\ pc = [c \in Callers |-> "idle"]
    /\ job = [c \in Callers |-> NoJob]
    /\ got = [c \in Callers |-> Null]
    /\ cur = Null
    /\ cmds = << >>
    /\ replies = << >>
    /\ node = {}
    /\ evicted = {}

(***************************************************************************)
(* Steps of a caller.                                                      *)
(***************************************************************************)

GoTo(c, from, to) == pc[c] = from /\ pc' = [pc EXCEPT ![c] = to]

Leave(c) ==
    /\ pc' = [pc EXCEPT ![c] = "idle"]
    /\ job' = [job EXCEPT ![c] = NoJob]

Send(m) == Len(cmds) < RingMax /\ cmds' = Append(cmds, m)

\* The answer to a synchronous call that is over is no one's.
Disowned(c, m) ==
    IF m.from = c /\ m.h = Null THEN [m EXCEPT !.from = Null] ELSE m

Create(c, f) ==
    /\ f \in used
    /\ GoTo(c, "idle", "alloc")
    /\ job' = [job EXCEPT ![c] = [NoJob EXCEPT !.file = f, !.dev = c]]
    /\ UNCHANGED << hd, shared, got, nss >>

nss_virt_if_create_sync(c) == Create(c, "virt_if")
nss_create_virt_if(c) == Create(c, "tx_rx")
nss_wifi_if_create(c) == Create(c, "wifi")

\* nss_dynamic_interface_alloc_node() and _dealloc_node(): the message goes
\* to the ring, or cannot.
Request(c, op) ==
    /\ GoTo(c, op, IF op = "alloc" THEN "alloc_wait" ELSE "dealloc_wait")
    /\ Send(Msg(op, job[c].i, Null, c))
    /\ got' = [got EXCEPT ![c] = Null]
    /\ UNCHANGED << hd, shared, job, cur, replies, node >>

RequestFails(c, op) ==
    /\ pc[c] = op
    /\ Leave(c)
    /\ UNCHANGED << hd, shared, got, nss >>

\* ... and no answer comes in time.
RequestTimesOut(c) ==
    /\ pc[c] \in {"alloc_wait", "dealloc_wait"}
    /\ got[c] = Null
    /\ cmds' = [n \in DOMAIN cmds |-> Disowned(c, cmds[n])]
    /\ replies' = [n \in DOMAIN replies |-> Disowned(c, replies[n])]
    /\ cur' = IF cur = Null THEN Null ELSE [cur EXCEPT !.m = Disowned(c, @)]
    /\ Leave(c)
    /\ UNCHANGED << hd, shared, got, node >>

Allocated(c) ==
    /\ pc[c] = "alloc_wait"
    /\ got[c] # Null
    /\ got' = [got EXCEPT ![c] = Null]
    /\ IF got[c].ack
       THEN /\ pc' = [pc EXCEPT ![c] = "handle"]
            /\ job' = [job EXCEPT ![c].i = got[c].i]
       ELSE Leave(c)
    /\ UNCHANGED << hd, shared, nss >>

\* nss_*_if_handle_create(): the handle and its private part, and the table.
NewHandle(c, h) ==
    LET j == job[c] IN
    /\ hd[h].st = "new"
    /\ GoTo(c, "handle", "register")
    /\ hd' = [hd EXCEPT ![h] = [st |-> "live", file |-> j.file, i |-> j.i,
                                owner |-> Null, done |-> "no"]]
    /\ table' = [table EXCEPT ![j.file][j.i] = h]
    /\ job' = [job EXCEPT ![c].h = h]
    /\ UNCHANGED << used, evicted, handlers, ndev, refs, got, nss >>

\* No memory: the node is given back.
NoHandle(c) ==
    /\ GoTo(c, "handle", "dealloc")
    /\ UNCHANGED << hd, shared, job, got, nss >>

\* Mutant of Refused: a registration replaces the one before.
Refused_Never(i) == FALSE

\* nss_core_register_handler() refuses a number that has a handler.
Refused(i) == handlers[i] # Null

\* nss_*_if_register_handler().
Register(c) ==
    LET j == job[c] IN
    /\ pc[c] = "register"
    /\ pc' = [pc EXCEPT ![c] = IF Refused(j.i) THEN "destroy" ELSE "create"]
    /\ handlers' = IF Refused(j.i) THEN handlers
                   ELSE [handlers EXCEPT ![j.i] = j.file]
    /\ UNCHANGED << used, evicted, hd, table, ndev, refs, job, got, nss >>

\* nss_*_if_tx_msg_sync() of the CREATE message, with the callback below.
SendCreate(c) ==
    /\ GoTo(c, "create", "wait")
    /\ Send(Msg("create", job[c].i, job[c].h, Null))
    /\ UNCHANGED << hd, shared, job, got, cur, replies, node >>

\* No room or no memory, no answer in time, or a refusal.
CreateFails(c) ==
    /\ \/ pc[c] = "create"
       \/ pc[c] = "wait" /\ hd[job[c].h].done \in {"no", "NACK"}
    /\ pc' = [pc EXCEPT ![c] = "destroy"]
    /\ UNCHANGED << hd, shared, job, got, nss >>

Created(c) ==
    /\ GoTo(c, "wait", "ndev")
    /\ hd[job[c].h].done = "ACK"
    /\ UNCHANGED << hd, shared, job, got, nss >>

SetNdev(c) ==
    LET i == job[c].i IN
    /\ GoTo(c, "ndev", "hold")
    /\ ndev' = [ndev EXCEPT ![i] = IF @ = Null THEN c ELSE @]
    /\ UNCHANGED << used, evicted, hd, table, handlers, refs, job, got, nss >>

\* dev_hold(), and the handle is the caller's.
Hold(c) ==
    /\ pc[c] = "hold"
    /\ refs' = [refs EXCEPT ![c] = @ + 1]
    /\ hd' = [hd EXCEPT ![job[c].h].owner = c]
    /\ Leave(c)
    /\ UNCHANGED << used, evicted, table, handlers, ndev, got, nss >>

\* The user names the device that packets go to (again), or none.
SetUserNdev(c, h, f, d) ==
    /\ pc[c] = "idle" /\ hd[h].owner = c /\ hd[h].file = f
    /\ ndev' = [ndev EXCEPT ![hd[h].i] = d]
    /\ UNCHANGED << used, evicted, hd, table, handlers, refs, pc, job, got,
                    nss >>

nss_virt_if_register(c, h) == SetUserNdev(c, h, "virt_if", c)
nss_register_virt_if(c, h) == SetUserNdev(c, h, "tx_rx", c)
nss_wifi_if_register(c, h) == SetUserNdev(c, h, "wifi", c)
nss_virt_if_unregister(c, h) == SetUserNdev(c, h, "virt_if", Null)
nss_unregister_virt_if(c, h) == SetUserNdev(c, h, "tx_rx", Null)
nss_wifi_if_unregister(c, h) == SetUserNdev(c, h, "wifi", Null)

\* Mutant of ClearNdev: the number keeps its device.
ClearNdev_Not(i) == ndev' = ndev

ClearNdev(i) == ndev' = [ndev EXCEPT ![i] = Null]

\* Refused when the number has no device (nss_top_main.lock).
Destroy(c, h, f, next) ==
    LET i == hd[h].i IN
    /\ hd[h].owner = c /\ hd[h].file = f
    /\ ndev[i] # Null
    /\ GoTo(c, "idle", "put")
    /\ job' = [job EXCEPT ![c] = [file |-> f, h |-> h, i |-> i, next |-> next,
                                  user |-> TRUE, dev |-> ndev[i]]]
    /\ ClearNdev(i)
    /\ hd' = [hd EXCEPT ![h].owner = Null]
    /\ UNCHANGED << used, evicted, table, handlers, refs, got, nss >>

nss_virt_if_destroy_sync(c, h) == Destroy(c, h, "virt_if", "destroy")
nss_virt_if_destroy(c, h) == Destroy(c, h, "virt_if", "async")
nss_destroy_virt_if(c, h) == Destroy(c, h, "tx_rx", "destroy")
nss_wifi_if_destroy(c, h) == Destroy(c, h, "wifi", "destroy")

\* dev_put().
Put(c) ==
    /\ GoTo(c, "put", job[c].next)
    /\ refs' = [refs EXCEPT ![job[c].dev] = @ - 1]
    /\ UNCHANGED << used, evicted, hd, table, handlers, ndev, job, got, nss >>

\* nss_wifi_if_handle_destroy() clears its table first.
ClearBefore(c) ==
    IF job[c].file = "wifi" THEN [table EXCEPT !["wifi"][job[c].i] = Null]
    ELSE table

HandleDestroy(c) ==
    /\ GoTo(c, "destroy", "dealloc")
    /\ table' = ClearBefore(c)
    /\ UNCHANGED << used, evicted, hd, handlers, ndev, refs, job, got, nss >>

\* Mutant of Deallocated: the handle goes although no answer has come.
Deallocated_Unanswered(c) ==
    /\ pc[c] = "dealloc_wait"
    /\ got' = [got EXCEPT ![c] = Null]
    /\ IF job[c].h # Null
       THEN pc' = [pc EXCEPT ![c] = "free"] /\ UNCHANGED job
       ELSE Leave(c)
    /\ UNCHANGED << hd, shared, nss >>

\* A handle whose node could not be given back is kept (and lost).
Deallocated(c) ==
    /\ pc[c] = "dealloc_wait"
    /\ got[c] # Null
    /\ got' = [got EXCEPT ![c] = Null]
    /\ IF got[c].ack /\ job[c].h # Null
       THEN pc' = [pc EXCEPT ![c] = "free"] /\ UNCHANGED job
       ELSE Leave(c)
    /\ UNCHANGED << hd, shared, nss >>

\* nss_virt_if_handle_destroy_sync(), nss_tx_rx_virt_if_handle_destroy().
ClearAfter(c) ==
    IF job[c].file = "wifi" THEN table
    ELSE [table EXCEPT ![job[c].file][job[c].i] = Null]

\* The number may be in the table again for another handle: one whose creation
\* has come that far, or, after a creation whose handler was refused, one that is
\* in use since the handler it was refused for has been unregistered.
Free(c) ==
    LET j == job[c] IN
    /\ pc[c] = "free"
    /\ table' = ClearAfter(c)
    /\ hd' = [hd EXCEPT ![j.h].st = "freed"]
    /\ evicted' = IF j.file = "wifi" THEN evicted
                  ELSE evicted \cup ({table[j.file][j.i]} \ {j.h, Null})
    /\ IF j.user /\ j.file # "wifi"
       THEN pc' = [pc EXCEPT ![c] = "unregister"] /\ UNCHANGED job
       ELSE Leave(c)
    /\ UNCHANGED << used, handlers, ndev, refs, got, nss >>

\* nss_core_unregister_handler().
Unregister(c) ==
    /\ pc[c] = "unregister"
    /\ handlers' = [handlers EXCEPT ![job[c].i] = Null]
    /\ Leave(c)
    /\ UNCHANGED << used, evicted, hd, table, ndev, refs, got, nss >>

\* nss_virt_if_handle_destroy(), from nss_virt_if_destroy().
DestroyAsync(c) ==
    /\ GoTo(c, "async", "unregister")
    /\ Send(Msg("dealloc", job[c].i, job[c].h, Null))
    /\ UNCHANGED << hd, shared, job, got, cur, replies, node >>

DestroyAsyncFails(c) ==
    /\ pc[c] = "async"
    /\ Leave(c)
    /\ UNCHANGED << hd, shared, got, nss >>

\* The handle waits for its number in the message;
\* `owner` is set when the callback tells the caller.
nss_virt_if_create(c, h) ==
    /\ "virt_if" \in used
    /\ pc[c] = "idle"
    /\ hd[h].st = "new"
    /\ hd' = [hd EXCEPT ![h].st = "live"]
    /\ Send(Msg("alloc", Null, h, c))
    /\ UNCHANGED << shared, pc, job, got, cur, replies, node >>

(***************************************************************************)
(* The NSS (external), and the poll.                                       *)
(***************************************************************************)

Answers(m) ==
    {m} \cup CASE m.op = "alloc" ->
                    {[m EXCEPT !.i = i, !.ack = TRUE] : i \in IfNums \ node}
               [] OTHER -> {[m EXCEPT !.ack = TRUE] : i \in {m.i} \cap node}

Firmware ==
    /\ cmds # << >>
    /\ Len(replies) < RingMax
    /\ \E r \in Answers(Head(cmds)) :
        /\ replies' = Append(replies, r)
        /\ node' = CASE r.ack /\ r.op = "alloc" -> node \cup {r.i}
                     [] r.ack /\ r.op = "dealloc" -> node \ {r.i}
                     [] OTHER -> node
    /\ cmds' = Tail(cmds)
    /\ UNCHANGED << hd, shared, pc, job, got, cur >>

\* Statistics of a node, unasked.
FirmwareStats(i) ==
    /\ i \in node
    /\ Len(replies) < RingMax
    /\ replies' = Append(replies, Msg("stats", i, Null, Null))
    /\ UNCHANGED << hd, shared, pc, job, got, cur, cmds, node >>

\* The number's handler takes the handle out of its file's table under the
\* lock, and uses it after.
Lookup(i) == IF handlers[i] = Null THEN Null ELSE table[handlers[i]][i]

Receive ==
    LET m == Head(replies)
        h == IF m.op \in {"alloc", "dealloc"} THEN m.h ELSE Lookup(m.i)
    IN  /\ cur = Null
        /\ replies # << >>
        /\ replies' = Tail(replies)
        /\ cur' = IF m.op \in {"create", "stats"} /\ h = Null THEN Null
                  ELSE [m |-> m, h |-> h]
        /\ UNCHANGED << hd, shared, pc, job, got, cmds, node >>

Handled == cur' = Null

\* nss_tx_rx_virt_if_callback() looks into the table again; the other two
\* take the handle that comes with the message as it is.
Completes(m) ==
    m.h # Null /\ (hd[m.h].file = "tx_rx" => table["tx_rx"][m.i] # Null)

\* nss_*_if_msg_handler() counts statistics, and calls back for a CREATE.
MsgHandler ==
    /\ cur # Null /\ cur.m.op \in {"create", "stats"}
    /\ Handled
    /\ hd' = IF ~ Completes(cur.m) THEN hd
             ELSE [hd EXCEPT ![cur.m.h].done = IF cur.m.ack THEN "ACK" ELSE "NACK"]
    /\ UNCHANGED << shared, pc, job, got, cmds, replies, node >>

\* The synchronous calls of the dynamic interface.
DynamicCallback ==
    /\ cur # Null /\ cur.m.op \in {"alloc", "dealloc"} /\ cur.h = Null
    /\ Handled
    /\ got' = IF cur.m.from = Null THEN got ELSE [got EXCEPT ![cur.m.from] = cur.m]
    /\ UNCHANGED << hd, shared, pc, job, cmds, replies, node >>

CreateCallback == cur # Null /\ cur.m.op = "alloc" /\ cur.h # Null

\* nss_virt_if_handle_create_cb(): the NSS has refused.
CreateCbRefused ==
    /\ CreateCallback /\ ~ cur.m.ack
    /\ Handled
    /\ hd' = [hd EXCEPT ![cur.h].st = "freed"]
    /\ UNCHANGED << shared, pc, job, got, cmds, replies, node >>

\* The number is the handle's, and in the table, before the lock is released.
CreateCbEntry ==
    LET i == cur.m.i IN
    /\ CreateCallback /\ cur.m.ack
    /\ hd[cur.h].i = Null
    /\ table' = [table EXCEPT !["virt_if"][i] = cur.h]
    /\ hd' = [hd EXCEPT ![cur.h].i = i]
    /\ UNCHANGED << used, evicted, handlers, ndev, refs, pc, job, got, nss >>

\* Its handler is registered, a CREATE sent, and the device referenced.
CreateCb ==
    LET i == cur.m.i IN
    /\ CreateCallback /\ cur.m.ack
    /\ hd[cur.h].i # Null
    /\ Handled
    /\ ~ Refused(i)
    /\ handlers' = [handlers EXCEPT ![i] = "virt_if"]
    /\ Send(Msg("create", i, Null, Null))
    /\ ndev' = [ndev EXCEPT ![i] = IF @ = Null THEN cur.m.from ELSE @]
    /\ refs' = [refs EXCEPT ![cur.m.from] = @ + 1]
    /\ hd' = [hd EXCEPT ![cur.h].owner = cur.m.from]
    /\ UNCHANGED << used, evicted, table, pc, job, got, replies, node >>

\* The handler is refused, or the CREATE cannot be sent: the node is given
\* back (nss_virt_if_handle_destroy()) if this message can be sent, and the
\* handler stays if it was registered.
CreateCbFails ==
    LET i == cur.m.i IN
    /\ CreateCallback /\ cur.m.ack
    /\ hd[cur.h].i # Null
    /\ Handled
    /\ handlers' = [handlers EXCEPT ![i] = IF Refused(i) THEN @ ELSE "virt_if"]
    /\ \/ Send(Msg("dealloc", i, cur.h, Null))
       \/ UNCHANGED cmds
    /\ UNCHANGED << used, evicted, hd, table, ndev, refs, pc, job, got, replies,
                    node >>

\* Mutant of DestroyCb: the table keeps the handle.
DestroyCb_KeepsEntry ==
    /\ cur # Null /\ cur.m.op = "dealloc" /\ cur.h # Null
    /\ Handled
    /\ hd' = IF cur.m.ack THEN [hd EXCEPT ![cur.h].st = "freed"] ELSE hd
    /\ UNCHANGED << shared, pc, job, got, cmds, replies, node >>

\* nss_virt_if_handle_destroy_cb().
DestroyCb ==
    /\ cur # Null /\ cur.m.op = "dealloc" /\ cur.h # Null
    /\ Handled
    /\ IF cur.m.ack
       THEN /\ table' = [table EXCEPT !["virt_if"][hd[cur.h].i] = Null]
            /\ hd' = [hd EXCEPT ![cur.h].st = "freed"]
       ELSE UNCHANGED << table, hd >>
    /\ UNCHANGED << used, evicted, handlers, ndev, refs, pc, job, got, cmds,
                    replies, node >>

CallerStep(c) ==
    \/ \E op \in {"alloc", "dealloc"} : Request(c, op) \/ RequestFails(c, op)
    \/ RequestTimesOut(c) \/ Allocated(c) \/ Deallocated(c)
    \/ (\E h \in Handles : NewHandle(c, h)) \/ NoHandle(c)
    \/ Register(c) \/ SendCreate(c) \/ CreateFails(c) \/ Created(c)
    \/ SetNdev(c) \/ Hold(c) \/ Put(c) \/ HandleDestroy(c) \/ Free(c)
    \/ Unregister(c) \/ DestroyAsync(c) \/ DestroyAsyncFails(c)

Poll == Receive \/ MsgHandler \/ DynamicCallback \/ CreateCbRefused
        \/ CreateCbEntry \/ CreateCb \/ CreateCbFails \/ DestroyCb

Next ==
    \/ \E c \in Callers :
        \/ nss_virt_if_create_sync(c) \/ nss_create_virt_if(c) \/ nss_wifi_if_create(c)
        \/ \E h \in Handles :
            \/ nss_virt_if_create(c, h)
            \/ nss_virt_if_register(c, h) \/ nss_virt_if_unregister(c, h)
            \/ nss_register_virt_if(c, h) \/ nss_unregister_virt_if(c, h)
            \/ nss_wifi_if_register(c, h) \/ nss_wifi_if_unregister(c, h)
            \/ nss_virt_if_destroy_sync(c, h) \/ nss_virt_if_destroy(c, h)
            \/ nss_destroy_virt_if(c, h) \/ nss_wifi_if_destroy(c, h)
        \/ CallerStep(c)
    \/ Firmware
    \/ \E i \in IfNums : FirmwareStats(i)
    \/ Poll

Spec == Init /\ [][Next]_vars

(***************************************************************************)
(* Properties.                                                             *)
(***************************************************************************)

Live == {h \in Handles : hd[h].st = "live"}

\* The poll never works on memory that has been freed: not on the handle that
\* a late answer carries, nor on one that nss_wifi_if.c has taken out of its
\* table.  No lock and no count protects them: a handle is only freed after
\* the answer to the message that gives its node back, answers come in the
\* order of the messages, and nss_wifi_if.c clears its table before it asks.
\* (The other two clear theirs after the answer, when the number may have
\* become that of another interface whose messages still find the old one.)
NoUseAfterFree ==
    cur # Null =>
        /\ cur.m.h \in Live \cup {Null}
        /\ cur.h # Null /\ hd[cur.h].file = "wifi" => cur.h \in Live

\* An interface that its user has not destroyed is known under its number to
\* the NSS, to the core and to its file, whoever else creates or destroys
\* interfaces, also those that had the number before; but its file forgets it
\* if the table is cleared of the one that had the number before only after it
\* has been entered there.
KnownEverywhere ==
    \A h \in Handles : hd[h].owner # Null =>
        /\ h \in Live
        /\ hd[h].i \in node
        /\ handlers[hd[h].i] = hd[h].file
        /\ table[hd[h].file][hd[h].i] = h \/ h \in evicted

\* "Hold a reference to the net_device": a device that packets of an
\* interface are delivered to is referenced once for each of them, but for
\* the moment before dev_hold(), and until dev_put().
DevicesReferenced ==
    \A c \in Callers :
        refs[c] + (IF pc[c] = "hold" THEN 1 ELSE 0)
            >= Cardinality({i \in IfNums : ndev[i] = c})
                + Cardinality({d \in Callers : pc[d] = "put" /\ job[d].dev = c})

\* A table that no one is at work on holds no handle that is gone: what
\* nss_virt_if_copy_stats() and the others find in it can be used.
TablesHoldLive ==
    \A f \in Files, i \in IfNums : table[f][i] \in Live \cup {Null}

\* The state is well typed, and no table holds freed memory.
WellFormed == TypeOK /\ TablesHoldLive
=============================================================================
