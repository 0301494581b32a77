--------------------------- MODULE MessageClients ---------------------------
(***************************************************************************)
(* Registering and unregistering the clients of the NSS: tunnels, link     *)
(* interfaces, crypto, profiler, Wi-Fi.  Each source file stores the same  *)
(* kinds of things in a few shared variables, in process context, and its  *)
(* handler, and nss_core.c for packets, read them in the NAPI poll of      *)
(* another CPU.  There is no lock and no barrier between the two, so the   *)
(* stores of a call, and the loads of a handler, take effect in any order. *)
(*                                                                         *)
(* Two records for each file say what its functions store and load; one    *)
(* machine runs them all.  A behaviour uses the functions of one file.     *)
(*                                                                         *)
(* The variables are named by a field:                                     *)
(*   ndev, cb, ext_cb, app   members of subsys_dp_register[if_num]         *)
(*   if_cb                   a message callback of the interface           *)
(*   core                    nss_rx_interface_handlers[if_num]             *)
(*   file_cb, file_ctx       a message callback, or a context, of which    *)
(*                           there is one for all interfaces of the file   *)
(* "slot" is an entry of the file's table of statistics, which has a fixed *)
(* number of them, and "slots", in what a function clears, all of them.    *)
(***************************************************************************)
EXTENDS Naturals, FiniteSets, TLC

CONSTANTS
    Sessions,   \* the interfaces (sessions, tunnels) of a file with several
    Used,       \* the files whose functions are used, named as in Registration
    TableSize,  \* NSS_MAX_DTLS_SESSIONS and the like, of each file with a table
    Nobody      \* NULL

ASSUME NobodyAssumption == Nobody \notin Sessions

\* What else may become of a callback is not the context of a session.
ASSUME OutcomeAssumption == {"none", "stack", "NULL"} \cap Sessions = {}

(***************************************************************************)
(* What the functions to register and unregister store and clear; which    *)
(* fields make a registration fail if they are set; whether the file       *)
(* serves several interfaces.  An app_data that is always NULL is left out. *)
(***************************************************************************)

\* The callback and context of core 0.  Unregistering registers a NULL handler,
\* which nss_core_register_handler() refuses, so that the old one stays.
Profiler == [ several |-> FALSE, refused_by |-> {"core"},
              register |-> {"core", "file_ctx", "file_cb"},
              unregister |-> {"file_cb", "file_ctx"} ]

Tun6rd == [ several |-> TRUE, refused_by |-> {},
            register |-> {"ndev", "cb", "file_cb", "core"},
            unregister |-> {"ndev", "cb", "file_cb", "core"} ]

Tunipip6 == [ several |-> FALSE, refused_by |-> {},
              register |-> {"file_cb", "ndev", "cb"},
              unregister |-> {"cb", "ndev", "file_cb"} ]

Sjack == [ several |-> FALSE, refused_by |-> {},
           register |-> {"ndev", "if_cb"},
           unregister |-> {"ndev", "if_cb"} ]

Lag == [ several |-> TRUE, refused_by |-> {},
         register |-> {"ndev", "cb", "file_cb"},
         unregister |-> {"cb", "ndev", "file_cb"} ]

Oam == [ several |-> FALSE, refused_by |-> {"file_ctx", "file_cb"},
         register |-> {"file_ctx", "file_cb"},
         unregister |-> {"file_cb", "file_ctx"} ]

\* Encapsulation and decapsulation; the context is the app_data of the caller.
IpsecNotify == [ several |-> TRUE, refused_by |-> {},
                 register |-> {"app", "if_cb"},
                 unregister |-> {"app", "if_cb"} ]

\* A registration over another one that has a callback changes nothing.
IpsecData == [ several |-> TRUE, refused_by |-> {},
               register |-> {"cb", "ndev"},
               unregister |-> {"cb", "ndev"} ]

Dtls == [ several |-> TRUE, refused_by |-> {"ndev"},
          register |-> {"slot", "ndev", "cb", "app", "file_cb", "core"},
          unregister |-> {"slot", "ndev", "cb", "app", "file_cb", "core"} ]

\* The sessions are the user of the messages and the user of the buffers.
Crypto == [ several |-> TRUE, refused_by |-> {},
            register |-> {"file_ctx", "if_cb"},
            unregister |-> {"file_ctx", "if_cb"} ]

L2tpv2 == [ several |-> TRUE, refused_by |-> {},
            register |-> {"ndev", "cb", "file_cb", "core", "slot"},
            unregister |-> {"ndev", "cb", "file_cb", "core", "slot"} ]

GreRedir == [ several |-> TRUE, refused_by |-> {"core"},
              register |-> {"core", "ndev", "cb", "if_cb", "slot"},
              unregister |-> {"core", "ndev", "cb", "if_cb", "slot"} ]

\* Unregistering one session clears the entries of all.
Pptp == [ several |-> TRUE, refused_by |-> {},
          register |-> {"ndev", "cb", "app", "file_cb", "core", "slot"},
          unregister |-> {"slots", "ndev", "cb", "app", "file_cb", "core"} ]

\* Mutant of MapT: unregistering does as in nss_pptp.c.
MapT_ClearsAll == [ several |-> TRUE, refused_by |-> {},
          register |-> {"ndev", "cb", "app", "file_cb", "core", "slot"},
          unregister |-> {"ndev", "cb", "app", "file_cb", "core", "slots"} ]

MapT == [ several |-> TRUE, refused_by |-> {},
          register |-> {"ndev", "cb", "app", "file_cb", "core", "slot"},
          unregister |-> {"ndev", "cb", "app", "file_cb", "core", "slot"} ]

\* Nothing clears the message callback.
Wifi == [ several |-> TRUE, refused_by |-> {},
          register |-> {"ndev", "cb", "ext_cb", "file_cb"},
          unregister |-> {"ndev", "cb", "ext_cb"} ]

\* Mutant of WifiVdev: the callback of the interface and its device stay.
WifiVdev_KeepsCallback == [ several |-> TRUE, refused_by |-> {},
              register |-> {"ndev", "cb", "ext_cb", "if_cb", "core"},
              unregister |-> {"cb", "ext_cb", "core"} ]

WifiVdev == [ several |-> TRUE, refused_by |-> {},
              register |-> {"ndev", "cb", "ext_cb", "if_cb", "core"},
              unregister |-> {"ndev", "cb", "ext_cb", "if_cb", "core"} ]

Registration ==
    [ profiler |-> Profiler, tun6rd |-> Tun6rd, tunipip6 |-> Tunipip6,
      sjack |-> Sjack, lag |-> Lag, oam |-> Oam, ipsec_notify |-> IpsecNotify,
      ipsec_data |-> IpsecData, dtls |-> Dtls, crypto |-> Crypto,
      l2tpv2 |-> L2tpv2, gre_redir |-> GreRedir, pptp |-> Pptp, map_t |-> MapT,
      wifi |-> Wifi, wifi_vdev |-> WifiVdev ]

(***************************************************************************)
(* What the handlers load for a NOTIFY and for an answer: the callback,    *)
(* its context (if not, they come with the message) and a guard that       *)
(* nothing is done without; and which of the three they compare with NULL  *)
(* beside the callback.  sends and handles: whether a request whose type   *)
(* is the MAX of its enumeration passes the function that sends it, and    *)
(* the handler that its answer gets to.                                    *)
(***************************************************************************)

Nothing == [ r \in {} |-> "ndev" ]

ProfilerMessages == [ notify |-> [ callback |-> "file_cb", context |-> "file_ctx" ],
                      answer |-> [ context |-> "file_ctx" ],
                      checked |-> {"context"},
                      sends |-> {"plain", "last"}, handles |-> {"plain"} ]

Tun6rdMessages == [ notify |-> [ callback |-> "file_cb", context |-> "ndev" ],
                    answer |-> [ context |-> "ndev" ],
                    checked |-> {"context"},
                    sends |-> {"plain", "last"}, handles |-> {"plain"} ]

Tunipip6Messages == [ notify |-> [ callback |-> "file_cb", context |-> "ndev" ],
                      answer |-> [ context |-> "ndev" ],
                      checked |-> {"context"},
                      sends |-> {"plain", "last"}, handles |-> {"plain"} ]

SjackMessages == [ notify |-> [ callback |-> "if_cb", context |-> "ndev" ],
                   answer |-> [ context |-> "ndev" ],
                   checked |-> {},
                   sends |-> {"plain", "last"}, handles |-> {"plain"} ]

LagSends == {"plain", "last"}

LagMessages == [ notify |-> [ callback |-> "file_cb", context |-> "ndev" ],
                 answer |-> [ context |-> "ndev" ],
                 checked |-> {},
                 sends |-> LagSends, handles |-> {"plain"} ]

OamMessages == [ notify |-> [ callback |-> "file_cb", context |-> "file_ctx" ],
                 answer |-> Nothing,
                 checked |-> {},
                 sends |-> {"plain", "last"}, handles |-> {"plain", "last"} ]

IpsecMessages == [ notify |-> [ callback |-> "if_cb", context |-> "app" ],
                   answer |-> Nothing,
                   checked |-> {},
                   sends |-> {"plain", "last"}, handles |-> {"plain", "last"} ]

DtlsSends == {"plain", "last"}

DtlsMessages == [ notify |-> [ callback |-> "file_cb", context |-> "app" ],
                  answer |-> Nothing,
                  checked |-> {},
                  sends |-> DtlsSends, handles |-> {"plain"} ]

CryptoMessages == [ notify |-> [ callback |-> "if_cb", context |-> "file_ctx" ],
                    answer |-> Nothing,
                    checked |-> {},
                    sends |-> {"plain", "last"}, handles |-> {"plain", "last"} ]

L2tpv2Messages == [ notify |-> [ callback |-> "file_cb", context |-> "ndev" ],
                    answer |-> [ context |-> "ndev" ],
                    checked |-> {"context"},
                    sends |-> {"plain", "last"}, handles |-> {"plain"} ]

GreRedirMessages == [ notify |-> [ callback |-> "if_cb", context |-> "ndev" ],
                      answer |-> [ context |-> "ndev" ],
                      checked |-> {},
                      sends |-> {"plain", "last"}, handles |-> {"plain"} ]

PptpMessages == [ notify |-> [ callback |-> "file_cb", context |-> "app" ],
                  answer |-> Nothing,
                  checked |-> {},
                  sends |-> {"plain", "last"}, handles |-> {"plain"} ]

MapTMessages == [ notify |-> [ callback |-> "file_cb", context |-> "app" ],
                  answer |-> Nothing,
                  checked |-> {},
                  sends |-> {"plain", "last"}, handles |-> {"plain"} ]

WifiMessages == [ notify |-> [ callback |-> "file_cb", context |-> "ndev" ],
                  answer |-> [ context |-> "ndev" ],
                  checked |-> {"context"},
                  sends |-> {"plain", "last"}, handles |-> {"plain"} ]

\* The device is looked at for every message and then once more.
WifiVdevMessages ==
    [ notify |-> [ guard |-> "ndev", callback |-> "if_cb", context |-> "ndev" ],
      answer |-> [ guard |-> "ndev" ],
      checked |-> {"guard"},
      sends |-> {"plain", "last"}, handles |-> {"plain"} ]

Messages ==
    [ profiler |-> ProfilerMessages, tun6rd |-> Tun6rdMessages,
      tunipip6 |-> Tunipip6Messages, sjack |-> SjackMessages,
      lag |-> LagMessages, oam |-> OamMessages, ipsec_notify |-> IpsecMessages,
      ipsec_data |-> IpsecMessages, dtls |-> DtlsMessages,
      crypto |-> CryptoMessages, l2tpv2 |-> L2tpv2Messages,
      gre_redir |-> GreRedirMessages, pptp |-> PptpMessages,
      map_t |-> MapTMessages, wifi |-> WifiMessages,
      wifi_vdev |-> WifiVdevMessages ]

\* nss_core_handle_buffer_pkt() and nss_core_handle_ext_buffer_pkt().
Packet == [ callback |-> "cb", context |-> "ndev" ]
ExtPacket == [ callback |-> "ext_cb", context |-> "ndev" ]

ASSUME UsedAssumption == Used \subseteq DOMAIN Registration
ASSUME SizeAssumption ==
    \A f \in Used : "slot" \in Registration[f].register => TableSize[f] \in Nat

\* Files whose interfaces are dynamic: a packet that has a device but no
\* callback is given to the network stack.
Dynamic == {"tun6rd", "dtls", "l2tpv2", "gre_redir", "pptp", "map_t", "wifi_vdev"}

VARIABLES
    file,       \* the file whose functions are used
    users,      \* the sessions in use
    mem,        \* the shared variables: whose value each of them has
    table,      \* the file's table: whose statistics each entry has
    phase,      \* where each session is
    todo,       \* the stores of its call that are still to take effect
    disturbed,  \* history: sessions whose shared callback another session has
                \* cleared, or left behind (nss_wifi.c), or whose shared context
                \* one has replaced or cleared, or is about to
    replaced,   \* history: sessions whose shared callback another session has
                \* replaced by its own, or is about to
    left_out,   \* history: sessions that found the table full
    poll        \* the handler run in the NAPI poll

vars == << file, users, mem, table, phase, todo, disturbed, replaced, left_out,
           poll >>

SessionFields == {"ndev", "cb", "ext_cb", "app", "if_cb", "core"}
FileFields == {"file_cb", "file_ctx"}
TableFields == {"slot", "slots"}
Cells == (SessionFields \X Sessions) \union (FileFields \X {Nobody})

\* What a call has to do: a store, or one pass through the table.
Steps == Cells \union (TableFields \X Sessions)

Cell(field, s) == << field, IF field \in FileFields THEN Nobody ELSE s >>

StepsOf(fields, s) == { Cell(f, s) : f \in fields }

Reg == Registration[file]
Msg == Messages[file]

\* What arrives from the firmware, and what is read for it.
Events ==
    (IF file = "ipsec_data" THEN {} ELSE {"notify", "answer"})
        \union (IF "cb" \in Reg.register THEN {"packet"} ELSE {})
        \union (IF "ext_cb" \in Reg.register THEN {"ext_packet"} ELSE {})

Loads(event) ==
    CASE event = "notify" -> Msg.notify
      [] event = "answer" -> Msg.answer
      [] event = "packet" -> Packet
      [] event = "ext_packet" -> ExtPacket

Checked(event) ==
    {"callback"} \union
        IF event \in {"notify", "answer"} THEN Msg.checked ELSE {"context"}

Roles == {"guard", "callback", "context"}

Idle == [ stage |-> "idle", event |-> "notify", session |-> Nobody,
          left |-> {}, got |-> [ r \in Roles |-> Nobody ],
          steady |-> FALSE, own |-> FALSE, gone |-> FALSE,
          call |-> "none", by |-> Nobody ]

Entries == IF "slot" \in Reg.register THEN 1..TableSize[file] ELSE {}

TypeOK ==
    /\ file \in Used
    /\ users \subseteq Sessions
    /\ mem \in [ Cells -> Sessions \union {Nobody} ]
    /\ table \in [ Entries -> Sessions \union {Nobody} ]
    /\ phase \in [ Sessions -> {"new", "registering", "in", "unregistering", "out"} ]
    /\ todo \in [ Sessions -> SUBSET Steps ]
    /\ disturbed \subseteq Sessions
    /\ replaced \subseteq Sessions
    /\ left_out \subseteq Sessions
    /\ poll.stage \in {"idle", "reading", "done"}
    /\ poll.left \subseteq Roles
    /\ poll.got \in [ Roles -> Sessions \union {Nobody} ]
    /\ poll.call \in {"none", "stack", "NULL"} \union Sessions
    /\ poll.by \in Sessions \union {Nobody}
    /\ \A s \in Sessions : todo[s] # {} <=> phase[s] \in {"registering", "unregistering"}

\* The handlers of fixed interfaces are there from the start.
Init ==
    /\ file \in Used
    /\ users \in { U \in SUBSET Sessions :
           Cardinality(U) = IF Reg.several THEN Cardinality(Sessions) ELSE 1 }
    /\ mem = [ c \in Cells |->
           IF c[1] = "core" /\ "core" \notin Reg.register THEN c[2] ELSE Nobody ]
    /\ table = [ i \in Entries |-> Nobody ]
    /\ phase = [ s \in Sessions |-> "new" ]
    /\ todo = [ s \in Sessions |-> {} ]
    /\ disturbed = {}
    /\ replaced = {}
    /\ left_out = {}
    /\ poll = Idle

(***************************************************************************)
(* The clients.                                                            *)
(***************************************************************************)

Settled(s) == phase[s] = "in" /\ s \notin disturbed

\* The histories are kept of these.
Active == { s \in users : phase[s] \in {"registering", "in"} }

\* What a poll that is under way may rely on: its session has neither begun to
\* unregister nor to register, nor been disturbed, since it began; nor has its
\* callback been replaced, by the sessions of R.
Touch(S, R) ==
    poll' = [ poll EXCEPT !.steady = @ /\ poll.session \notin S,
                          !.own = @ /\ poll.session \notin S \union R,
                          !.gone = @ /\ poll.session \notin S ]

SharesCallback == "file_cb" \in Reg.register
SharesContext == "file_ctx" \in Reg.register
Others(s) == users \ {s}
StillToClear(s) ==
    \/ phase[s] = "unregistering" /\ (SharesCallback \/ SharesContext)
    \/ phase[s] = "registering" /\ SharesContext
StillToReplace(s) == phase[s] = "registering" /\ SharesCallback

Refuses(s) == \E f \in Reg.refused_by : mem[Cell(f, s)] # Nobody

\* Sessions register when they are new or fully unregistered.  A session that
\* registers while another one clears or replaces what they share may lose it
\* again.
Register(s) ==
    LET hurt == IF SharesContext THEN Active \ {s} ELSE {}
        late == IF \E t \in Others(s) : StillToClear(t) THEN {s} ELSE {}
        outdone == IF SharesCallback THEN Active \ {s} ELSE {}
        raced == IF \E t \in Others(s) : StillToReplace(t) THEN {s} ELSE {}
    IN  /\ s \in users
        /\ phase[s] \in {"new", "out"}
        /\ ~ Refuses(s)
        /\ phase' = [ phase EXCEPT ![s] = "registering" ]
        /\ todo' = [ todo EXCEPT ![s] = StepsOf(Reg.register, s) ]
        /\ disturbed' = disturbed \union hurt \union late
        /\ replaced' = replaced \union outdone \union raced
        /\ Touch({s} \union hurt, outdone)
        /\ UNCHANGED << file, users, mem, table, left_out >>

\* The first entry that is free, for Nobody, or that is of a session.
FirstOf(x, i) ==
    /\ i \in DOMAIN table
    /\ table[i] = x
    /\ \A j \in DOMAIN table : table[j] = x => i <= j

HasEntry(s) == \E i \in DOMAIN table : table[i] = s
Full == \A i \in DOMAIN table : table[i] # Nobody

\* The functions that fail return NULL, also for an interface that is
\* registered; nss_dtls_register_if() has already taken an entry of its table
\* then, if there was one.
RegisterRefused(s) ==
    /\ s \in users
    /\ phase[s] \in {"new", "in", "out"}
    /\ Refuses(s)
    /\ \/ file = "dtls" /\ \E i \in DOMAIN table :
              FirstOf(Nobody, i) /\ table' = [ table EXCEPT ![i] = s ]
       \/ (file = "dtls" => Full) /\ UNCHANGED table
    /\ UNCHANGED << file, users, mem, phase, todo, disturbed, replaced, left_out,
                    poll >>

Unregister(s) ==
    LET hurt == IF SharesCallback \/ SharesContext THEN Active \ {s} ELSE {}
    IN  /\ phase[s] = "in"
        /\ phase' = [ phase EXCEPT ![s] = "unregistering" ]
        /\ todo' = [ todo EXCEPT ![s] = StepsOf(Reg.unregister, s) ]
        /\ disturbed' = (disturbed \ {s}) \union hurt
        /\ replaced' = replaced \ {s}
        /\ left_out' = left_out \ {s}
        /\ Touch({s} \union hurt, {})
        /\ UNCHANGED << file, users, mem, table >>

\* With the last step the call returns.
Done(s, step) ==
    /\ todo' = [ todo EXCEPT ![s] = @ \ {step} ]
    /\ phase' = [ phase EXCEPT ![s] =
                    IF todo[s] # {step} THEN @
                    ELSE IF @ = "registering" THEN "in" ELSE "out" ]

\* A pass through the table, under its spinlock.
InTable(s, field, when) == phase[s] = when /\ << field, s >> \in todo[s]

TakeEntry(s) == \E i \in DOMAIN table :
    /\ InTable(s, "slot", "registering")
    /\ FirstOf(Nobody, i)
    /\ table' = [ table EXCEPT ![i] = s ]
    /\ Done(s, << "slot", s >>)
    /\ UNCHANGED << file, users, mem, disturbed, replaced, left_out, poll >>

\* nss_dtls.c gives up without an entry, and has stored nothing yet; the others
\* go on.
NoFreeEntry(s) ==
    /\ InTable(s, "slot", "registering")
    /\ Full
    /\ IF file = "dtls"
       THEN /\ todo' = [ todo EXCEPT ![s] = {} ]
            /\ phase' = [ phase EXCEPT ![s] = "out" ]
            /\ disturbed' = disturbed \ {s}
            /\ replaced' = replaced \ {s}
            /\ UNCHANGED left_out
       ELSE /\ Done(s, << "slot", s >>)
            /\ left_out' = left_out \union {s}
            /\ UNCHANGED << disturbed, replaced >>
    /\ UNCHANGED << file, users, mem, table, poll >>

ReturnEntry(s) == \E i \in DOMAIN table :
    /\ InTable(s, "slot", "unregistering")
    /\ FirstOf(s, i)
    /\ table' = [ table EXCEPT ![i] = Nobody ]
    /\ Done(s, << "slot", s >>)
    /\ UNCHANGED << file, users, mem, disturbed, replaced, left_out, poll >>

\* nss_dtls_unregister_if() would return here and leave all the rest.
NoEntryFound(s) ==
    /\ InTable(s, "slot", "unregistering")
    /\ ~ HasEntry(s)
    /\ IF file = "dtls"
       THEN /\ todo' = [ todo EXCEPT ![s] = {} ]
            /\ phase' = [ phase EXCEPT ![s] = "out" ]
       ELSE Done(s, << "slot", s >>)
    /\ UNCHANGED << file, users, mem, table, disturbed, replaced, left_out, poll >>

ClearTable(s) ==
    /\ InTable(s, "slots", "unregistering")
    /\ table' = [ i \in DOMAIN table |-> Nobody ]
    /\ Done(s, << "slots", s >>)
    /\ UNCHANGED << file, users, mem, disturbed, replaced, left_out, poll >>

TablePass(s) ==
    \/ TakeEntry(s) \/ NoFreeEntry(s)
    \/ ReturnEntry(s) \/ NoEntryFound(s) \/ ClearTable(s)

\* A store takes effect; in nss_dtls.c, which may give up, after the pass.
Store(s) == \E c \in todo[s] \cap Cells :
    /\ file = "dtls" => todo[s] \subseteq Cells
    /\ mem' = [ mem EXCEPT ![c] = IF phase[s] = "registering" THEN s ELSE Nobody ]
    /\ Done(s, c)
    /\ UNCHANGED << file, users, table, disturbed, replaced, left_out, poll >>

(***************************************************************************)
(* The poll.                                                               *)
(***************************************************************************)

\* The firmware has something for a session it has heard of: a NOTIFY, a packet,
\* or the answer to a request that passed the sending function.
Arrives(event, s) ==
    /\ poll.stage = "idle"
    /\ s \in users
    /\ phase[s] # "new"
    /\ event \in Events

Begin(event, s) ==
    LET loads == Loads(event)
    IN  poll' = [ stage |-> "reading", event |-> event, session |-> s,
                  left |-> DOMAIN loads,
                  got |-> [ r \in Roles |-> IF r \in DOMAIN loads THEN Nobody ELSE s ],
                  steady |-> Settled(s),
                  own |-> Settled(s) /\ s \notin replaced,
                  gone |-> phase[s] = "out",
                  call |-> "none", by |-> Nobody ]

\* nss_core_handle_nss_status_pkt() finds the handler of the interface.
MessageArrives(event, s) == \E type \in {"plain", "last"} :
    /\ Arrives(event, s)
    /\ event = "notify" => type = "plain"
    /\ event = "answer" => type \in Msg.sends
    /\ IF mem[<< "core", s >>] # Nobody /\ type \in Msg.handles
       THEN Begin(event, s)
       ELSE poll' = [ Idle EXCEPT !.stage = "done", !.event = event,
                      !.session = s, !.gone = phase[s] = "out",
                      !.steady = Settled(s) /\ type = "plain" ]
    /\ UNCHANGED << file, users, mem, table, phase, todo, disturbed, replaced,
                    left_out >>

PacketArrives(event, s) ==
    /\ Arrives(event, s)
    /\ Begin(event, s)
    /\ UNCHANGED << file, users, mem, table, phase, todo, disturbed, replaced,
                    left_out >>

Load == \E r \in poll.left :
    /\ poll.stage = "reading"
    /\ poll' = [ poll EXCEPT !.left = @ \ {r},
                   !.got[r] = mem[Cell(Loads(poll.event)[r], poll.session)] ]
    /\ UNCHANGED << file, users, mem, table, phase, todo, disturbed, replaced,
                    left_out >>

\* Mutant of Deliver: the context is looked up by the callback.
Deliver_ContextOfCallback ==
    LET got == poll.got
        called == \A r \in Checked(poll.event) : got[r] # Nobody
    IN  /\ poll.stage = "reading"
        /\ poll.left = {}
        /\ poll' = [ poll EXCEPT !.stage = "done", !.got = Idle.got,
               !.call = IF called THEN got["callback"] ELSE "none",
               !.by = IF called THEN got["callback"] ELSE Nobody ]
        /\ UNCHANGED << file, users, mem, table, phase, todo, disturbed, replaced,
                        left_out >>

\* The callback that was loaded is called with the context that was loaded, the
\* packet goes to the stack, or all is dropped.
Deliver ==
    LET got == poll.got
        called == \A r \in Checked(poll.event) : got[r] # Nobody
    IN  /\ poll.stage = "reading"
        /\ poll.left = {}
        /\ poll' = [ poll EXCEPT !.stage = "done", !.got = Idle.got,
               !.by = IF called THEN got["callback"] ELSE Nobody,
               !.call =
                  IF called
                  THEN IF got["context"] = Nobody THEN "NULL" ELSE got["context"]
                  ELSE IF poll.event = "packet" /\ file \in Dynamic
                               /\ got["context"] # Nobody
                       THEN "stack" ELSE "none" ]
        /\ UNCHANGED << file, users, mem, table, phase, todo, disturbed, replaced,
                        left_out >>

Return ==
    /\ poll.stage = "done"
    /\ poll' = Idle
    /\ UNCHANGED << file, users, mem, table, phase, todo, disturbed, replaced,
                    left_out >>

Next ==
    \/ \E s \in Sessions :
        \/ Register(s)
        \/ RegisterRefused(s)
        \/ Unregister(s)
        \/ TablePass(s)
        \/ Store(s)
        \/ \E event \in {"notify", "answer"} : MessageArrives(event, s)
        \/ \E event \in {"packet", "ext_packet"} : PacketArrives(event, s)
    \/ Load
    \/ Deliver
    \/ Return

Spec == Init /\ [][Next]_vars

Symmetry == Permutations(Sessions)

(***************************************************************************)
(* Properties.                                                             *)
(***************************************************************************)

\* What comes for a session that is registered all the while, and that no other
\* session has disturbed, is handed on with its own context, to its own callback
\* or, where a file has one callback for all and another session has registered
\* since, to the callback of a session that is registered too: the handlers look
\* where the registration stored, nothing that sessions do to variables of their
\* own reaches the others, and no callback outlives its session.
Heard ==
    poll.stage = "done" /\ poll.steady =>
        /\ poll.call = poll.session
        /\ poll.own => poll.by = poll.session
        /\ poll.by # Nobody /\ phase[poll.by] \in {"registering", "in"}

\* Files that keep the handler and answer with what came with the message.
AnswersOutlive == {"oam", "ipsec_notify", "crypto"}

\* After a client has unregistered, a poll that begins then neither calls back
\* with its context nor gives its packets to the stack as if it were a plain
\* interface; the files above excepted for late answers.
SilentWhenGone ==
    poll.stage = "done" /\ poll.gone
            /\ ~ (poll.event = "answer" /\ file \in AnswersOutlive) =>
        poll.call \notin {poll.session, "stack"}

\* A registered session has its entry in the table of statistics, whatever the
\* other sessions do (not so in nss_pptp.c), unless the table was full when it
\* registered, which nss_dtls.c does not let pass.  It has one at most, and none
\* when it is gone, so that the table is full only of sessions that are
\* registered (not so in nss_dtls.c, which keeps the entry of a registration that
\* it refuses).
KeepsSlot ==
    \A s \in Sessions :
        /\ phase[s] = "in" /\ "slot" \in Reg.register /\ file # "pptp" =>
               HasEntry(s) \/ s \in left_out
        /\ file = "dtls" => s \notin left_out
        /\ file # "dtls" =>
            /\ phase[s] \in {"new", "out"} => ~ HasEntry(s)
            /\ \A i, j \in DOMAIN table : table[i] = s /\ table[j] = s => i = j

\* The state is well typed, and the table of statistics has the registered and
\* nobody else.
WellFormed == TypeOK /\ KeepsSlot

=============================================================================
