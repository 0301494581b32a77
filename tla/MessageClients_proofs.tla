------------------------ MODULE MessageClients_proofs ------------------------
(***************************************************************************)
(* For any number of sessions of any of the files: what comes for a        *)
(* registered session reaches its own callback, and what comes for one     *)
(* that has unregistered reaches none, in whatever order the stores of the *)
(* calls and the loads of the poll take effect.                            *)
(***************************************************************************)
EXTENDS MessageClients, TLAPS

(***************************************************************************)
(* What the tables of the files have in common.                            *)
(***************************************************************************)
Own(fields) == fields \cap SessionFields

\* A handler loads what is stored, but no entry of the table, and the file's own
\* callback only as the callback.
Loadable(loads, R) ==
    /\ DOMAIN loads \subseteq Roles
    /\ \A r \in DOMAIN loads : /\ loads[r] \in R.register \ {"slot"}
                               /\ loads[r] = "file_cb" => r = "callback"

\* A load that tells that the session has gone.
Tells(loads, r, R) ==
    /\ r \in DOMAIN loads
    /\ loads[r] \in Own(R.unregister) \cup {"file_ctx"}

\* What is stored is of the session or of the file, and what is cleared has been
\* stored; an entry of the table that is taken is returned, and only nss_pptp.c
\* clears those of all sessions.  Handlers load
\* what is stored, and whether the context has gone can be told from what they
\* load; but for late answers in AnswersOutlive, either the handler is cleared or
\* a load that the handler compares with NULL tells it.
Sound(f) ==
    LET R == Registration[f]
        M == Messages[f] IN
    /\ R.register \subseteq SessionFields \cup FileFields \cup {"slot"} /\ R.register # {}
    /\ R.unregister \subseteq R.register \cup {"slots"} /\ R.unregister # {}
    /\ "slots" \in R.unregister => f = "pptp" /\ "slot" \in R.register
    /\ "slot" \in R.register => R.unregister \cap TableFields # {}
    /\ f = "dtls" => "file_cb" \in R.register /\ "file_ctx" \notin R.register
    /\ "file_ctx" \in R.register => "file_ctx" \in R.unregister
    /\ "cb" \in R.register => Loadable(Packet, R) /\ "ndev" \in R.unregister
    /\ "ext_cb" \in R.register => Loadable(ExtPacket, R) /\ "ndev" \in R.unregister
    /\ "plain" \in M.handles /\ M.checked \subseteq {"guard", "context"}
    /\ f # "ipsec_data" =>
        /\ Loadable(M.notify, R) /\ Loadable(M.answer, R)
        /\ Tells(M.notify, "context", R)
        /\ \/ f \in AnswersOutlive
           \/ "core" \in R.unregister
           \/ Tells(M.answer, "context", R)
           \/ /\ Tells(M.answer, "guard", R) /\ M.answer["guard"] # "file_ctx"
              /\ "guard" \in M.checked

LEMMA AllSound == \A f \in DOMAIN Registration : Sound(f)
<1> USE DEF Sound, Loadable, Tells, Own, Packet, ExtPacket, Roles, SessionFields,
            FileFields, TableFields, AnswersOutlive, Registration, Messages
<1>1. Sound("profiler")
    BY DEF Profiler, ProfilerMessages
<1>2. Sound("tun6rd")
    BY DEF Tun6rd, Tun6rdMessages
<1>3. Sound("tunipip6")
    BY DEF Tunipip6, Tunipip6Messages
<1>4. Sound("sjack")
    BY DEF Sjack, SjackMessages
<1>5. Sound("lag")
    BY DEF Lag, LagMessages
<1>6. Sound("oam")
    BY DEF Oam, OamMessages, Nothing
<1>7. Sound("ipsec_notify")
    BY DEF IpsecNotify, IpsecMessages, Nothing
<1>8. Sound("ipsec_data")
    BY DEF IpsecData, IpsecMessages, Nothing
<1>9. Sound("dtls")
    BY SMTT(40) DEF Dtls, DtlsMessages, Nothing
<1>10. Sound("crypto")
    BY DEF Crypto, CryptoMessages, Nothing
<1>11. Sound("l2tpv2")
    BY DEF L2tpv2, L2tpv2Messages
<1>12. Sound("gre_redir")
    BY SMTT(40) DEF GreRedir, GreRedirMessages
<1>13. Sound("pptp")
    BY DEF Pptp, PptpMessages, Nothing
<1>14. Sound("map_t")
    BY SMTT(40) DEF MapT, MapTMessages, Nothing
<1>15. Sound("wifi")
    BY DEF Wifi, WifiMessages
<1>16. Sound("wifi_vdev")
    BY SMTT(40) DEF WifiVdev, WifiVdevMessages
<1>17. DOMAIN Registration =
           {"profiler", "tun6rd", "tunipip6", "sjack", "lag", "oam",
            "ipsec_notify", "ipsec_data", "dtls", "crypto", "l2tpv2",
            "gre_redir", "pptp", "map_t", "wifi", "wifi_vdev"}
    BY DEF Registration
<1> HIDE DEF Sound, Registration
<1> QED  BY <1>1, <1>2, <1>3, <1>4, <1>5, <1>6, <1>7, <1>8, <1>9, <1>10, <1>11,
            <1>12, <1>13, <1>14, <1>15, <1>16, <1>17

(***************************************************************************)
(* The inductive invariant.                                                *)
(***************************************************************************)

\* What a call has still to do is of what it does at all, in nss_dtls.c first a
\* pass through the table; and only the sessions in use have calls.
CallInv ==
    \A s \in Sessions :
        /\ phase[s] = "registering" =>
               /\ todo[s] \subseteq StepsOf(Reg.register, s)
               /\ file = "dtls" /\ << "slot", s >> \in todo[s] =>
                      todo[s] = StepsOf(Reg.register, s)
        /\ phase[s] = "unregistering" => todo[s] \subseteq StepsOf(Reg.unregister, s)
        /\ phase[s] # "new" => s \in users

\* A variable of a session's own is set, once stored, while the session is
\* registered, and NULL before, and when the session has cleared it; a handler
\* that no function stores is always there.
OwnAt(s) ==
    /\ \A f \in Own(Reg.register) :
        /\ phase[s] = "in" => mem[<< f, s >>] = s
        /\ phase[s] = "registering" /\ << f, s >> \notin todo[s] => mem[<< f, s >>] = s
    /\ \A f \in Own(Reg.unregister) :
        /\ phase[s] \in {"new", "out"} => mem[<< f, s >>] = Nobody
        /\ phase[s] = "registering" /\ << f, s >> \in todo[s]
               => mem[<< f, s >>] = Nobody
        /\ phase[s] = "unregistering" /\ << f, s >> \notin todo[s]
               => mem[<< f, s >>] = Nobody
    /\ "core" \notin Reg.register => mem[<< "core", s >>] = s

OwnInv == \A s \in Sessions : OwnAt(s)

\* A session has an entry of the table when the pass through it is done, if the
\* table was not full, and none again when that of its unregistering is done;
\* never two.
Kept(s) ==
    /\ "slot" \in Reg.register
    /\ \/ phase[s] = "in"
       \/ phase[s] = "registering" /\ << "slot", s >> \notin todo[s]

Without(s) ==
    \/ phase[s] \in {"new", "out"}
    \/ phase[s] = "registering" /\ << "slot", s >> \in todo[s]
    \/ phase[s] = "unregistering" /\ \A f \in TableFields : << f, s >> \notin todo[s]

TableAt(s) ==
    /\ Kept(s) /\ file # "pptp" => HasEntry(s) \/ s \in left_out
    /\ file = "dtls" =>
        /\ s \notin left_out
        /\ phase[s] = "unregistering" /\ << "slot", s >> \in todo[s] => HasEntry(s)
    /\ file # "dtls" =>
        /\ Without(s) => ~ HasEntry(s)
        /\ \A i, j \in DOMAIN table : table[i] = s /\ table[j] = s => i = j

TableInv == \A s \in Sessions : TableAt(s)

\* What the file has one of is set, once stored, while a session is registered
\* that nobody has disturbed, and nobody is about to clear it: the callback is of
\* a session that has stored it and is registered, too, and of this session if no
\* other session has replaced it.
Stored(f, s) ==
    phase[s] = "in" \/ (phase[s] = "registering" /\ Cell(f, s) \notin todo[s])

ShareAt(s) ==
    /\ phase[s] \in {"registering", "in"} => \A t \in Others(s) :
        /\ ~ StillToClear(t)
        /\ s \notin replaced => ~ StillToReplace(t)
    /\ "file_cb" \in Reg.register /\ Stored("file_cb", s) => \E w \in Sessions :
        /\ mem[<< "file_cb", Nobody >>] = w
        /\ Stored("file_cb", w)
        /\ s \notin replaced => w = s
    /\ "file_ctx" \in Reg.register /\ Stored("file_ctx", s) =>
        mem[<< "file_ctx", Nobody >>] = s

ShareInv == \A s \in users \ disturbed : ShareAt(s)

\* The context of the file, if it has one, is not that of a session that is
\* gone.
ContextInv ==
    /\ "file_ctx" \notin Reg.register => mem[<< "file_ctx", Nobody >>] = Nobody
    /\ \A s \in Sessions :
        mem[<< "file_ctx", Nobody >>] = s =>
            \/ phase[s] \in {"registering", "in"}
            \/ phase[s] = "unregistering" /\ << "file_ctx", Nobody >> \in todo[s]

\* What a run of the poll has loaded is its session's as long as that has been
\* registered and undisturbed all the while, the file's callback that of a
\* session that has stored it; and not its session's as long as that has been
\* gone.
Runs == [ stage : {"idle", "reading", "done"},
          event : {"notify", "answer", "packet", "ext_packet"},
          session : Sessions \cup {Nobody},
          left : SUBSET Roles,
          got : [ Roles -> Sessions \cup {Nobody} ],
          steady : BOOLEAN, own : BOOLEAN, gone : BOOLEAN,
          call : {"none", "stack", "NULL"} \cup Sessions,
          by : Sessions \cup {Nobody} ]

\* Whose callback may be called for session s.
MayAnswer(w, s) == w = s \/ (w \in Sessions /\ SharesCallback /\ Stored("file_cb", w))

ReadingInv ==
    LET s == poll.session
        loads == Loads(poll.event) IN
    /\ poll.event \in Events
    /\ poll.left \subseteq DOMAIN loads
    /\ poll.gone /\ poll.event = "answer" => "core" \notin Reg.unregister
    /\ \A r \in Roles \ DOMAIN loads : poll.got[r] = s
    /\ \A r \in DOMAIN loads \ poll.left :
        /\ poll.steady => IF loads[r] = "file_cb" THEN MayAnswer(poll.got[r], s)
                                                  ELSE poll.got[r] = s
        /\ poll.own => poll.got[r] = s
        /\ poll.gone /\ loads[r] \in Own(Reg.unregister) => poll.got[r] = Nobody
        /\ poll.gone /\ loads[r] = "file_ctx" => poll.got[r] # s

DoneInv ==
    /\ poll.steady => /\ poll.call = poll.session
                      /\ MayAnswer(poll.by, poll.session)
    /\ poll.own => poll.by = poll.session
    /\ SilentWhenGone

PollInv ==
    /\ poll \in Runs
    /\ poll.stage # "idle" =>
        /\ poll.session \in Sessions
        /\ poll.steady => Settled(poll.session)
        /\ poll.own => poll.steady /\ poll.session \notin replaced
        /\ poll.gone => phase[poll.session] = "out"
    /\ poll.stage = "reading" => ReadingInv
    /\ poll.stage = "done" => DoneInv

IInv ==
    /\ TypeOK /\ CallInv /\ OwnInv /\ TableInv /\ ShareInv /\ ContextInv /\ PollInv

\* What the file's functions store, and their handlers load.
LEMMA FileSound == ASSUME TypeOK PROVE Sound(file)
    BY AllSound, UsedAssumption DEF TypeOK

\* What is loaded for an event is stored by the file's functions.
LEMMA LoadFacts ==
    ASSUME TypeOK, NEW event \in Events
    PROVE  /\ event \in {"notify", "answer", "packet", "ext_packet"}
           /\ Loadable(Loads(event), Reg)
           /\ Checked(event) \subseteq Roles
           /\ event # "answer" => Tells(Loads(event), "context", Reg)
           /\ event = "packet" => Loads(event)["context"] = "ndev"
<1>0. Sound(file)
    BY FileSound
<1>1. CASE event = "notify"
  <2>1. file # "ipsec_data"
      BY <1>1 DEF Events
  <2> QED  BY <1>0, <1>1, <2>1 DEF Sound, Reg, Msg, Loads, Checked, Roles
<1>2. CASE event = "answer"
  <2>1. file # "ipsec_data"
      BY <1>2 DEF Events
  <2> QED  BY <1>0, <1>2, <2>1 DEF Sound, Reg, Msg, Loads, Checked, Roles
<1>3. CASE event = "packet"
  <2>1. "cb" \in Reg.register
      BY <1>3 DEF Events
  <2>2. Tells(Packet, "context", Reg)
      BY <1>0, <2>1 DEF Sound, Reg, Packet, Tells, Own, SessionFields
  <2>3. Loads(event)["context"] = "ndev"
      BY <1>3 DEF Loads, Packet
  <2> QED  BY <1>0, <1>3, <2>1, <2>2, <2>3 DEF Sound, Reg, Loads, Checked, Roles
<1>4. CASE event = "ext_packet"
  <2>1. "ext_cb" \in Reg.register
      BY <1>4 DEF Events
  <2>2. Tells(ExtPacket, "context", Reg)
      BY <1>0, <2>1 DEF Sound, Reg, ExtPacket, Tells, Own, SessionFields
  <2> QED  BY <1>0, <1>4, <2>1, <2>2 DEF Sound, Reg, Loads, Checked, Roles
<1> QED  BY <1>1, <1>2, <1>3, <1>4 DEF Events

\* A step of a call concerns a variable that is the session's own, or the
\* file's, or is a pass through the table.
LEMMA StepCases ==
    ASSUME NEW s \in Sessions, NEW F,
           F \subseteq SessionFields \cup FileFields \cup TableFields,
           NEW c \in StepsOf(F, s)
    PROVE  \/ \E f \in Own(F) : c = << f, s >>
           \/ \E f \in F \cap FileFields : c = << f, Nobody >>
           \/ \E f \in F \cap TableFields : c = << f, s >>
  BY DEF StepsOf, Cell, Own, SessionFields, FileFields, TableFields

\* A call has something to do.
LEMMA StepsThere ==
    ASSUME TypeOK, NEW s \in Sessions,
           NEW F \in {Reg.register, Reg.unregister}
    PROVE  /\ F \subseteq SessionFields \cup FileFields \cup TableFields
           /\ StepsOf(F, s) \subseteq Steps
           /\ StepsOf(F, s) # {}
<1>0. Sound(file)
    BY FileSound
<1>1. F \subseteq SessionFields \cup FileFields \cup TableFields /\ F # {}
    BY <1>0 DEF Sound, Reg, TableFields
<1>2. StepsOf(F, s) \subseteq Steps
  <2> SUFFICES ASSUME NEW c \in StepsOf(F, s) PROVE c \in Steps
      OBVIOUS
  <2> QED  BY <1>1, StepCases DEF Steps, Cells, Own
<1>3. StepsOf(F, s) # {}
    BY <1>1 DEF StepsOf
<1> QED  BY <1>1, <1>2, <1>3

LEMMA InitInv == Init => IInv
<1> SUFFICES ASSUME Init PROVE IInv
    OBVIOUS
<1>1. poll \in Runs /\ poll.stage = "idle"
    BY DEF Init, Idle, Runs, Roles
<1>2. TypeOK
  <2>1. mem \in [Cells -> Sessions \cup {Nobody}]
    <3> SUFFICES ASSUME NEW c \in Cells PROVE c[2] \in Sessions \cup {Nobody}
        BY DEF Init
    <3> QED  BY DEF Cells
  <2>2. users \subseteq Sessions
      BY DEF Init
  <2>3. /\ poll.stage \in {"idle", "reading", "done"}
        /\ poll.left \subseteq Roles
        /\ poll.got \in [ Roles -> Sessions \union {Nobody} ]
        /\ poll.call \in {"none", "stack", "NULL"} \union Sessions
        /\ poll.by \in Sessions \union {Nobody}
      BY <1>1 DEF Runs
  <2> QED  BY <2>1, <2>2, <2>3 DEF Init, TypeOK
<1>3. CallInv
    BY DEF Init, CallInv
<1>4. OwnInv
  <2> SUFFICES ASSUME NEW s \in Sessions
               PROVE  OwnAt(s)
      BY DEF OwnInv
  <2>1. Own(Reg.unregister) \subseteq Own(Reg.register) /\ "core" \in SessionFields
      BY <1>2, FileSound DEF Sound, Own, Reg, SessionFields
  <2>2. \A f \in SessionFields : << f, s >> \in Cells
      BY DEF Cells
  <2>3. ASSUME NEW f \in Own(Reg.unregister) PROVE mem[<< f, s >>] = Nobody
    <3>1. f \in SessionFields /\ (f = "core" => "core" \in Reg.register)
        BY <2>1, <2>3 DEF Own
    <3> QED  BY <2>2, <3>1 DEF Init
  <2>4. "core" \notin Reg.register => mem[<< "core", s >>] = s
      BY <2>1, <2>2 DEF Init
  <2>5. phase[s] = "new"
      BY DEF Init
  <2> QED  BY <2>3, <2>4, <2>5 DEF OwnAt
<1>5. TableInv
  <2> SUFFICES ASSUME NEW s \in Sessions PROVE TableAt(s)
      BY DEF TableInv
  <2>1. phase[s] = "new" /\ left_out = {}
      BY DEF Init
  <2>2. DOMAIN table = Entries /\ \A i \in DOMAIN table : table[i] # s
      BY NobodyAssumption DEF Init
  <2> QED  BY <2>1, <2>2 DEF TableAt, Kept, Without, HasEntry
<1>6. ShareInv
    BY DEF Init, ShareInv, ShareAt, Stored
<1>7. ContextInv
  <2>1. << "file_ctx", Nobody >> \in Cells
      BY DEF Cells, FileFields
  <2> QED  BY <2>1, NobodyAssumption DEF Init, ContextInv
<1>8. PollInv
    BY <1>1 DEF PollInv
<1> QED  BY <1>2, <1>3, <1>4, <1>5, <1>6, <1>7, <1>8 DEF IInv

(***************************************************************************)
(* The clients' steps.                                                     *)
(***************************************************************************)

\* A run of the poll goes on with what it may rely on.
LEMMA PollKept ==
    ASSUME IInv, NEW S \in SUBSET Sessions, NEW R \in SUBSET Sessions, file' = file,
           Touch(S, R) \/ (S = {} /\ R = {} /\ UNCHANGED poll),
           \A t \in Sessions \ S :
               /\ Settled(t) => Settled(t)'
               /\ phase[t] = "out" => phase'[t] = "out"
               /\ t \notin replaced /\ t \notin R => t \notin replaced',
           \A w \in Sessions : SharesCallback /\ Stored("file_cb", w) =>
               Stored("file_cb", w)' \/ (w \in S /\ \A t \in Sessions : Settled(t) => t \in S)
    PROVE  PollInv'
<1>1. poll \in Runs
    BY DEF IInv, PollInv
<1>2. /\ poll'.stage = poll.stage /\ poll'.event = poll.event
      /\ poll'.session = poll.session /\ poll'.left = poll.left
      /\ poll'.got = poll.got /\ poll'.call = poll.call /\ poll'.by = poll.by
      /\ poll'.steady => poll.steady /\ poll.session \notin S
      /\ poll'.own => poll.own /\ poll.session \notin S /\ poll.session \notin R
      /\ poll'.gone => poll.gone /\ poll.session \notin S
      /\ poll.steady /\ poll.session \notin S => poll'.steady
    BY <1>1 DEF Touch, Runs
<1>3. poll' \in Runs
  <2>1. CASE Touch(S, R)
    <3> DEFINE a == poll.steady /\ poll.session \notin S
               b == poll.own /\ poll.session \notin S \union R
               c == poll.gone /\ poll.session \notin S
    <3>1. a \in BOOLEAN /\ b \in BOOLEAN /\ c \in BOOLEAN
        OBVIOUS
    <3>2. poll' = [ poll EXCEPT !.steady = a, !.own = b, !.gone = c ]
        BY <2>1 DEF Touch
    <3> HIDE DEF a, b, c
    <3> QED  BY <1>1, <3>1, <3>2 DEF Runs
  <2> QED  BY <1>1, <2>1
<1>4. /\ Reg' = Reg /\ Events' = Events /\ SharesCallback' = SharesCallback
      /\ Loads(poll.event)' = Loads(poll.event)
    BY <1>2 DEF Reg, Events, Loads, Msg, SharesCallback
<1>5. poll.stage # "idle" =>
          /\ poll.session \in Sessions
          /\ poll'.steady => Settled(poll.session)'
          /\ poll'.own => poll'.steady /\ poll.session \notin replaced'
          /\ poll'.gone => phase'[poll.session] = "out"
    BY <1>2 DEF IInv, PollInv
<1>6. ASSUME poll.stage # "idle", poll'.steady, NEW w, MayAnswer(w, poll.session)
      PROVE  \/ w = poll'.session
             \/ w \in Sessions /\ SharesCallback' /\ Stored("file_cb", w)'
  <2>1. Settled(poll.session) /\ poll.session \in Sessions /\ poll.session \notin S
      BY <1>2, <1>6 DEF IInv, PollInv
  <2> QED  BY <1>2, <1>4, <1>6, <2>1 DEF MayAnswer
<1>7. poll.stage = "reading" => ReadingInv'
  <2> SUFFICES ASSUME poll.stage = "reading" PROVE ReadingInv'
      OBVIOUS
  <2>1. ReadingInv
      BY DEF IInv, PollInv
  <2> DEFINE loads == Loads(poll.event)
  <2>2. \A r \in DOMAIN loads \ poll.left :
        /\ poll'.steady => IF loads[r] = "file_cb" THEN MayAnswer(poll.got[r], poll.session)'
                                                  ELSE poll.got[r] = poll.session
        /\ poll'.own => poll.got[r] = poll.session
        /\ poll'.gone /\ loads[r] \in Own(Reg.unregister) => poll.got[r] = Nobody
        /\ poll'.gone /\ loads[r] = "file_ctx" => poll.got[r] # poll.session
      BY <1>2, <1>6, <2>1 DEF ReadingInv, MayAnswer
  <2>3. /\ poll'.event \in Events'
        /\ poll'.left \subseteq DOMAIN loads
        /\ poll'.gone /\ poll'.event = "answer" => "core" \notin Reg.unregister
        /\ \A r \in Roles \ DOMAIN loads : poll'.got[r] = poll'.session
      BY <1>2, <1>4, <2>1 DEF ReadingInv
  <2>4. \A r \in DOMAIN loads \ poll'.left :
        /\ poll'.steady => IF loads[r] = "file_cb" THEN MayAnswer(poll.got[r], poll.session)'
                                                  ELSE poll'.got[r] = poll'.session
        /\ poll'.own => poll'.got[r] = poll'.session
        /\ poll'.gone /\ loads[r] \in Own(Reg.unregister) => poll'.got[r] = Nobody
        /\ poll'.gone /\ loads[r] = "file_ctx" => poll'.got[r] # poll'.session
      BY <1>2, <2>2
  <2>5. loads' = loads /\ DOMAIN loads \subseteq Roles
      BY <1>2, <1>4, <2>1, LoadFacts DEF IInv, ReadingInv, Loadable
  <2> HIDE DEF loads
  <2> QED  BY <1>4, <2>3, <2>4, <2>5 DEF ReadingInv, loads
<1>8. poll.stage = "done" => DoneInv'
  <2> SUFFICES ASSUME poll.stage = "done" PROVE DoneInv'
      OBVIOUS
  <2>1. DoneInv
      BY DEF IInv, PollInv
  <2>2. poll'.steady => MayAnswer(poll.by, poll.session)'
      BY <1>2, <1>6, <2>1 DEF DoneInv, MayAnswer
  <2>3. SilentWhenGone'
      BY <1>2, <2>1 DEF DoneInv, SilentWhenGone
  <2> QED  BY <1>2, <2>1, <2>2, <2>3 DEF DoneInv
<1> QED  BY <1>2, <1>3, <1>5, <1>7, <1>8 DEF PollInv

\* Of TypeOK, what is said of the poll.
LEMMA RunTypes ==
    ASSUME poll \in Runs
    PROVE  /\ poll.stage \in {"idle", "reading", "done"}
           /\ poll.left \subseteq Roles
           /\ poll.got \in [ Roles -> Sessions \union {Nobody} ]
           /\ poll.call \in {"none", "stack", "NULL"} \union Sessions
           /\ poll.by \in Sessions \union {Nobody}
    BY DEF Runs

\* All that is to be done is there when a call begins.
LEMMA CallBegins ==
    ASSUME TypeOK, NEW s \in Sessions, NEW F \in {Reg.register, Reg.unregister}
    PROVE  /\ \A f \in Own(F) : << f, s >> \in StepsOf(F, s)
           /\ \A f \in F \cap FileFields : << f, Nobody >> \in StepsOf(F, s)
           /\ \A f \in F \cap TableFields : << f, s >> \in StepsOf(F, s)
  BY DEF StepsOf, Cell, Own, SessionFields, FileFields, TableFields

\* A session that does nothing keeps what is its own.
LEMMA OwnKept ==
    ASSUME NEW t \in Sessions, OwnAt(t), file' = file,
           phase'[t] = phase[t], todo'[t] = todo[t],
           \A f \in SessionFields : mem'[<< f, t >>] = mem[<< f, t >>]
    PROVE  OwnAt(t)'
<1>1. Reg' = Reg
    BY DEF Reg
<1>2. "core" \in SessionFields /\ \A F : Own(F) \subseteq SessionFields
    BY DEF SessionFields, Own
<1> QED  BY <1>1, <1>2 DEF OwnAt

\* And its entry of the table, as long as it is not left out.
LEMMA TableKept ==
    ASSUME NEW t \in Sessions, TableAt(t), file' = file,
           phase'[t] = phase[t], todo'[t] = todo[t], DOMAIN table' = DOMAIN table,
           \A i \in DOMAIN table : table'[i] = t <=> table[i] = t,
           t \in left_out' <=> t \in left_out
    PROVE  TableAt(t)'
<1>1. Reg' = Reg
    BY DEF Reg
<1>2. Kept(t)' = Kept(t) /\ Without(t)' = Without(t) /\ HasEntry(t)' = HasEntry(t)
    BY <1>1 DEF Kept, Without, HasEntry
<1> QED  BY <1>2 DEF TableAt

\* A file without a table has nobody in it, one with a table takes an entry and
\* returns it.
LEMMA TableFacts ==
    ASSUME TypeOK, NEW s \in Sessions
    PROVE  /\ table \in [ Entries -> Sessions \cup {Nobody} ]
           /\ "slot" \notin Reg.register => ~ HasEntry(s)
           /\ "slot" \in Reg.register =>
                  /\ << "slot", s >> \in StepsOf(Reg.register, s)
                  /\ \E f \in TableFields : << f, s >> \in StepsOf(Reg.unregister, s)
<1>1. Sound(file)
    BY FileSound
<1>2. table \in [ Entries -> Sessions \cup {Nobody} ]
    BY DEF TypeOK
<1>3. "slot" \in TableFields
    BY DEF TableFields
<1>4. "slot" \in Reg.register =>
          \E f \in Reg.unregister \cap TableFields : TRUE
    BY <1>1 DEF Sound, Reg
<1> QED  BY <1>2, <1>3, <1>4, CallBegins DEF Entries, HasEntry

\* What a session relies on, of what the file has one of, it keeps when nothing
\* of that is stored and no session begins or ends a call.
LEMMA ShareKept ==
    ASSUME NEW t \in Sessions, ShareAt(t), file' = file, users' = users,
           \A f \in FileFields : mem'[<< f, Nobody >>] = mem[<< f, Nobody >>],
           phase'[t] \in {"registering", "in"} => phase[t] \in {"registering", "in"},
           t \notin replaced' => t \notin replaced,
           \A u \in Others(t) : /\ StillToClear(u)' => StillToClear(u)
                                /\ StillToReplace(u)' => StillToReplace(u),
           \A f \in FileFields \cap Reg.register : Stored(f, t)' => Stored(f, t),
           "file_cb" \in Reg.register =>
               \A w \in Sessions : Stored("file_cb", w) => Stored("file_cb", w)'
    PROVE  ShareAt(t)'
<1>1. Reg' = Reg /\ Others(t)' = Others(t)
    BY DEF Reg, Others
<1>2. /\ "file_cb" \in FileFields /\ "file_ctx" \in FileFields
    BY DEF FileFields
<1>3. phase'[t] \in {"registering", "in"} => \A u \in Others(t)' :
          /\ ~ StillToClear(u)'
          /\ t \notin replaced' => ~ StillToReplace(u)'
    BY <1>1 DEF ShareAt
<1>4. "file_cb" \in Reg.register /\ Stored("file_cb", t)' => \E w \in Sessions :
          /\ mem'[<< "file_cb", Nobody >>] = w
          /\ Stored("file_cb", w)'
          /\ t \notin replaced' => w = t
  <2> SUFFICES ASSUME "file_cb" \in Reg.register, Stored("file_cb", t)'
               PROVE  \E w \in Sessions :
                          /\ mem'[<< "file_cb", Nobody >>] = w
                          /\ Stored("file_cb", w)'
                          /\ t \notin replaced' => w = t
      OBVIOUS
  <2>1. PICK w \in Sessions : /\ mem[<< "file_cb", Nobody >>] = w
                              /\ Stored("file_cb", w)
                              /\ t \notin replaced => w = t
      BY <1>2 DEF ShareAt
  <2> QED  BY <1>2, <2>1
<1>5. "file_ctx" \in Reg.register /\ Stored("file_ctx", t)' =>
          mem'[<< "file_ctx", Nobody >>] = t
    BY <1>2 DEF ShareAt
<1> QED  BY <1>1, <1>3, <1>4, <1>5 DEF ShareAt

LEMMA RegisterInv ==
    ASSUME IInv, NEW s \in Sessions, Register(s)
    PROVE  IInv'
<1> DEFINE hurt == IF SharesContext THEN Active \ {s} ELSE {}
           late == IF \E t \in Others(s) : StillToClear(t) THEN {s} ELSE {}
           outdone == IF SharesCallback THEN Active \ {s} ELSE {}
           raced == IF \E t \in Others(s) : StillToReplace(t) THEN {s} ELSE {}
<1>1. /\ s \in users /\ phase[s] \in {"new", "out"}
      /\ phase' = [ phase EXCEPT ![s] = "registering" ]
      /\ todo' = [ todo EXCEPT ![s] = StepsOf(Reg.register, s) ]
      /\ disturbed' = disturbed \union hurt \union late
      /\ replaced' = replaced \union outdone \union raced
      /\ Touch({s} \union hurt, outdone)
      /\ UNCHANGED << file, users, mem, table, left_out >>
    BY DEF Register
<1> HIDE DEF late, raced
<1>2. /\ late \subseteq {s} /\ (s \notin late => \A t \in Others(s) : ~ StillToClear(t))
      /\ raced \subseteq {s} /\ (s \notin raced => \A t \in Others(s) : ~ StillToReplace(t))
    BY DEF late, raced
<1>3. /\ TypeOK /\ users \subseteq Sessions
      /\ hurt \subseteq Sessions /\ outdone \subseteq Sessions
    BY DEF IInv, TypeOK, Active
<1>4. phase \in [ Sessions -> {"new", "registering", "in", "unregistering", "out"} ]
      /\ todo \in [ Sessions -> SUBSET Steps ]
    BY <1>3 DEF TypeOK
<1>5. /\ phase'[s] = "registering" /\ todo'[s] = StepsOf(Reg.register, s)
      /\ \A t \in Sessions \ {s} : phase'[t] = phase[t] /\ todo'[t] = todo[t]
    BY <1>1, <1>4
<1>6. Reg' = Reg /\ SharesCallback' = SharesCallback /\ SharesContext' = SharesContext
    BY <1>1 DEF Reg, SharesCallback, SharesContext
<1>7. StepsOf(Reg.register, s) \subseteq Steps /\ StepsOf(Reg.register, s) # {}
    BY <1>3, StepsThere
<1>8. \A f \in FileFields, t \in Sessions : f \in Reg.register =>
          (Stored(f, t)' <=> Stored(f, t))
  <2> SUFFICES ASSUME NEW f \in FileFields, NEW t \in Sessions, f \in Reg.register
               PROVE  Stored(f, t)' <=> Stored(f, t)
      OBVIOUS
  <2>1. CASE t # s
      BY <1>5, <2>1 DEF Stored, Cell
  <2>2. CASE t = s
    <3>1. Cell(f, s) \in todo'[s]
        BY <1>3, <1>5, CallBegins DEF Cell
    <3> QED  BY <1>1, <1>5, <2>2, <3>1 DEF Stored, Cell
  <2> QED  BY <2>1, <2>2
<1>9. PollInv'
  <2>1. \A t \in Sessions \ ({s} \cup hurt) :
            /\ Settled(t) => Settled(t)'
            /\ phase[t] = "out" => phase'[t] = "out"
            /\ t \notin replaced /\ t \notin outdone => t \notin replaced'
      BY <1>1, <1>2, <1>5 DEF Settled
  <2>2. {s} \cup hurt \in SUBSET Sessions /\ outdone \in SUBSET Sessions
      BY <1>3
  <2>3. \A w \in Sessions : SharesCallback /\ Stored("file_cb", w) => Stored("file_cb", w)'
      BY <1>8 DEF SharesCallback, FileFields
  <2> HIDE DEF hurt, outdone
  <2> QED  BY <1>1, <2>1, <2>2, <2>3, PollKept
<1>10. TypeOK'
  <2>1. poll' \in Runs
      BY <1>9 DEF PollInv
  <2>2. phase' \in [ Sessions -> {"new", "registering", "in", "unregistering", "out"} ]
      BY <1>1, <1>4
  <2>3. todo' \in [ Sessions -> SUBSET Steps ]
      BY <1>1, <1>4, <1>7
  <2>4. \A t \in Sessions : todo'[t] # {} <=> phase'[t] \in {"registering", "unregistering"}
      BY <1>3, <1>5, <1>7 DEF TypeOK
  <2>5. disturbed' \subseteq Sessions /\ replaced' \subseteq Sessions
      BY <1>1, <1>2, <1>3 DEF TypeOK
  <2>6. /\ file' \in Used /\ mem' \in [ Cells -> Sessions \union {Nobody} ]
        /\ left_out' \subseteq Sessions /\ users' \subseteq Sessions
      BY <1>1, <1>3 DEF TypeOK
  <2>7. table' \in [ Entries' -> Sessions \union {Nobody} ]
      BY <1>1, <1>3, <1>6 DEF TypeOK, Entries
  <2> QED  BY <2>1, <2>2, <2>3, <2>4, <2>5, <2>6, <2>7, RunTypes DEF TypeOK, Runs
<1>11. CallInv'
  <2> SUFFICES ASSUME NEW t \in Sessions
               PROVE  /\ phase'[t] = "registering" =>
                             /\ todo'[t] \subseteq StepsOf(Reg.register, t)
                             /\ file = "dtls" /\ << "slot", t >> \in todo'[t] =>
                                    todo'[t] = StepsOf(Reg.register, t)
                      /\ phase'[t] = "unregistering" =>
                             todo'[t] \subseteq StepsOf(Reg.unregister, t)
                      /\ phase'[t] # "new" => t \in users
      BY <1>1, <1>6 DEF CallInv
  <2> QED  BY <1>1, <1>5 DEF IInv, CallInv
<1>12. OwnInv'
  <2>1. \A f \in Own(Reg.register) : << f, s >> \in todo'[s]
      BY <1>3, <1>5, CallBegins
  <2>2. OwnAt(s)'
      BY <1>1, <1>5, <1>6, <2>1 DEF IInv, OwnInv, OwnAt
  <2>3. ASSUME NEW t \in Sessions, t # s PROVE OwnAt(t)'
    <3>1. OwnAt(t)
        BY DEF IInv, OwnInv
    <3> QED  BY <1>1, <1>5, <2>3, <3>1, OwnKept
  <2> QED  BY <2>2, <2>3 DEF OwnInv
<1>13. TableInv'
  <2>1. TableAt(s)'
    <3>1. TableAt(s) /\ Without(s)
        BY <1>1 DEF IInv, TableInv, Without
    <3>2. ~ Kept(s)'
        BY <1>3, <1>5, <1>6, TableFacts DEF Kept
    <3>3. HasEntry(s)' = HasEntry(s)
        BY <1>1 DEF HasEntry
    <3> QED  BY <1>1, <1>5, <3>1, <3>2, <3>3 DEF TableAt
  <2>2. ASSUME NEW t \in Sessions, t # s PROVE TableAt(t)'
    <3>1. TableAt(t)
        BY DEF IInv, TableInv
    <3> QED  BY <1>1, <1>5, <2>2, <3>1, TableKept
  <2> QED  BY <2>1, <2>2 DEF TableInv
<1>14. ShareInv'
  <2> SUFFICES ASSUME NEW t \in users, t \notin disturbed'
               PROVE  ShareAt(t)'
      BY <1>1 DEF ShareInv
  <2>0. /\ t \in Sessions /\ \A u \in Others(t) : u \in Sessions
        /\ Others(t)' = Others(t)
      BY <1>1, <1>3 DEF Others
  <2>1. \A u \in Sessions \ {s} : /\ StillToClear(u)' <=> StillToClear(u)
                                  /\ StillToReplace(u)' <=> StillToReplace(u)
      BY <1>5, <1>6 DEF StillToClear, StillToReplace
  <2>2. CASE t = s
    <3>1. \A u \in Others(s) : /\ ~ StillToClear(u)'
                               /\ s \notin replaced' => ~ StillToReplace(u)'
        BY <1>1, <1>2, <1>3, <2>1, <2>2 DEF Others
    <3>2. /\ "file_cb" \in Reg.register => ~ Stored("file_cb", s)'
          /\ "file_ctx" \in Reg.register => ~ Stored("file_ctx", s)'
        BY <1>1, <1>8 DEF FileFields, Stored
    <3> QED  BY <1>6, <2>0, <2>2, <3>1, <3>2 DEF ShareAt
  <2>3. CASE t # s /\ phase[t] \notin {"registering", "in"}
      BY <1>5, <2>0, <2>3 DEF ShareAt, Stored
  <2>4. CASE t # s /\ phase[t] \in {"registering", "in"}
    <3>1. t \in Active
        BY <2>4 DEF Active
    <3>2. /\ t \notin disturbed /\ ~ SharesContext
          /\ SharesCallback => t \in replaced'
        BY <1>1, <2>4, <3>1
    <3>3. ShareAt(t)
        BY <3>2 DEF IInv, ShareInv
    <3>4. ~ StillToClear(s)' /\ (t \notin replaced' => ~ StillToReplace(s)')
        BY <1>5, <1>6, <3>2 DEF StillToClear, StillToReplace
    <3>5. \A u \in Others(t) : /\ StillToClear(u)' => StillToClear(u)
                               /\ t \notin replaced' =>
                                     (StillToReplace(u)' => StillToReplace(u))
        BY <2>0, <2>1, <3>4
    <3>6. t \notin replaced' => t \notin replaced
        BY <1>1
    <3>7. phase'[t] \in {"registering", "in"} => \A u \in Others(t)' :
              /\ ~ StillToClear(u)'
              /\ t \notin replaced' => ~ StillToReplace(u)'
        BY <2>0, <2>4, <3>3, <3>5, <3>6 DEF ShareAt
    <3>8. "file_cb" \in Reg.register /\ Stored("file_cb", t)' => \E w \in Sessions :
              /\ mem'[<< "file_cb", Nobody >>] = w
              /\ Stored("file_cb", w)'
              /\ t \notin replaced' => w = t
      <4> SUFFICES ASSUME "file_cb" \in Reg.register, Stored("file_cb", t)'
                   PROVE  \E w \in Sessions :
                              /\ mem'[<< "file_cb", Nobody >>] = w
                              /\ Stored("file_cb", w)'
                              /\ t \notin replaced' => w = t
          OBVIOUS
      <4>1. Stored("file_cb", t)
          BY <1>8, <2>0 DEF FileFields
      <4>2. PICK w \in Sessions : /\ mem[<< "file_cb", Nobody >>] = w
                                  /\ Stored("file_cb", w)
                                  /\ t \notin replaced => w = t
          BY <3>3, <4>1 DEF ShareAt
      <4>3. Stored("file_cb", w)'
          BY <1>8, <4>2 DEF FileFields
      <4> QED  BY <1>1, <3>6, <4>2, <4>3
    <3>9. "file_ctx" \notin Reg.register
        BY <3>2 DEF SharesContext
    <3> QED  BY <1>6, <2>0, <3>7, <3>8, <3>9 DEF ShareAt
  <2> QED  BY <2>2, <2>3, <2>4
<1>15. ContextInv'
    BY <1>1, <1>5, <1>6 DEF IInv, ContextInv
<1> QED  BY <1>9, <1>10, <1>11, <1>12, <1>13, <1>14, <1>15 DEF IInv

LEMMA UnregisterInv ==
    ASSUME IInv, NEW s \in Sessions, Unregister(s)
    PROVE  IInv'
<1> DEFINE hurt == IF SharesCallback \/ SharesContext THEN Active \ {s} ELSE {}
<1>1. /\ phase[s] = "in"
      /\ phase' = [ phase EXCEPT ![s] = "unregistering" ]
      /\ todo' = [ todo EXCEPT ![s] = StepsOf(Reg.unregister, s) ]
      /\ disturbed' = (disturbed \ {s}) \union hurt
      /\ replaced' = replaced \ {s}
      /\ left_out' = left_out \ {s}
      /\ Touch({s} \union hurt, {})
      /\ UNCHANGED << file, users, mem, table >>
    BY DEF Unregister
<1>2. s \in users
    BY <1>1 DEF IInv, CallInv
<1>3. TypeOK /\ users \subseteq Sessions /\ hurt \subseteq Sessions /\ Sound(file)
    BY FileSound DEF IInv, TypeOK, Active
<1>4. phase \in [ Sessions -> {"new", "registering", "in", "unregistering", "out"} ]
      /\ todo \in [ Sessions -> SUBSET Steps ]
    BY <1>3 DEF TypeOK
<1>5. /\ phase'[s] = "unregistering" /\ todo'[s] = StepsOf(Reg.unregister, s)
      /\ \A t \in Sessions \ {s} : phase'[t] = phase[t] /\ todo'[t] = todo[t]
    BY <1>1, <1>4
<1>6. Reg' = Reg /\ SharesCallback' = SharesCallback /\ SharesContext' = SharesContext
    BY <1>1 DEF Reg, SharesCallback, SharesContext
<1>7. StepsOf(Reg.unregister, s) \subseteq Steps /\ StepsOf(Reg.unregister, s) # {}
    BY <1>3, StepsThere
<1>8. PollInv'
  <2>1. \A t \in Sessions \ ({s} \cup hurt) :
            /\ Settled(t) => Settled(t)'
            /\ phase[t] = "out" => phase'[t] = "out"
            /\ t \notin replaced => t \notin replaced'
      BY <1>1, <1>5 DEF Settled
  <2>2. {s} \cup hurt \in SUBSET Sessions /\ {} \in SUBSET Sessions
      BY <1>3
  <2>3. ASSUME NEW w \in Sessions, SharesCallback, Stored("file_cb", w)
        PROVE  \/ Stored("file_cb", w)'
               \/ w \in {s} \cup hurt /\ \A t \in Sessions : Settled(t) => t \in {s} \cup hurt
    <3>1. CASE w # s
        BY <1>5, <2>3, <3>1 DEF Stored, Cell
    <3>2. CASE w = s
      <4>1. \A t \in Sessions : Settled(t) => t \in Active
          BY DEF Settled, Active, IInv, CallInv
      <4> QED  BY <2>3, <3>2, <4>1
    <3> QED  BY <3>1, <3>2
  <2> HIDE DEF hurt
  <2> QED  BY <1>1, <2>1, <2>2, <2>3, PollKept
<1>9. TypeOK'
  <2>1. poll' \in Runs
      BY <1>8 DEF PollInv
  <2>2. phase' \in [ Sessions -> {"new", "registering", "in", "unregistering", "out"} ]
      BY <1>1, <1>4
  <2>3. todo' \in [ Sessions -> SUBSET Steps ]
      BY <1>1, <1>4, <1>7
  <2>4. \A t \in Sessions : todo'[t] # {} <=> phase'[t] \in {"registering", "unregistering"}
      BY <1>3, <1>5, <1>7 DEF TypeOK
  <2>5. disturbed' \subseteq Sessions /\ replaced' \subseteq Sessions
        /\ left_out' \subseteq Sessions
      BY <1>1, <1>3 DEF TypeOK
  <2>6. /\ file' \in Used /\ mem' \in [ Cells -> Sessions \union {Nobody} ]
        /\ users' \subseteq Sessions
      BY <1>1, <1>3 DEF TypeOK
  <2>7. table' \in [ Entries' -> Sessions \union {Nobody} ]
      BY <1>1, <1>3, <1>6 DEF TypeOK, Entries
  <2> QED  BY <2>1, <2>2, <2>3, <2>4, <2>5, <2>6, <2>7, RunTypes DEF TypeOK, Runs
<1>10. CallInv'
  <2> SUFFICES ASSUME NEW t \in Sessions
               PROVE  /\ phase'[t] = "registering" =>
                             /\ todo'[t] \subseteq StepsOf(Reg.register, t)
                             /\ file = "dtls" /\ << "slot", t >> \in todo'[t] =>
                                    todo'[t] = StepsOf(Reg.register, t)
                      /\ phase'[t] = "unregistering" =>
                             todo'[t] \subseteq StepsOf(Reg.unregister, t)
                      /\ phase'[t] # "new" => t \in users
      BY <1>1, <1>6 DEF CallInv
  <2> QED  BY <1>1, <1>2, <1>5 DEF IInv, CallInv
<1>11. OwnInv'
  <2>1. \A f \in Own(Reg.unregister) : << f, s >> \in todo'[s]
      BY <1>3, <1>5, CallBegins
  <2>2. OwnAt(s)'
      BY <1>1, <1>5, <1>6, <2>1 DEF IInv, OwnInv, OwnAt
  <2>3. ASSUME NEW t \in Sessions, t # s PROVE OwnAt(t)'
    <3>1. OwnAt(t)
        BY DEF IInv, OwnInv
    <3> QED  BY <1>1, <1>5, <2>3, <3>1, OwnKept
  <2> QED  BY <2>2, <2>3 DEF OwnInv
<1>12. TableInv'
  <2>1. TableAt(s)'
    <3>1. TableAt(s)
        BY DEF IInv, TableInv
    <3>2. ~ Kept(s)'
        BY <1>5 DEF Kept
    <3>3. HasEntry(s)' = HasEntry(s)
        BY <1>1 DEF HasEntry
    <3>4. file = "dtls" /\ << "slot", s >> \in todo'[s] => HasEntry(s)
      <4>1. << "slot", s >> \in todo'[s] => "slot" \in Reg.unregister
          BY <1>5 DEF StepsOf, Cell, FileFields
      <4>2. "slot" \in Reg.unregister => Kept(s)
          BY <1>1, <1>3 DEF Sound, Reg, Kept
      <4> QED  BY <3>1, <4>1, <4>2 DEF TableAt
    <3>5. Without(s)' => ~ HasEntry(s)
        BY <1>3, <1>5, TableFacts DEF Without
    <3> QED  BY <1>1, <1>5, <3>1, <3>2, <3>3, <3>4, <3>5 DEF TableAt
  <2>2. ASSUME NEW t \in Sessions, t # s PROVE TableAt(t)'
    <3>1. TableAt(t)
        BY DEF IInv, TableInv
    <3>2. t \in left_out' <=> t \in left_out
        BY <1>1, <2>2
    <3> QED  BY <1>1, <1>5, <2>2, <3>1, <3>2, TableKept
  <2> QED  BY <2>1, <2>2 DEF TableInv
<1>13. ShareInv'
  <2> SUFFICES ASSUME NEW t \in users, t \notin disturbed'
               PROVE  ShareAt(t)'
      BY <1>1 DEF ShareInv
  <2>0. /\ t \in Sessions /\ \A u \in Others(t) : u \in Sessions
        /\ Others(t)' = Others(t)
      BY <1>1, <1>3 DEF Others
  <2>1. CASE t = s \/ phase[t] \notin {"registering", "in"}
      BY <1>5, <2>0, <2>1 DEF ShareAt, Stored
  <2>2. CASE t # s /\ phase[t] \in {"registering", "in"}
    <3>1. t \in Active
        BY <2>2 DEF Active
    <3>2. t \notin disturbed /\ ~ SharesContext /\ ~ SharesCallback
        BY <1>1, <2>2, <3>1
    <3>3. \A u \in Sessions : ~ StillToClear(u)' /\ ~ StillToReplace(u)'
        BY <1>6, <3>2 DEF StillToClear, StillToReplace
    <3>4. "file_cb" \notin Reg.register /\ "file_ctx" \notin Reg.register
        BY <3>2 DEF SharesContext, SharesCallback
    <3> QED  BY <1>6, <2>0, <3>3, <3>4 DEF ShareAt
  <2> QED  BY <2>1, <2>2
<1>14. ContextInv'
  <2>1. /\ "file_ctx" \in Reg.unregister => << "file_ctx", Nobody >> \in todo'[s]
        /\ "file_ctx" \in Reg.register => "file_ctx" \in Reg.unregister
      BY <1>3, <1>5, CallBegins DEF FileFields, Sound, Reg
  <2>2. mem[<< "file_ctx", Nobody >>] = s => << "file_ctx", Nobody >> \in todo'[s]
      BY <2>1, NobodyAssumption DEF IInv, ContextInv
  <2> QED  BY <1>1, <1>5, <1>6, <2>2 DEF IInv, ContextInv
<1> QED  BY <1>8, <1>9, <1>10, <1>11, <1>12, <1>13, <1>14 DEF IInv

\* A poll that no call touches goes on.
LEMMA PollUntouched ==
    ASSUME IInv, file' = file, UNCHANGED poll,
           \A t \in Sessions :
               /\ Settled(t) => Settled(t)'
               /\ phase[t] = "out" => phase'[t] = "out"
               /\ t \notin replaced => t \notin replaced'
               /\ SharesCallback /\ Stored("file_cb", t) => Stored("file_cb", t)'
    PROVE  PollInv'
<1>1. {} \in SUBSET Sessions
    OBVIOUS
<1> QED  BY <1>1, PollKept

LEMMA RefusedInv ==
    ASSUME IInv, NEW s \in Sessions, RegisterRefused(s)
    PROVE  IInv'
<1>1. /\ \/ /\ file = "dtls"
            /\ \E i \in DOMAIN table : FirstOf(Nobody, i) /\ table' = [ table EXCEPT ![i] = s ]
         \/ UNCHANGED table
      /\ UNCHANGED << file, users, mem, phase, todo, disturbed, replaced, left_out, poll >>
    BY DEF RegisterRefused
<1>2. TypeOK
    BY DEF IInv
<1>3. Reg' = Reg /\ SharesCallback' = SharesCallback /\ SharesContext' = SharesContext
      /\ Entries' = Entries
    BY <1>1 DEF Reg, SharesCallback, SharesContext, Entries
<1>4. table' \in [ Entries -> Sessions \cup {Nobody} ]
    BY <1>1, <1>2 DEF TypeOK
<1>5. TypeOK'
    BY <1>1, <1>2, <1>3, <1>4 DEF TypeOK
<1>6. CallInv'
    BY <1>1, <1>3 DEF IInv, CallInv
<1>7. OwnInv'
  <2> SUFFICES ASSUME NEW t \in Sessions PROVE OwnAt(t)'
      BY DEF OwnInv
  <2> QED  BY <1>1, OwnKept DEF IInv, OwnInv
<1>8. TableInv'
  <2> SUFFICES ASSUME NEW t \in Sessions PROVE TableAt(t)'
      BY DEF TableInv
  <2>1. TableAt(t)
      BY DEF IInv, TableInv
  <2>2. CASE UNCHANGED table
      BY <1>1, <2>1, <2>2, TableKept
  <2>3. CASE file = "dtls" /\ \E i \in DOMAIN table :
                FirstOf(Nobody, i) /\ table' = [ table EXCEPT ![i] = s ]
    <3>1. PICK i \in DOMAIN table : /\ table[i] = Nobody
                                    /\ table' = [ table EXCEPT ![i] = s ]
        BY <2>3 DEF FirstOf
    <3>2. HasEntry(t) => HasEntry(t)'
        BY <1>2, <3>1, NobodyAssumption DEF HasEntry, TypeOK
    <3>3. Kept(t)' = Kept(t)
        BY <1>1, <1>3 DEF Kept
    <3> QED  BY <1>1, <2>1, <2>3, <3>2, <3>3 DEF TableAt
  <2> QED  BY <1>1, <2>2, <2>3
<1>9. ShareInv'
  <2> SUFFICES ASSUME NEW t \in users \ disturbed PROVE ShareAt(t)'
      BY <1>1 DEF ShareInv
  <2>1. t \in Sessions /\ ShareAt(t)
      BY <1>2 DEF IInv, ShareInv, TypeOK
  <2> QED  BY <1>1, <1>3, <2>1, ShareKept DEF StillToClear, StillToReplace, Stored
<1>10. ContextInv'
    BY <1>1, <1>3 DEF IInv, ContextInv
<1>11. PollInv'
    BY <1>1, PollUntouched DEF Settled, Stored
<1> QED  BY <1>5, <1>6, <1>7, <1>8, <1>9, <1>10, <1>11 DEF IInv

\* A pass through the table is a step of the call, and no variable is stored.
\* Without an entry nss_dtls_register_if() ends, which has stored nothing then;
\* nss_dtls_unregister_if() always finds one.
LEMMA PassCases ==
    ASSUME IInv, NEW s \in Sessions, TablePass(s)
    PROVE  /\ UNCHANGED << file, users, mem, poll >>
           /\ disturbed' \subseteq disturbed /\ disturbed \subseteq disturbed' \cup {s}
           /\ replaced' \subseteq replaced /\ replaced \subseteq replaced' \cup {s}
           /\ \/ /\ \E f \in TableFields : << f, s >> \in todo[s] /\ Done(s, << f, s >>)
                 /\ phase[s] \in {"registering", "unregistering"}
                 /\ UNCHANGED << disturbed, replaced >>
              \/ /\ file = "dtls" /\ phase[s] = "registering"
                 /\ << "slot", s >> \in todo[s]
                 /\ todo' = [ todo EXCEPT ![s] = {} ]
                 /\ phase' = [ phase EXCEPT ![s] = "out" ]
<1>1. "slot" \in TableFields /\ "slots" \in TableFields
    BY DEF TableFields
<1>2. CASE TakeEntry(s)
    BY <1>1, <1>2 DEF TakeEntry, InTable
<1>3. CASE NoFreeEntry(s)
    BY <1>1, <1>3 DEF NoFreeEntry, InTable
<1>4. CASE ReturnEntry(s)
    BY <1>1, <1>4 DEF ReturnEntry, InTable
<1>5. CASE NoEntryFound(s)
  <2>1. file # "dtls"
      BY <1>5 DEF NoEntryFound, InTable, IInv, TableInv, TableAt
  <2> QED  BY <1>1, <1>5, <2>1 DEF NoEntryFound, InTable
<1>6. CASE ClearTable(s)
    BY <1>1, <1>6 DEF ClearTable, InTable
<1> QED  BY <1>2, <1>3, <1>4, <1>5, <1>6 DEF TablePass

\* No other session's call goes on.
LEMMA PassCalls ==
    ASSUME IInv, NEW s \in Sessions, TablePass(s)
    PROVE  /\ \A t \in Sessions \ {s} : phase'[t] = phase[t] /\ todo'[t] = todo[t]
           /\ todo' \in [ Sessions -> SUBSET Steps ]
           /\ phase' \in [ Sessions -> {"new", "registering", "in", "unregistering", "out"} ]
<1>1. /\ phase \in [ Sessions -> {"new", "registering", "in", "unregistering", "out"} ]
      /\ todo \in [ Sessions -> SUBSET Steps ]
    BY DEF IInv, TypeOK
<1>2. CASE \E f \in TableFields : << f, s >> \in todo[s] /\ Done(s, << f, s >>)
  <2>1. PICK f \in TableFields : Done(s, << f, s >>)
      BY <1>2
  <2> QED  BY <1>1, <2>1 DEF Done
<1>3. CASE /\ todo' = [ todo EXCEPT ![s] = {} ]
           /\ phase' = [ phase EXCEPT ![s] = "out" ]
    BY <1>1, <1>3
<1> QED  BY <1>2, <1>3, PassCases

\* Where that leaves the session, and the table.
LEMMA PassTable ==
    ASSUME IInv, NEW s \in Sessions, TablePass(s)
    PROVE  TableInv' /\ table' \in [ Entries -> Sessions \cup {Nobody} ]
           /\ left_out' \subseteq Sessions
<1>1. TypeOK /\ Sound(file)
    BY FileSound DEF IInv
<1>2. /\ phase \in [ Sessions -> {"new", "registering", "in", "unregistering", "out"} ]
      /\ todo \in [ Sessions -> SUBSET Steps ]
      /\ table \in [ Entries -> Sessions \cup {Nobody} ] /\ left_out \subseteq Sessions
    BY <1>1 DEF TypeOK
<1>3. /\ Reg' = Reg /\ file' = file
    BY PassCases DEF Reg
<1>4. \A t \in Sessions \ {s} : phase'[t] = phase[t] /\ todo'[t] = todo[t]
    BY PassCalls
<1>5. TableAt(s)
    BY DEF IInv, TableInv
<1>6. ASSUME DOMAIN table' = DOMAIN table,
             \A t \in Sessions \ {s}, i \in DOMAIN table : table'[i] = t <=> table[i] = t,
             \A t \in Sessions \ {s} : t \in left_out' <=> t \in left_out,
             TableAt(s)'
      PROVE  TableInv'
  <2> SUFFICES ASSUME NEW t \in Sessions, t # s PROVE TableAt(t)'
      BY <1>6 DEF TableInv
  <2>1. TableAt(t)
      BY DEF IInv, TableInv
  <2> QED  BY <1>3, <1>4, <1>6, <2>1, TableKept
<1>7. ASSUME NEW f \in TableFields, << f, s >> \in todo[s], Done(s, << f, s >>)
      PROVE  /\ todo'[s] = todo[s] \ {<< f, s >>}
             /\ phase[s] = "registering" => phase'[s] \in {"registering", "in"}
             /\ phase[s] = "unregistering" => phase'[s] \in {"unregistering", "out"}
    BY <1>2, <1>7 DEF Done
<1>8. CASE TakeEntry(s)
  <2>1. PICK i \in DOMAIN table :
            /\ phase[s] = "registering" /\ << "slot", s >> \in todo[s]
            /\ table[i] = Nobody /\ table' = [ table EXCEPT ![i] = s ]
            /\ Done(s, << "slot", s >>) /\ left_out' = left_out
      BY <1>8 DEF TakeEntry, InTable, FirstOf
  <2>2. /\ DOMAIN table' = DOMAIN table /\ HasEntry(s)'
        /\ \A j \in DOMAIN table : table'[j] = IF j = i THEN s ELSE table[j]
      BY <1>2, <2>1 DEF HasEntry
  <2>3. /\ todo'[s] = todo[s] \ {<< "slot", s >>}
        /\ phase'[s] \in {"registering", "in"}
      BY <1>7, <2>1 DEF TableFields
  <2>4. TableAt(s)'
    <3>1. file # "dtls" => ~ HasEntry(s)
        BY <1>5, <2>1 DEF TableAt, Without
    <3>2. ~ Without(s)' /\ phase'[s] # "unregistering"
        BY <2>3 DEF Without
    <3> QED  BY <1>3, <1>5, <2>1, <2>2, <3>1, <3>2 DEF TableAt, HasEntry
  <2>5. table' \in [ Entries -> Sessions \cup {Nobody} ]
      BY <1>2, <2>1
  <2> QED  BY <1>2, <1>6, <2>1, <2>2, <2>4, <2>5, NobodyAssumption
<1>9. CASE NoFreeEntry(s)
  <2>1. /\ phase[s] = "registering" /\ << "slot", s >> \in todo[s] /\ table' = table
        /\ IF file = "dtls"
           THEN /\ phase' = [ phase EXCEPT ![s] = "out" ] /\ left_out' = left_out
           ELSE Done(s, << "slot", s >>) /\ left_out' = left_out \union {s}
      BY <1>9 DEF NoFreeEntry, InTable
  <2>2. HasEntry(s)' = HasEntry(s)
      BY <2>1 DEF HasEntry
  <2>3. TableAt(s)'
    <3>1. CASE file = "dtls"
      <4>1. phase'[s] = "out"
          BY <1>2, <2>1, <3>1
      <4> QED  BY <1>3, <1>5, <2>1, <3>1, <4>1 DEF TableAt, Kept
    <3>2. CASE file # "dtls"
      <4>1. /\ todo'[s] = todo[s] \ {<< "slot", s >>}
            /\ phase'[s] \in {"registering", "in"}
          BY <1>7, <2>1, <3>2 DEF TableFields
      <4>2. ~ Without(s)'
          BY <4>1 DEF Without
      <4> QED  BY <1>3, <1>5, <2>1, <2>2, <3>2, <4>2 DEF TableAt
    <3> QED  BY <3>1, <3>2
  <2> QED  BY <1>2, <1>6, <2>1, <2>3
<1>10. CASE ReturnEntry(s)
  <2>1. PICK i \in DOMAIN table :
            /\ phase[s] = "unregistering" /\ << "slot", s >> \in todo[s]
            /\ table[i] = s /\ table' = [ table EXCEPT ![i] = Nobody ]
            /\ Done(s, << "slot", s >>) /\ left_out' = left_out
      BY <1>10 DEF ReturnEntry, InTable, FirstOf
  <2>2. /\ DOMAIN table' = DOMAIN table
        /\ \A j \in DOMAIN table : table'[j] = IF j = i THEN Nobody ELSE table[j]
      BY <1>2, <2>1
  <2>3. /\ todo'[s] = todo[s] \ {<< "slot", s >>}
        /\ phase'[s] \in {"unregistering", "out"}
      BY <1>7, <2>1 DEF TableFields
  <2>4. TableAt(s)'
    <3>1. file # "dtls" => ~ HasEntry(s)'
        BY <1>5, <2>1, <2>2, NobodyAssumption DEF TableAt, HasEntry
    <3>2. ~ Kept(s)' /\ << "slot", s >> \notin todo'[s]
        BY <2>3 DEF Kept
    <3> QED  BY <1>3, <1>5, <2>1, <2>2, <3>1, <3>2 DEF TableAt, HasEntry
  <2>5. table' \in [ Entries -> Sessions \cup {Nobody} ]
      BY <1>2, <2>1
  <2> QED  BY <1>2, <1>6, <2>1, <2>2, <2>4, <2>5, NobodyAssumption
<1>11. CASE NoEntryFound(s)
  <2>1. /\ phase[s] = "unregistering" /\ << "slot", s >> \in todo[s] /\ table' = table
        /\ ~ HasEntry(s) /\ left_out' = left_out
      BY <1>11 DEF NoEntryFound, InTable
  <2>2. file # "dtls"
      BY <1>5, <2>1 DEF TableAt
  <2>3. Done(s, << "slot", s >>)
      BY <1>11, <2>2 DEF NoEntryFound
  <2>4. phase'[s] \in {"unregistering", "out"}
      BY <1>7, <2>1, <2>3 DEF TableFields
  <2>5. TableAt(s)'
    <3>1. ~ Kept(s)'
        BY <2>4 DEF Kept
    <3>2. ~ HasEntry(s)'
        BY <2>1 DEF HasEntry
    <3> QED  BY <1>3, <1>5, <2>1, <2>2, <3>1, <3>2 DEF TableAt
  <2> QED  BY <1>2, <1>6, <2>1, <2>5
<1>12. CASE ClearTable(s)
  <2>1. /\ phase[s] = "unregistering" /\ << "slots", s >> \in todo[s]
        /\ table' = [ i \in DOMAIN table |-> Nobody ]
        /\ Done(s, << "slots", s >>) /\ left_out' = left_out
      BY <1>12 DEF ClearTable, InTable
  <2>2. file = "pptp"
    <3>1. << "slots", s >> \in StepsOf(Reg.unregister, s)
        BY <2>1 DEF IInv, CallInv
    <3>2. "slots" \in Reg.unregister
        BY <3>1 DEF StepsOf, Cell
    <3> QED  BY <1>1, <3>2 DEF Sound, Reg
  <2>3. \A t \in Sessions : TableAt(t)'
      BY <1>3, <2>1, <2>2, NobodyAssumption DEF TableAt, HasEntry
  <2>4. table' \in [ Entries -> Sessions \cup {Nobody} ]
      BY <1>2, <2>1
  <2> QED  BY <1>2, <2>1, <2>3, <2>4 DEF TableInv
<1> QED  BY <1>8, <1>9, <1>10, <1>11, <1>12 DEF TablePass

LEMMA PassInv ==
    ASSUME IInv, NEW s \in Sessions, TablePass(s)
    PROVE  IInv'
<1>1. /\ UNCHANGED << file, users, mem, poll >>
      /\ disturbed' \subseteq disturbed /\ disturbed \subseteq disturbed' \cup {s}
      /\ replaced' \subseteq replaced /\ replaced \subseteq replaced' \cup {s}
    BY PassCases
<1>2. TypeOK /\ Sound(file) /\ s \in users
  <2>1. phase[s] \in {"registering", "unregistering"}
      BY PassCases
  <2> QED  BY <2>1, FileSound DEF IInv, CallInv
<1>3. /\ phase \in [ Sessions -> {"new", "registering", "in", "unregistering", "out"} ]
      /\ todo \in [ Sessions -> SUBSET Steps ]
      /\ disturbed \subseteq Sessions /\ replaced \subseteq Sessions /\ users \subseteq Sessions
    BY <1>2 DEF TypeOK
<1>4. Reg' = Reg /\ SharesCallback' = SharesCallback /\ SharesContext' = SharesContext
      /\ Entries' = Entries
    BY <1>1 DEF Reg, SharesCallback, SharesContext, Entries
<1>5. \A t \in Sessions \ {s} : phase'[t] = phase[t] /\ todo'[t] = todo[t]
    BY PassCalls
\* The call goes on, or, in nss_dtls.c, ends as if it had not begun.
<1>6. \/ /\ \E f \in TableFields : << f, s >> \in todo[s] /\ todo'[s] = todo[s] \ {<< f, s >>}
         /\ phase[s] \in {"registering", "unregistering"}
         /\ phase'[s] = IF todo'[s] # {} THEN phase[s]
                        ELSE IF phase[s] = "registering" THEN "in" ELSE "out"
         /\ UNCHANGED << disturbed, replaced >>
      \/ /\ file = "dtls" /\ phase[s] = "registering" /\ << "slot", s >> \in todo[s]
         /\ todo'[s] = {} /\ phase'[s] = "out"
  <2>1. CASE /\ \E f \in TableFields : << f, s >> \in todo[s] /\ Done(s, << f, s >>)
             /\ phase[s] \in {"registering", "unregistering"}
             /\ UNCHANGED << disturbed, replaced >>
    <3>1. PICK f \in TableFields : << f, s >> \in todo[s] /\ Done(s, << f, s >>)
        BY <2>1
    <3>2. todo'[s] = todo[s] \ {<< f, s >>}
        BY <1>3, <3>1 DEF Done
    <3>3. phase'[s] = IF todo[s] # {<< f, s >>} THEN phase[s]
                      ELSE IF phase[s] = "registering" THEN "in" ELSE "out"
        BY <1>3, <3>1 DEF Done
    <3>4. todo[s] # {<< f, s >>} <=> todo'[s] # {}
        BY <3>1, <3>2
    <3> QED  BY <2>1, <3>1, <3>2, <3>3, <3>4
  <2>2. CASE /\ file = "dtls" /\ phase[s] = "registering"
             /\ << "slot", s >> \in todo[s]
             /\ todo' = [ todo EXCEPT ![s] = {} ]
             /\ phase' = [ phase EXCEPT ![s] = "out" ]
      BY <1>3, <2>2
  <2> QED  BY <2>1, <2>2, PassCases
<1>7. ASSUME << "slot", s >> \in todo[s], phase[s] = "registering", file = "dtls"
      PROVE  /\ todo[s] = StepsOf(Reg.register, s)
             /\ "file_cb" \in Reg.register /\ "file_ctx" \notin Reg.register
             /\ Own(Reg.unregister) \subseteq Own(Reg.register)
    BY <1>2, <1>7 DEF IInv, CallInv, Sound, Reg, Own, SessionFields
\* Of what the file has one of, nothing is stored or unstored.
<1>8. \A f \in FileFields, t \in Sessions : f \in Reg.register =>
          (Stored(f, t)' <=> Stored(f, t))
  <2> SUFFICES ASSUME NEW f \in FileFields, NEW t \in Sessions, f \in Reg.register
               PROVE  Stored(f, t)' <=> Stored(f, t)
      OBVIOUS
  <2>0. \A g \in TableFields : Cell(f, t) # << g, s >> /\ Cell(f, t) = << f, Nobody >>
      BY DEF Cell, FileFields, TableFields
  <2>1. CASE t # s
      BY <1>5, <2>0, <2>1 DEF Stored, Cell
  <2>2. CASE t = s /\ phase'[s] = "out" /\ phase[s] = "registering"
    <3>1. << "slot", s >> \in todo[s] /\ file = "dtls"
        BY <1>6, <2>2
    <3>2. Cell(f, s) \in todo[s]
        BY <1>2, <1>7, <2>2, <3>1, CallBegins DEF Cell
    <3> QED  BY <2>2, <3>2 DEF Stored
  <2>3. CASE t = s /\ ~ (phase'[s] = "out" /\ phase[s] = "registering")
    <3>1. Cell(f, s) \in todo'[s] <=> Cell(f, s) \in todo[s]
        BY <1>6, <2>0, <2>3
    <3>2. /\ phase[s] \in {"registering", "unregistering"}
          /\ phase'[s] = IF todo'[s] # {} THEN phase[s]
                         ELSE IF phase[s] = "registering" THEN "in" ELSE "out"
        BY <1>6, <2>3
    <3>3. Cell(f, s)' = Cell(f, s)
        BY DEF Cell
    <3> QED  BY <2>3, <3>1, <3>2, <3>3 DEF Stored
  <2> QED  BY <2>1, <2>2, <2>3
<1>9. PollInv'
  <2>1. \A t \in Sessions :
            /\ Settled(t) => Settled(t)'
            /\ phase[t] = "out" => phase'[t] = "out"
            /\ t \notin replaced => t \notin replaced'
      BY <1>1, <1>5, <1>6 DEF Settled
  <2>2. \A t \in Sessions : SharesCallback /\ Stored("file_cb", t) => Stored("file_cb", t)'
      BY <1>8 DEF SharesCallback, FileFields
  <2> QED  BY <1>1, <2>1, <2>2, PollUntouched
<1>10. TypeOK'
  <2>1. todo' \in [ Sessions -> SUBSET Steps ]
        /\ phase' \in [ Sessions -> {"new", "registering", "in", "unregistering", "out"} ]
      BY PassCalls
  <2>2. \A t \in Sessions : todo'[t] # {} <=> phase'[t] \in {"registering", "unregistering"}
      BY <1>2, <1>5, <1>6 DEF TypeOK
  <2> QED  BY <1>1, <1>2, <1>3, <1>4, <2>1, <2>2, PassTable DEF TypeOK
<1>11. CallInv'
  <2> SUFFICES ASSUME NEW t \in Sessions
               PROVE  /\ phase'[t] = "registering" =>
                             /\ todo'[t] \subseteq StepsOf(Reg.register, t)
                             /\ file = "dtls" /\ << "slot", t >> \in todo'[t] =>
                                    todo'[t] = StepsOf(Reg.register, t)
                      /\ phase'[t] = "unregistering" =>
                             todo'[t] \subseteq StepsOf(Reg.unregister, t)
                      /\ phase'[t] # "new" => t \in users
      BY <1>1, <1>4 DEF CallInv
  <2>1. CASE t # s
      BY <1>5, <2>1 DEF IInv, CallInv
  <2>2. CASE t = s
    <3>1. phase'[s] \in {"registering", "unregistering"} => phase[s] = phase'[s]
          /\ todo'[s] \subseteq todo[s]
        BY <1>6
    <3>2. phase'[s] = "registering" => << "slot", s >> \notin todo'[s]
      <4> SUFFICES ASSUME phase'[s] = "registering", << "slot", s >> \in todo'[s]
                   PROVE  FALSE
          OBVIOUS
      <4>1. PICK f \in TableFields : << f, s >> \in todo[s] /\ todo'[s] = todo[s] \ {<< f, s >>}
          BY <1>6
      <4>2. f = "slots"
          BY <4>1 DEF TableFields
      <4>3. << "slots", s >> \in StepsOf(Reg.register, s)
          BY <3>1, <4>1, <4>2 DEF IInv, CallInv
      <4>4. "slots" \in Reg.register
          BY <4>3 DEF StepsOf, Cell
      <4> QED  BY <1>2, <4>4 DEF Sound, Reg, SessionFields, FileFields
    <3> QED  BY <1>2, <2>2, <3>1, <3>2 DEF IInv, CallInv
  <2> QED  BY <2>1, <2>2
<1>12. OwnInv'
  <2>1. ASSUME NEW t \in Sessions, t # s PROVE OwnAt(t)'
    <3>1. OwnAt(t)
        BY DEF IInv, OwnInv
    <3> QED  BY <1>1, <1>5, <2>1, <3>1, OwnKept
  <2>2. OwnAt(s)'
    <3>0. OwnAt(s)
        BY DEF IInv, OwnInv
    <3>1. CASE phase'[s] = "out" /\ phase[s] = "registering"
      <4>1. << "slot", s >> \in todo[s] /\ file = "dtls"
          BY <1>6, <3>1
      <4>2. \A f \in Own(Reg.unregister) : << f, s >> \in todo[s]
          BY <1>2, <1>7, <3>1, <4>1, CallBegins
      <4> QED  BY <1>1, <1>4, <3>0, <3>1, <4>2 DEF OwnAt
    <3>2. CASE ~ (phase'[s] = "out" /\ phase[s] = "registering")
      <4>1. \A f \in SessionFields : << f, s >> \in todo'[s] <=> << f, s >> \in todo[s]
          BY <1>6, <3>2 DEF SessionFields, TableFields
      <4>2. /\ phase[s] \in {"registering", "unregistering"}
            /\ phase'[s] = IF todo'[s] # {} THEN phase[s]
                           ELSE IF phase[s] = "registering" THEN "in" ELSE "out"
          BY <1>6, <3>2
      <4>3. \A F : Own(F) \subseteq SessionFields
          BY DEF Own
      <4>4. \A f \in Own(Reg.register) :
                (phase'[s] \in {"in", "registering"} /\ << f, s >> \notin todo'[s] =>
                    mem[<< f, s >>] = s)
          BY <3>0, <4>1, <4>2, <4>3 DEF OwnAt
      <4>5. \A f \in Own(Reg.unregister) :
              /\ phase'[s] \in {"out", "unregistering"} /\ << f, s >> \notin todo'[s] =>
                    mem[<< f, s >>] = Nobody
              /\ phase'[s] = "registering" /\ << f, s >> \in todo'[s] =>
                    mem[<< f, s >>] = Nobody
          BY <3>0, <4>1, <4>2, <4>3 DEF OwnAt
      <4>6. phase'[s] \in {"in", "out"} => todo'[s] = {}
          BY <4>2
      <4>7. phase'[s] # "new"
          BY <4>2
      <4>8. "core" \notin Reg.register => mem[<< "core", s >>] = s
          BY <3>0 DEF OwnAt
      <4> QED  BY <1>1, <1>4, <4>4, <4>5, <4>6, <4>7, <4>8 DEF OwnAt
    <3> QED  BY <3>1, <3>2
  <2> QED  BY <2>1, <2>2 DEF OwnInv
<1>13. ShareInv'
  <2> SUFFICES ASSUME NEW t \in users, t \notin disturbed' PROVE ShareAt(t)'
      BY <1>1 DEF ShareInv
  <2>0. t \in Sessions /\ \A u \in Others(t) : u \in Sessions
      BY <1>3 DEF Others
  <2>1. CASE phase'[t] \notin {"registering", "in"}
      BY <2>1 DEF ShareAt, Stored
  <2>2. CASE phase'[t] \in {"registering", "in"}
    <3>1. t \notin disturbed /\ (t \notin replaced' => t \notin replaced)
        BY <1>1, <1>6, <2>2
    <3>2. \A u \in Sessions : /\ StillToClear(u)' => StillToClear(u)
                              /\ StillToReplace(u)' => StillToReplace(u)
      <4>1. \A u \in Sessions : phase'[u] \in {"registering", "unregistering"} => phase[u] = phase'[u]
          BY <1>5, <1>6
      <4> QED  BY <1>4, <4>1 DEF StillToClear, StillToReplace
    <3>3. phase[t] \in {"registering", "in"}
        BY <1>5, <1>6, <2>0, <2>2
    <3>4. \A f \in FileFields \cap Reg.register : Stored(f, t)' => Stored(f, t)
        BY <1>8, <2>0
    <3>5. "file_cb" \in Reg.register =>
              \A w \in Sessions : Stored("file_cb", w) => Stored("file_cb", w)'
        BY <1>8 DEF FileFields
    <3> QED  BY <1>1, <2>0, <3>1, <3>2, <3>3, <3>4, <3>5, ShareKept DEF IInv, ShareInv
  <2> QED  BY <2>1, <2>2
<1>14. ContextInv'
  <2>1. "file_ctx" \notin Reg.register => mem'[<< "file_ctx", Nobody >>] = Nobody
      BY <1>1 DEF IInv, ContextInv
  <2>2. ASSUME NEW t \in Sessions, mem'[<< "file_ctx", Nobody >>] = t
        PROVE  \/ phase'[t] \in {"registering", "in"}
               \/ phase'[t] = "unregistering" /\ << "file_ctx", Nobody >> \in todo'[t]
    <3>1. \/ phase[t] \in {"registering", "in"}
          \/ phase[t] = "unregistering" /\ << "file_ctx", Nobody >> \in todo[t]
        BY <1>1, <2>2 DEF IInv, ContextInv
    <3>2. CASE t # s
        BY <1>5, <3>1, <3>2
    <3>3. CASE t = s
      <4>1. "file_ctx" \in Reg.register
          BY <1>1, <2>2, NobodyAssumption DEF IInv, ContextInv
      <4>2. ~ (phase'[s] = "out" /\ phase[s] = "registering")
          BY <1>6, <1>7, <4>1
      <4>3. \A f \in TableFields : << "file_ctx", Nobody >> # << f, s >>
          BY DEF TableFields
      <4> QED  BY <1>6, <3>1, <3>3, <4>2, <4>3
    <3> QED  BY <3>2, <3>3
  <2> QED  BY <1>4, <2>1, <2>2 DEF ContextInv
<1> QED  BY <1>9, <1>10, <1>11, <1>12, <1>13, <1>14, PassTable DEF IInv

\* A store: one variable, which is the session's own or the file's.
LEMMA StoreInv ==
    ASSUME IInv, NEW s \in Sessions, Store(s)
    PROVE  IInv'
<1>1. PICK c \in todo[s] \cap Cells :
      /\ file = "dtls" => todo[s] \subseteq Cells
      /\ mem' = [ mem EXCEPT ![c] = IF phase[s] = "registering" THEN s ELSE Nobody ]
      /\ todo' = [ todo EXCEPT ![s] = @ \ {c} ]
      /\ phase' = [ phase EXCEPT ![s] =
                    IF todo[s] # {c} THEN @
                    ELSE IF @ = "registering" THEN "in" ELSE "out" ]
      /\ UNCHANGED << file, users, table, disturbed, replaced, left_out, poll >>
    BY Zenon DEF Store, Done
<1>2. TypeOK /\ Sound(file)
    BY FileSound DEF IInv
<1>3. /\ phase \in [ Sessions -> {"new", "registering", "in", "unregistering", "out"} ]
      /\ todo \in [ Sessions -> SUBSET Steps ]
      /\ mem \in [ Cells -> Sessions \union {Nobody} ]
      /\ users \subseteq Sessions
    BY <1>2 DEF TypeOK
<1>4. phase[s] \in {"registering", "unregistering"} /\ s \in users
    BY <1>1, <1>2, <1>3 DEF TypeOK, IInv, CallInv
<1>5. Reg' = Reg /\ SharesCallback' = SharesCallback /\ SharesContext' = SharesContext
      /\ Entries' = Entries
    BY <1>1 DEF Reg, SharesCallback, SharesContext, Entries
<1>6. \A f \in TableFields, t \in Sessions :
          /\ c # << f, t >>
          /\ file = "dtls" => << f, t >> \notin todo[s]
  <2>1. \A f \in TableFields, t \in Sessions : << f, t >> \notin Cells
      BY DEF Cells, SessionFields, FileFields, TableFields
  <2> QED  BY <1>1, <2>1
<1>7. \/ \E f \in Own(Reg.register) : c = << f, s >>
      \/ \E f \in Reg.register \cap FileFields : c = << f, Nobody >>
  <2>1. CASE phase[s] = "registering"
    <3>1. c \in StepsOf(Reg.register, s)
        BY <1>1, <2>1 DEF IInv, CallInv
    <3>2. Reg.register \subseteq SessionFields \cup FileFields \cup TableFields
        BY <1>2, StepsThere
    <3> QED  BY <1>1, <1>6, <3>1, <3>2, StepCases
  <2>2. CASE phase[s] = "unregistering"
    <3>1. c \in StepsOf(Reg.unregister, s)
        BY <1>1, <2>2 DEF IInv, CallInv
    <3>2. Reg.unregister \subseteq SessionFields \cup FileFields \cup TableFields
        BY <1>2, StepsThere
    <3>3. /\ Own(Reg.unregister) \subseteq Own(Reg.register)
          /\ Reg.unregister \cap FileFields \subseteq Reg.register \cap FileFields
        BY <1>2 DEF Sound, Reg, SessionFields, FileFields, Own
    <3>4. \/ \E f \in Own(Reg.unregister) : c = << f, s >>
          \/ \E f \in Reg.unregister \cap FileFields : c = << f, Nobody >>
        BY <1>1, <1>6, <3>1, <3>2, StepCases
    <3> QED  BY <3>3, <3>4
  <2> QED  BY <1>4, <2>1, <2>2
<1>8. c \in Cells
    BY <1>1
<1>9. /\ todo'[s] = todo[s] \ {c}
      /\ phase'[s] = IF todo[s] # {c} THEN phase[s]
                     ELSE IF phase[s] = "registering" THEN "in" ELSE "out"
      /\ \A t \in Sessions \ {s} : phase'[t] = phase[t] /\ todo'[t] = todo[t]
      /\ mem'[c] = IF phase[s] = "registering" THEN s ELSE Nobody
      /\ \A d \in Cells \ {c} : mem'[d] = mem[d]
    BY <1>1, <1>3, <1>4, <1>8
\* Of what the file has one of, what is stored stays so.
<1>10. \A f \in FileFields, t \in Sessions : Stored(f, t) => Stored(f, t)'
  <2> SUFFICES ASSUME NEW f \in FileFields, NEW t \in Sessions, Stored(f, t)
               PROVE  Stored(f, t)'
      OBVIOUS
  <2>1. CASE t # s
      BY <1>9, <2>1 DEF Stored, Cell
  <2>2. CASE t = s
    <3>1. phase[s] = "registering" /\ Cell(f, s) \notin todo[s]
        BY <1>4, <2>2 DEF Stored
    <3>2. phase'[s] \in {"registering", "in"} /\ Cell(f, s) \notin todo'[s]
        BY <1>9, <3>1
    <3> QED  BY <2>2, <3>2 DEF Stored, Cell
  <2> QED  BY <2>1, <2>2
<1>11. PollInv'
  <2>1. \A t \in Sessions : /\ Settled(t) => Settled(t)'
                            /\ phase[t] = "out" => phase'[t] = "out"
      BY <1>1, <1>4, <1>9 DEF Settled
  <2>2. \A t \in Sessions : /\ t \notin replaced => t \notin replaced'
                            /\ Stored("file_cb", t) => Stored("file_cb", t)'
      BY <1>1, <1>10 DEF FileFields
  <2> QED  BY <1>1, <2>1, <2>2, PollUntouched
<1>12. TypeOK'
  <2>1. phase' \in [ Sessions -> {"new", "registering", "in", "unregistering", "out"} ]
      BY <1>1, <1>3
  <2>2. todo' \in [ Sessions -> SUBSET Steps ]
      BY <1>1, <1>3
  <2>3. mem' \in [ Cells -> Sessions \union {Nobody} ]
      BY <1>1, <1>3
  <2>4. \A t \in Sessions : todo'[t] # {} <=> phase'[t] \in {"registering", "unregistering"}
      BY <1>1, <1>2, <1>4, <1>9 DEF TypeOK
  <2> QED  BY <1>1, <1>2, <1>5, <2>1, <2>2, <2>3, <2>4 DEF TypeOK
<1>13. CallInv'
  <2> SUFFICES ASSUME NEW t \in Sessions
               PROVE  /\ phase'[t] = "registering" =>
                             /\ todo'[t] \subseteq StepsOf(Reg.register, t)
                             /\ file = "dtls" /\ << "slot", t >> \in todo'[t] =>
                                    todo'[t] = StepsOf(Reg.register, t)
                      /\ phase'[t] = "unregistering" =>
                             todo'[t] \subseteq StepsOf(Reg.unregister, t)
                      /\ phase'[t] # "new" => t \in users
      BY <1>1, <1>5 DEF CallInv
  <2>1. CASE t # s
      BY <1>9, <2>1 DEF IInv, CallInv
  <2>2. CASE t = s
    <3>1. phase'[s] \in {"registering", "unregistering"} => phase[s] = phase'[s]
          /\ todo'[s] \subseteq todo[s]
        BY <1>4, <1>9
    <3>2. file = "dtls" => << "slot", s >> \notin todo'[s]
        BY <1>6, <1>9 DEF TableFields
    <3> QED  BY <1>4, <2>2, <3>1, <3>2 DEF IInv, CallInv
  <2> QED  BY <2>1, <2>2
<1>14. OwnInv'
  <2>1. \A f \in SessionFields, t \in Sessions : << f, t >> \in Cells /\ f \notin FileFields
      BY DEF Cells, SessionFields, FileFields
  <2>2. \A F : Own(F) \subseteq SessionFields
      BY DEF Own
  <2>3. ASSUME NEW t \in Sessions, t # s PROVE OwnAt(t)'
    <3>1. OwnAt(t)
        BY DEF IInv, OwnInv
    <3>2. \A f \in SessionFields : c # << f, t >>
        BY <1>7, <2>1, <2>3
    <3>3. \A f \in SessionFields : mem'[<< f, t >>] = mem[<< f, t >>]
        BY <1>9, <2>1, <3>2
    <3> QED  BY <1>1, <1>9, <2>3, <3>1, <3>3, OwnKept
  <2>4. OwnAt(s)'
    <3>1. OwnAt(s)
        BY DEF IInv, OwnInv
    <3>2. ASSUME NEW f \in Own(Reg.register)
          PROVE  /\ phase'[s] = "in" => mem'[<< f, s >>] = s
                 /\ phase'[s] = "registering" /\ << f, s >> \notin todo'[s]
                        => mem'[<< f, s >>] = s
      <4>1. << f, s >> \in Cells
          BY <2>1, <2>2
      <4>2. CASE c = << f, s >>
          BY <1>4, <1>9, <4>2
      <4>3. CASE c # << f, s >>
        <5>1. mem'[<< f, s >>] = mem[<< f, s >>]
            BY <1>9, <4>1, <4>3
        <5>2. phase[s] = "registering" /\ << f, s >> \notin todo[s] => mem[<< f, s >>] = s
            BY <3>1, <3>2 DEF OwnAt
        <5>3. << f, s >> \notin todo'[s] => << f, s >> \notin todo[s]
            BY <1>9, <4>3
        <5>4. phase'[s] = "in" => phase[s] = "registering" /\ << f, s >> \notin todo[s]
            BY <1>4, <1>9, <4>3
        <5>5. phase'[s] = "registering" => phase[s] = "registering"
            BY <1>4, <1>9
        <5> QED  BY <5>1, <5>2, <5>3, <5>4, <5>5
      <4> QED  BY <4>2, <4>3
    <3>3. ASSUME NEW f \in Own(Reg.unregister)
          PROVE  /\ phase'[s] \in {"new", "out"} => mem'[<< f, s >>] = Nobody
                 /\ phase'[s] = "registering" /\ << f, s >> \in todo'[s]
                        => mem'[<< f, s >>] = Nobody
                 /\ phase'[s] = "unregistering" /\ << f, s >> \notin todo'[s]
                        => mem'[<< f, s >>] = Nobody
      <4>1. << f, s >> \in Cells
          BY <2>1, <2>2
      <4>2. CASE c = << f, s >>
          BY <1>4, <1>9, <4>2
      <4>3. CASE c # << f, s >>
        <5>1. mem'[<< f, s >>] = mem[<< f, s >>]
            BY <1>9, <4>1, <4>3
        <5>2. /\ phase[s] = "unregistering" /\ << f, s >> \notin todo[s]
                  => mem[<< f, s >>] = Nobody
              /\ phase[s] = "registering" /\ << f, s >> \in todo[s]
                  => mem[<< f, s >>] = Nobody
            BY <3>1, <3>3 DEF OwnAt
        <5>3. << f, s >> \notin todo'[s] <=> << f, s >> \notin todo[s]
            BY <1>9, <4>3
        <5>4. /\ phase'[s] = "out" => phase[s] = "unregistering" /\ << f, s >> \notin todo[s]
              /\ phase'[s] # "new"
            BY <1>4, <1>9, <4>3
        <5>5. phase'[s] \in {"registering", "unregistering"} => phase[s] = phase'[s]
            BY <1>4, <1>9
        <5> QED  BY <5>1, <5>2, <5>3, <5>4, <5>5
      <4> QED  BY <4>2, <4>3
    <3>4. "core" \notin Reg.register => mem'[<< "core", s >>] = s
      <4> SUFFICES ASSUME "core" \notin Reg.register PROVE mem'[<< "core", s >>] = s
          OBVIOUS
      <4>1. "core" \in SessionFields /\ "core" \notin Own(Reg.register)
          BY DEF SessionFields, Own
      <4>2. c # << "core", s >>
          BY <1>7, <2>1, <4>1
      <4> QED  BY <1>9, <2>1, <3>1, <4>1, <4>2 DEF OwnAt
    <3>5. Own(Reg.register)' = Own(Reg.register) /\ Own(Reg.unregister)' = Own(Reg.unregister)
        BY <1>5 DEF Own
    <3> QED  BY <1>1, <1>5, <3>2, <3>3, <3>4, <3>5, Zenon DEF OwnAt
  <2> QED  BY <2>3, <2>4 DEF OwnInv
<1>15. TableInv'
  <2>1. ASSUME NEW t \in Sessions, t # s PROVE TableAt(t)'
    <3>1. TableAt(t)
        BY DEF IInv, TableInv
    <3> QED  BY <1>1, <1>9, <2>1, <3>1, TableKept
  <2>2. TableAt(s)'
    <3>1. TableAt(s)
        BY DEF IInv, TableInv
    <3>2. \A f \in TableFields : << f, s >> \in todo[s] <=> << f, s >> \in todo'[s]
        BY <1>6, <1>9
    <3>3. "slot" \in TableFields
        BY DEF TableFields
    <3>4. Kept(s)' => Kept(s)
        BY <1>4, <1>5, <1>9, <3>2, <3>3 DEF Kept
    <3>5. Without(s)' => Without(s)
        BY <1>4, <1>9, <3>2, <3>3 DEF Without
    <3>6. HasEntry(s)' = HasEntry(s)
        BY <1>1 DEF HasEntry
    <3>7. phase'[s] = "unregistering" => phase[s] = "unregistering"
        BY <1>4, <1>9
    <3> QED  BY <1>1, <3>1, <3>2, <3>3, <3>4, <3>5, <3>6, <3>7 DEF TableAt
  <2> QED  BY <2>1, <2>2 DEF TableInv
<1>16. \A f \in FileFields :
            /\ << f, Nobody >> \in Cells
            /\ c = << f, Nobody >> => f \in Reg.register
  <2>1. \A f \in FileFields, g \in SessionFields : f # g
      BY DEF SessionFields, FileFields
  <2>2. Own(Reg.register) \subseteq SessionFields
      BY DEF Own
  <2>3. \A f \in FileFields : << f, Nobody >> \in Cells
      BY DEF Cells
  <2>4. ASSUME NEW f \in FileFields, c = << f, Nobody >> PROVE f \in Reg.register
    <3>1. CASE \E g \in Own(Reg.register) : c = << g, s >>
        BY <2>1, <2>2, <2>4, <3>1
    <3>2. CASE \E g \in Reg.register \cap FileFields : c = << g, Nobody >>
        BY <2>4, <3>2
    <3> QED  BY <1>7, <3>1, <3>2
  <2> QED  BY <2>3, <2>4
<1>17. ShareInv'
  <2> SUFFICES ASSUME NEW t \in users, t \notin disturbed PROVE ShareAt(t)'
      BY <1>1 DEF ShareInv
  <2>0. /\ t \in Sessions /\ ShareAt(t)
        /\ Others(t)' = Others(t) /\ \A u \in Others(t) : u \in Sessions
      BY <1>1, <1>3 DEF IInv, ShareInv, Others
  <2>1. \A u \in Sessions : /\ StillToClear(u)' => StillToClear(u)
                            /\ StillToReplace(u)' => StillToReplace(u)
    <3>1. \A u \in Sessions : phase'[u] \in {"registering", "unregistering"} =>
                                  phase[u] = phase'[u]
        BY <1>4, <1>9
    <3> QED  BY <1>5, <3>1 DEF StillToClear, StillToReplace
  <2>2. phase'[t] \in {"registering", "in"} => phase[t] \in {"registering", "in"}
      BY <1>4, <1>9, <2>0
  <2>3. phase'[t] \in {"registering", "in"} => \A u \in Others(t)' :
            /\ ~ StillToClear(u)'
            /\ t \notin replaced' => ~ StillToReplace(u)'
      BY <1>1, <2>0, <2>1, <2>2 DEF ShareAt
\* What is stored for t was so before, or is being stored now; nobody clears it.
  <2>4. ASSUME NEW f \in FileFields, f \in Reg.register, Stored(f, t)'
        PROVE  \/ Stored(f, t) /\ mem'[<< f, Nobody >>] = mem[<< f, Nobody >>]
               \/ /\ t = s \/ (f = "file_cb" /\ t \in replaced)
                  /\ mem'[<< f, Nobody >>] = s /\ Stored(f, s)'
    <3>0. \A u \in Sessions : Cell(f, u) = << f, Nobody >> /\ Cell(f, u)' = << f, Nobody >>
        BY <2>4 DEF Cell
    <3>1. CASE c = << f, Nobody >>
      <4>1. phase[s] = "registering" => mem'[<< f, Nobody >>] = s /\ Stored(f, s)'
        <5> SUFFICES ASSUME phase[s] = "registering"
                     PROVE  mem'[<< f, Nobody >>] = s /\ Stored(f, s)'
            OBVIOUS
        <5>1. phase'[s] \in {"registering", "in"} /\ Cell(f, s) \notin todo'[s]
            BY <1>9, <3>0, <3>1
        <5> QED  BY <1>9, <3>0, <3>1, <5>1 DEF Stored
      <4>2. CASE t = s
        <5>1. phase[s] = "registering"
            BY <1>4, <1>9, <2>4, <4>2 DEF Stored
        <5> QED  BY <4>1, <4>2, <5>1
      <4>3. CASE t # s
        <5>1. phase[t] \in {"registering", "in"}
            BY <2>2, <2>4 DEF Stored
        <5>2. s \in Others(t)
            BY <1>4, <4>3 DEF Others
        <5>3. ~ StillToClear(s) /\ (t \notin replaced => ~ StillToReplace(s))
            BY <2>0, <5>1, <5>2 DEF ShareAt
        <5>4. f = "file_cb" \/ f = "file_ctx"
            BY <2>4 DEF FileFields
        <5>5. phase[s] = "registering" /\ f = "file_cb" /\ t \in replaced
            BY <1>4, <2>4, <5>3, <5>4
            DEF StillToClear, StillToReplace, SharesCallback, SharesContext
        <5> QED  BY <4>1, <5>5
      <4> QED  BY <4>2, <4>3
    <3>2. CASE c # << f, Nobody >>
      <4>1. mem'[<< f, Nobody >>] = mem[<< f, Nobody >>]
          BY <1>9, <1>16, <2>4, <3>2
      <4>2. CASE t = s
        <5>1. phase[s] = "registering" /\ << f, Nobody >> \notin todo[s]
            BY <1>4, <1>9, <2>0, <2>4, <3>0, <3>2, <4>2 DEF Stored
        <5> QED  BY <2>0, <3>0, <4>1, <4>2, <5>1 DEF Stored
      <4>3. CASE t # s
          BY <1>9, <2>0, <2>4, <3>0, <4>1, <4>3 DEF Stored
      <4> QED  BY <4>2, <4>3
    <3> QED  BY <3>1, <3>2
  <2>5. "file_cb" \in FileFields /\ "file_ctx" \in FileFields /\ "file_cb" # "file_ctx"
      BY DEF FileFields
  <2>6. "file_cb" \in Reg.register /\ Stored("file_cb", t)' => \E w \in Sessions :
            /\ mem'[<< "file_cb", Nobody >>] = w
            /\ Stored("file_cb", w)'
            /\ t \notin replaced' => w = t
    <3> SUFFICES ASSUME "file_cb" \in Reg.register, Stored("file_cb", t)'
                 PROVE  \E w \in Sessions :
                            /\ mem'[<< "file_cb", Nobody >>] = w
                            /\ Stored("file_cb", w)'
                            /\ t \notin replaced' => w = t
        OBVIOUS
    <3>1. CASE /\ Stored("file_cb", t)
               /\ mem'[<< "file_cb", Nobody >>] = mem[<< "file_cb", Nobody >>]
      <4>1. PICK w \in Sessions : /\ mem[<< "file_cb", Nobody >>] = w
                                  /\ Stored("file_cb", w)
                                  /\ t \notin replaced => w = t
          BY <2>0, <3>1 DEF ShareAt
      <4> QED  BY <1>1, <1>10, <2>5, <3>1, <4>1
    <3>2. CASE /\ t = s \/ t \in replaced
               /\ mem'[<< "file_cb", Nobody >>] = s /\ Stored("file_cb", s)'
        BY <1>1, <3>2
    <3> QED  BY <2>4, <2>5, <3>1, <3>2
  <2>7. "file_ctx" \in Reg.register /\ Stored("file_ctx", t)' =>
               mem'[<< "file_ctx", Nobody >>] = t
      BY <2>0, <2>4, <2>5 DEF ShareAt
  <2> QED  BY <1>5, <2>3, <2>6, <2>7 DEF ShareAt
<1>18. ContextInv'
  <2> DEFINE ctx == << "file_ctx", Nobody >>
  <2>1. "file_ctx" \in FileFields
      BY DEF FileFields
  <2>2. "file_ctx" \notin Reg.register => mem'[ctx] = Nobody
      BY <1>9, <1>16, <2>1 DEF IInv, ContextInv
  <2>3. ASSUME NEW t \in Sessions, mem'[ctx] = t
        PROVE  \/ phase'[t] \in {"registering", "in"}
               \/ phase'[t] = "unregistering" /\ ctx \in todo'[t]
    <3>1. CASE c = ctx
      <4>1. phase[s] = "registering" /\ t = s
          BY <1>4, <1>9, <2>3, <3>1, NobodyAssumption
      <4> QED  BY <1>9, <4>1
    <3>2. CASE c # ctx
      <4>1. mem[ctx] = t
          BY <1>9, <1>16, <2>1, <2>3, <3>2
      <4>2. \/ phase[t] \in {"registering", "in"}
            \/ phase[t] = "unregistering" /\ ctx \in todo[t]
          BY <4>1 DEF IInv, ContextInv
      <4>3. CASE t = s
          BY <1>4, <1>9, <3>2, <4>2, <4>3
      <4>4. CASE t # s
          BY <1>9, <4>2, <4>4
      <4> QED  BY <4>3, <4>4
    <3> QED  BY <3>1, <3>2
  <2> QED  BY <1>5, <2>2, <2>3 DEF ContextInv
<1> QED  BY <1>11, <1>12, <1>13, <1>14, <1>15, <1>17, <1>18 DEF IInv

(***************************************************************************)
(* The poll's steps.                                                       *)
(***************************************************************************)

\* A step of the poll touches nothing of the sessions.
LEMMA PollStep ==
    ASSUME IInv, UNCHANGED << file, users, mem, table, phase, todo, disturbed,
                              replaced, left_out >>,
           PollInv'
    PROVE  IInv'
<1>1. /\ Reg' = Reg /\ SharesCallback' = SharesCallback /\ SharesContext' = SharesContext
      /\ Entries' = Entries
    BY DEF Reg, SharesCallback, SharesContext, Entries
<1>2. TypeOK'
  <2>1. poll' \in Runs
      BY DEF PollInv
  <2> QED  BY <1>1, <2>1, RunTypes DEF IInv, TypeOK, Runs
<1>3. CallInv'
    BY <1>1 DEF IInv, CallInv
<1>4. OwnInv'
  <2> SUFFICES ASSUME NEW t \in Sessions PROVE OwnAt(t)'
      BY DEF OwnInv
  <2>1. OwnAt(t)
      BY DEF IInv, OwnInv
  <2> QED  BY <2>1, OwnKept
<1>5. TableInv'
  <2> SUFFICES ASSUME NEW t \in Sessions PROVE TableAt(t)'
      BY DEF TableInv
  <2>1. TableAt(t)
      BY DEF IInv, TableInv
  <2> QED  BY <2>1, TableKept
<1>6. ShareInv'
  <2> SUFFICES ASSUME NEW t \in users \ disturbed PROVE ShareAt(t)'
      BY DEF ShareInv
  <2>1. t \in Sessions /\ ShareAt(t)
      BY DEF IInv, ShareInv, TypeOK
  <2> QED  BY <1>1, <2>1, ShareKept DEF StillToClear, StillToReplace, Stored
<1>7. ContextInv'
    BY <1>1 DEF IInv, ContextInv
<1> QED  BY <1>2, <1>3, <1>4, <1>5, <1>6, <1>7 DEF IInv

\* Nothing is loaded yet.
LEMMA BeginInv ==
    ASSUME IInv, NEW s \in Sessions, NEW event \in Events, Begin(event, s),
           UNCHANGED << file, users, mem, table, phase, todo, disturbed, replaced,
                        left_out >>,
           event = "answer" /\ phase[s] = "out" => "core" \notin Reg.unregister
    PROVE  PollInv'
<1>1. /\ event \in {"notify", "answer", "packet", "ext_packet"}
      /\ DOMAIN Loads(event) \subseteq Roles
    BY LoadFacts DEF IInv, Loadable
<1> DEFINE got == [ r \in Roles |-> IF r \in DOMAIN Loads(event) THEN Nobody ELSE s ]
<1>2. /\ poll'.stage = "reading" /\ poll'.event = event /\ poll'.session = s
      /\ poll'.left = DOMAIN Loads(event) /\ poll'.got = got
      /\ poll'.steady = Settled(s) /\ poll'.gone = (phase[s] = "out")
      /\ poll'.own = (Settled(s) /\ s \notin replaced)
    BY DEF Begin
<1>3. poll' \in Runs
  <2>1. Settled(s) \in BOOLEAN /\ (phase[s] = "out") \in BOOLEAN
        /\ (Settled(s) /\ s \notin replaced) \in BOOLEAN
      BY DEF Settled
  <2> QED  BY <1>1, <2>1 DEF Begin, Runs
<1>4. /\ Reg' = Reg /\ Events' = Events /\ Settled(s)' = Settled(s)
      /\ Loads(event)' = Loads(event)
    BY DEF Reg, Events, Settled, Loads, Msg
<1>5. \A r \in Roles \ DOMAIN Loads(event) : got[r] = s
    OBVIOUS
<1>6. ReadingInv'
    BY <1>2, <1>4, <1>5 DEF ReadingInv
<1>7. /\ poll'.steady => Settled(s)'
      /\ poll'.own => poll'.steady /\ s \notin replaced'
      /\ poll'.gone => phase'[s] = "out"
    BY <1>2, <1>4
<1> QED  BY <1>2, <1>3, <1>6, <1>7 DEF PollInv, Settled

LEMMA MessageInv ==
    ASSUME IInv, NEW s \in Sessions, NEW event \in {"notify", "answer"},
           MessageArrives(event, s)
    PROVE  IInv'
<1>1. PICK type \in {"plain", "last"} :
          /\ event \in Events
          /\ IF mem[<< "core", s >>] # Nobody /\ type \in Msg.handles
             THEN Begin(event, s)
             ELSE poll' = [ Idle EXCEPT !.stage = "done", !.event = event,
                            !.session = s, !.gone = phase[s] = "out",
                            !.steady = Settled(s) /\ type = "plain" ]
          /\ UNCHANGED << file, users, mem, table, phase, todo, disturbed, replaced, left_out >>
    BY DEF MessageArrives, Arrives
<1>2. Sound(file) /\ OwnAt(s)
    BY FileSound DEF IInv, OwnInv
<1>3. CASE mem[<< "core", s >>] # Nobody /\ type \in Msg.handles
  <2>1. phase[s] = "out" => "core" \notin Reg.unregister
    <3>1. "core" \in SessionFields
        BY DEF SessionFields
    <3> QED  BY <1>2, <1>3, <3>1 DEF OwnAt, Own
  <2> QED  BY <1>1, <1>3, <2>1, BeginInv, PollStep
<1>4. CASE ~ (mem[<< "core", s >>] # Nobody /\ type \in Msg.handles)
  <2>1. poll' = [ Idle EXCEPT !.stage = "done", !.event = event,
                  !.session = s, !.gone = phase[s] = "out",
                  !.steady = Settled(s) /\ type = "plain" ]
      BY <1>1, <1>4
  <2>2. /\ poll'.stage = "done" /\ poll'.session = s /\ poll'.call = "none"
        /\ poll'.steady => Settled(s) /\ type = "plain"
        /\ ~ poll'.own /\ poll'.gone = (phase[s] = "out")
      BY <2>1 DEF Idle
  <2>3. poll' \in Runs
    <3>1. (Settled(s) /\ type = "plain") \in BOOLEAN /\ (phase[s] = "out") \in BOOLEAN
        OBVIOUS
    <3> QED  BY <2>1, <3>1 DEF Idle, Runs
  <2>4. Settled(s) => mem[<< "core", s >>] # Nobody
    <3>1. "core" \in SessionFields
        BY DEF SessionFields
    <3> QED  BY <1>2, <3>1, NobodyAssumption DEF OwnAt, Own, Settled
  <2>5. "plain" \in Msg.handles
      BY <1>2 DEF Sound, Msg
  <2>6. ~ poll'.steady
      BY <1>4, <2>2, <2>4, <2>5
  <2>7. DoneInv'
      BY <2>2, <2>6, OutcomeAssumption DEF DoneInv, SilentWhenGone
  <2>8. poll'.gone => phase'[s] = "out"
      BY <1>1, <2>2
  <2>9. PollInv'
      BY <2>2, <2>3, <2>6, <2>7, <2>8 DEF PollInv
  <2> QED  BY <1>1, <2>9, PollStep
<1> QED  BY <1>3, <1>4

LEMMA PacketInv ==
    ASSUME IInv, NEW s \in Sessions, NEW event \in {"packet", "ext_packet"},
           PacketArrives(event, s)
    PROVE  IInv'
<1>1. /\ event \in Events /\ Begin(event, s)
      /\ UNCHANGED << file, users, mem, table, phase, todo, disturbed, replaced, left_out >>
    BY DEF PacketArrives, Arrives
<1> QED  BY <1>1, BeginInv, PollStep

\* What is loaded is what the session, or the file, has.
LEMMA LoadInv ==
    ASSUME IInv, Load
    PROVE  IInv'
<1> DEFINE s == poll.session
           loads == Loads(poll.event)
<1>1. PICK q \in poll.left :
      /\ poll.stage = "reading"
      /\ poll' = [ poll EXCEPT !.left = @ \ {q},
                     !.got[q] = mem[Cell(Loads(poll.event)[q], poll.session)] ]
      /\ UNCHANGED << file, users, mem, table, phase, todo, disturbed, replaced, left_out >>
    BY DEF Load
<1>2. poll \in Runs /\ ReadingInv
    BY <1>1 DEF IInv, PollInv
<1>3. s \in Sessions /\ poll.event \in Events /\ poll.left \subseteq DOMAIN loads
    BY <1>1, <1>2 DEF IInv, PollInv, ReadingInv
<1>4. /\ q \in DOMAIN loads /\ q \in Roles
      /\ loads[q] \in Reg.register \ {"slot"}
      /\ DOMAIN loads \subseteq Roles
    BY <1>1, <1>3, LoadFacts DEF IInv, Loadable
<1>5. TypeOK /\ Sound(file) /\ OwnAt(s) /\ ShareInv /\ ContextInv
    BY <1>3, FileSound DEF IInv, OwnInv
<1>6. loads[q] \in SessionFields \/ loads[q] = "file_cb" \/ loads[q] = "file_ctx"
    BY <1>4, <1>5 DEF Sound, Reg, FileFields
<1>7. /\ "file_cb" \notin SessionFields /\ "file_ctx" \notin SessionFields
      /\ "file_cb" \in FileFields /\ "file_ctx" \in FileFields
      /\ SessionFields \cap FileFields = {}
    BY DEF SessionFields, FileFields
<1> DEFINE v == mem[Cell(loads[q], s)]
<1>8. v \in Sessions \cup {Nobody}
  <2>1. Cell(loads[q], s) \in Cells
      BY <1>3, <1>6, <1>7 DEF Cell, Cells
  <2> QED  BY <1>5, <2>1 DEF TypeOK
<1>9. /\ poll.steady => IF loads[q] = "file_cb" THEN MayAnswer(v, s) ELSE v = s
      /\ poll.own => v = s
  <2>0. /\ poll.own => poll.steady /\ s \notin replaced
        /\ poll.steady => Settled(s)
      BY <1>1 DEF IInv, PollInv
  <2> SUFFICES ASSUME poll.steady
               PROVE  /\ IF loads[q] = "file_cb" THEN MayAnswer(v, s) ELSE v = s
                      /\ s \notin replaced => v = s
      BY <2>0
  <2>1. phase[s] = "in" /\ s \notin disturbed
      BY <2>0 DEF Settled
  <2>2. s \in users
      BY <1>3, <2>1 DEF IInv, CallInv
  <2>3. CASE loads[q] \in SessionFields
      BY <1>4, <1>5, <1>7, <2>1, <2>3 DEF OwnAt, Own, Cell
  <2>4. CASE loads[q] = "file_cb"
    <3>1. "file_cb" \in Reg.register /\ Stored("file_cb", s) /\ ShareAt(s)
        BY <1>4, <1>5, <2>1, <2>2, <2>4 DEF ShareInv, Stored
    <3>2. PICK w \in Sessions : /\ mem[<< "file_cb", Nobody >>] = w
                                /\ Stored("file_cb", w)
                                /\ s \notin replaced => w = s
        BY <3>1 DEF ShareAt
    <3>3. v = w
        BY <1>7, <2>4, <3>2 DEF Cell
    <3> QED  BY <2>4, <3>1, <3>2, <3>3 DEF MayAnswer, SharesCallback
  <2>5. CASE loads[q] = "file_ctx"
      BY <1>4, <1>5, <1>7, <2>1, <2>2, <2>5 DEF ShareInv, ShareAt, Stored, Cell
  <2> QED  BY <1>6, <2>3, <2>4, <2>5
<1>10. poll.gone /\ loads[q] \in Own(Reg.unregister) => v = Nobody
  <2> SUFFICES ASSUME poll.gone, loads[q] \in Own(Reg.unregister) PROVE v = Nobody
      OBVIOUS
  <2>1. phase[s] = "out"
      BY <1>1 DEF IInv, PollInv
  <2>2. v = mem[<< loads[q], s >>]
      BY <1>7 DEF Cell, Own
  <2> QED  BY <1>4, <1>5, <2>1, <2>2 DEF OwnAt
<1>11. poll.gone /\ loads[q] = "file_ctx" => v # s
  <2> SUFFICES ASSUME poll.gone, loads[q] = "file_ctx" PROVE v # s
      OBVIOUS
  <2>1. phase[s] = "out"
      BY <1>1 DEF IInv, PollInv
  <2>2. v = mem[<< "file_ctx", Nobody >>]
      BY <1>7 DEF Cell
  <2> QED  BY <1>3, <1>5, <2>1, <2>2 DEF ContextInv
<1>12. /\ poll'.stage = "reading" /\ poll'.event = poll.event
       /\ poll'.session = s /\ poll'.left = poll.left \ {q}
       /\ poll'.steady = poll.steady /\ poll'.gone = poll.gone /\ poll'.own = poll.own
       /\ poll'.got = [ poll.got EXCEPT ![q] = v ]
    BY <1>1, <1>2 DEF Runs
<1>13. poll.got \in [ Roles -> Sessions \cup {Nobody} ]
    BY <1>2 DEF Runs
<1> HIDE DEF v
<1>14. poll'.got[q] = v /\ \A r \in Roles \ {q} : poll'.got[r] = poll.got[r]
    BY <1>4, <1>12, <1>13
<1>15. poll' \in Runs
  <2>1. [ poll.got EXCEPT ![q] = v ] \in [ Roles -> Sessions \cup {Nobody} ]
      BY <1>4, <1>8, <1>13
  <2> QED  BY <1>1, <1>2, <2>1 DEF Runs, v
<1>16. /\ Reg' = Reg /\ Events' = Events /\ SharesCallback' = SharesCallback
       /\ Loads(poll.event)' = loads
  <2>1. Reg' = Reg /\ Events' = Events /\ SharesCallback' = SharesCallback
      BY <1>1 DEF Reg, Events, SharesCallback
  <2>2. Msg' = Msg /\ poll'.event = poll.event
      BY <1>1, <1>12 DEF Msg
  <2>3. Loads(poll.event)' = loads
      BY <2>2 DEF Loads
  <2> QED  BY <2>1, <2>3
<1>17. ReadingInv'
  <2>1. \A r \in Roles \ DOMAIN loads : poll'.got[r] = s
      BY <1>2, <1>4, <1>14 DEF ReadingInv
  <2>2. \A r \in DOMAIN loads \ poll'.left :
            /\ poll.steady => IF loads[r] = "file_cb" THEN MayAnswer(poll'.got[r], s)
                                                      ELSE poll'.got[r] = s
            /\ poll.own => poll'.got[r] = s
            /\ poll.gone /\ loads[r] \in Own(Reg.unregister) => poll'.got[r] = Nobody
            /\ poll.gone /\ loads[r] = "file_ctx" => poll'.got[r] # s
      BY <1>2, <1>4, <1>9, <1>10, <1>11, <1>12, <1>14 DEF ReadingInv
  <2>3. \A r \in DOMAIN loads : MayAnswer(poll'.got[r], s) => MayAnswer(poll.got[r], poll.session)'
      BY <1>1, <1>12, <1>16 DEF MayAnswer, Stored, Cell
  <2> HIDE DEF loads
  <2> QED  BY <1>1, <1>2, <1>3, <1>12, <1>16, <2>1, <2>2, <2>3 DEF ReadingInv, loads
<1>18. PollInv'
  <2>1. /\ poll.steady => Settled(s)
        /\ poll.own => poll.steady /\ s \notin replaced
        /\ poll.gone => phase[s] = "out"
      BY <1>1 DEF IInv, PollInv
  <2>2. /\ poll'.steady => Settled(poll.session)'
        /\ poll'.own => poll'.steady /\ poll'.session \notin replaced'
        /\ poll'.gone => phase'[poll'.session] = "out"
      BY <1>1, <1>12, <2>1 DEF Settled
  <2> QED  BY <1>3, <1>12, <1>15, <1>17, <2>2 DEF PollInv
<1> QED  BY <1>1, <1>18, PollStep

\* What was loaded decides who is called.
LEMMA DeliverInv ==
    ASSUME IInv, Deliver
    PROVE  IInv'
<1> DEFINE s == poll.session
           loads == Loads(poll.event)
           got == poll.got
           called == \A r \in Checked(poll.event) : got[r] # Nobody
<1>1. /\ poll.stage = "reading" /\ poll.left = {}
      /\ poll' = [ poll EXCEPT !.stage = "done", !.got = Idle.got,
             !.by = IF called THEN got["callback"] ELSE Nobody,
             !.call =
                IF called
                THEN IF got["context"] = Nobody THEN "NULL" ELSE got["context"]
                ELSE IF poll.event = "packet" /\ file \in Dynamic
                             /\ got["context"] # Nobody
                     THEN "stack" ELSE "none" ]
      /\ UNCHANGED << file, users, mem, table, phase, todo, disturbed, replaced, left_out >>
    BY DEF Deliver
<1>2. poll \in Runs /\ ReadingInv
    BY <1>1 DEF IInv, PollInv
<1>3. /\ s \in Sessions /\ poll.event \in Events
      /\ poll.gone /\ poll.event = "answer" => "core" \notin Reg.unregister
      /\ \A r \in Roles \ DOMAIN loads : got[r] = s
      /\ \A r \in DOMAIN loads :
          /\ poll.steady => IF loads[r] = "file_cb" THEN MayAnswer(got[r], s)
                                                    ELSE got[r] = s
          /\ poll.own => got[r] = s
          /\ poll.gone /\ loads[r] \in Own(Reg.unregister) => got[r] = Nobody
          /\ poll.gone /\ loads[r] = "file_ctx" => got[r] # s
    BY <1>1, <1>2 DEF IInv, PollInv, ReadingInv
<1>4. /\ DOMAIN loads \subseteq Roles /\ Checked(poll.event) \subseteq Roles
      /\ \A r \in DOMAIN loads : loads[r] = "file_cb" => r = "callback"
      /\ poll.event # "answer" => Tells(loads, "context", Reg)
      /\ poll.event = "packet" => loads["context"] = "ndev"
    BY <1>3, LoadFacts DEF IInv, Loadable
<1>5. got \in [ Roles -> Sessions \cup {Nobody} ]
      /\ "context" \in Roles /\ "callback" \in Roles
    BY <1>2 DEF Runs, Roles
<1>6. got["context"] \in Sessions \cup {Nobody} /\ got["callback"] \in Sessions \cup {Nobody}
    BY <1>5
<1> HIDE DEF called, got, loads
<1>7. /\ poll'.stage = "done" /\ poll'.session = s /\ poll'.event = poll.event
      /\ poll'.steady = poll.steady /\ poll'.gone = poll.gone /\ poll'.own = poll.own
      /\ poll'.left = {} /\ poll'.got = Idle.got
      /\ poll'.by = IF called THEN got["callback"] ELSE Nobody
      /\ poll'.call = IF called
                      THEN IF got["context"] = Nobody THEN "NULL" ELSE got["context"]
                      ELSE IF poll.event = "packet" /\ file \in Dynamic
                                   /\ got["context"] # Nobody
                           THEN "stack" ELSE "none"
    BY <1>1, <1>2 DEF Runs
<1>8. poll' \in Runs
  <2>1. poll'.call \in {"none", "stack", "NULL"} \cup Sessions
        /\ poll'.by \in Sessions \cup {Nobody}
      BY <1>6, <1>7
  <2>2. Idle.got \in [ Roles -> Sessions \cup {Nobody} ]
      BY DEF Idle
  <2> QED  BY <1>1, <1>2, <1>7, <2>1, <2>2 DEF Runs
<1>9. /\ poll.steady => poll'.call = s /\ MayAnswer(poll'.by, s)
      /\ poll.own => poll'.by = s
  <2>0. poll.own => poll.steady
      BY <1>1 DEF IInv, PollInv
  <2> SUFFICES ASSUME poll.steady
               PROVE  /\ poll'.call = s /\ MayAnswer(poll'.by, s)
                      /\ poll.own => poll'.by = s
      BY <2>0
  <2>1. \A r \in Roles : got[r] # Nobody
      BY <1>3, <1>4, NobodyAssumption DEF MayAnswer
  <2>2. got["context"] = s
      BY <1>3, <1>4, <1>5
  <2>3. called
      BY <1>4, <2>1 DEF called
  <2>4. MayAnswer(got["callback"], s) /\ (poll.own => got["callback"] = s)
      BY <1>3, <1>5 DEF MayAnswer
  <2> QED  BY <1>3, <1>7, <2>2, <2>3, <2>4, NobodyAssumption
<1>10. ASSUME poll.gone, ~ (poll.event = "answer" /\ file \in AnswersOutlive)
       PROVE  poll'.call \notin {s, "stack"}
  <2>0. s # "NULL" /\ s # "none" /\ \A t \in Sessions : t # "stack"
      BY <1>3, OutcomeAssumption
  <2>1. CASE got["context"] = Nobody
      BY <1>7, <2>0, <2>1
  <2>2. CASE poll.event # "packet" /\ got["context"] # s
      BY <1>6, <1>7, <2>0, <2>2
  <2>3. CASE poll.event # "packet" /\ ~ called
      BY <1>7, <2>0, <2>3
  <2>4. CASE poll.event # "answer"
    <3>1. "context" \in DOMAIN loads
          /\ loads["context"] \in Own(Reg.unregister) \cup {"file_ctx"}
        BY <1>4, <2>4 DEF Tells
    <3>2. poll.event = "packet" => loads["context"] # "file_ctx"
        BY <1>4
    <3> QED  BY <1>3, <1>10, <2>1, <2>2, <3>1, <3>2
  <2>5. CASE poll.event = "answer"
    <3>1. file # "ipsec_data" /\ loads = Msg.answer
        BY <1>3, <2>5 DEF Events, Loads, loads
    <3>2. \/ Tells(loads, "context", Reg)
          \/ /\ Tells(loads, "guard", Reg) /\ loads["guard"] # "file_ctx"
             /\ "guard" \in Msg.checked
      <4>1. Sound(file)
          BY FileSound DEF IInv
      <4> QED  BY <1>3, <1>10, <2>5, <3>1, <4>1 DEF Sound, Reg, Msg
    <3>3. CASE Tells(loads, "context", Reg)
        BY <1>3, <1>10, <2>1, <2>2, <2>5, <3>3 DEF Tells
    <3>4. CASE /\ Tells(loads, "guard", Reg) /\ loads["guard"] # "file_ctx"
               /\ "guard" \in Msg.checked
      <4>1. got["guard"] = Nobody
          BY <1>3, <1>10, <3>4 DEF Tells
      <4>2. "guard" \in Checked(poll.event)
          BY <2>5, <3>4 DEF Checked
      <4>3. ~ called
          BY <4>1, <4>2 DEF called
      <4> QED  BY <2>3, <2>5, <4>3
    <3> QED  BY <3>2, <3>3, <3>4
  <2> QED  BY <2>4, <2>5
<1>11. DoneInv'
  <2>1. MayAnswer(poll'.by, s) => MayAnswer(poll.by, poll.session)'
    <3>1. SharesCallback' = SharesCallback
        BY <1>1 DEF SharesCallback, Reg
    <3> QED  BY <1>1, <1>7, <3>1 DEF MayAnswer, Stored, Cell
  <2>2. SilentWhenGone'
      BY <1>1, <1>7, <1>10 DEF SilentWhenGone
  <2> QED  BY <1>7, <1>9, <2>1, <2>2 DEF DoneInv
<1>12. PollInv'
  <2>1. /\ poll.steady => Settled(s)
        /\ poll.own => poll.steady /\ s \notin replaced
        /\ poll.gone => phase[s] = "out"
      BY <1>1 DEF IInv, PollInv
  <2>2. /\ poll'.steady => Settled(poll.session)'
        /\ poll'.own => poll'.steady /\ poll'.session \notin replaced'
        /\ poll'.gone => phase'[poll'.session] = "out"
      BY <1>1, <1>7, <2>1 DEF Settled
  <2> QED  BY <1>3, <1>7, <1>8, <1>11, <2>2 DEF PollInv
<1> QED  BY <1>1, <1>12, PollStep

LEMMA ReturnInv ==
    ASSUME IInv, Return
    PROVE  IInv'
<1>1. /\ poll' = Idle
      /\ UNCHANGED << file, users, mem, table, phase, todo, disturbed, replaced, left_out >>
    BY DEF Return
<1>2. Idle \in Runs /\ Idle.stage = "idle"
    BY DEF Idle, Runs, Roles
<1>3. PollInv'
    BY <1>1, <1>2 DEF PollInv
<1> QED  BY <1>1, <1>3, PollStep

LEMMA NextInv == IInv /\ [Next]_vars => IInv'
<1> SUFFICES ASSUME IInv, [Next]_vars PROVE IInv'
    OBVIOUS
<1>1. ASSUME NEW s \in Sessions,
             \/ Register(s) \/ RegisterRefused(s) \/ Unregister(s)
             \/ TablePass(s) \/ Store(s)
      PROVE  IInv'
    BY <1>1, RegisterInv, RefusedInv, UnregisterInv, PassInv, StoreInv
<1>2. ASSUME NEW s \in Sessions,
             \/ \E event \in {"notify", "answer"} : MessageArrives(event, s)
             \/ \E event \in {"packet", "ext_packet"} : PacketArrives(event, s)
      PROVE  IInv'
    BY <1>2, MessageInv, PacketInv
<1>3. CASE Load \/ Deliver \/ Return
    BY <1>3, LoadInv, DeliverInv, ReturnInv
<1>4. CASE UNCHANGED vars
  <2>1. UNCHANGED << file, users, mem, table, phase, todo, disturbed, replaced,
                     left_out, poll >>
      BY <1>4 DEF vars
  <2>2. PollInv'
      BY <2>1, PollUntouched DEF Settled, Stored
  <2> QED  BY <2>1, <2>2, PollStep
<1> QED  BY <1>1, <1>2, <1>3, <1>4 DEF Next

(***************************************************************************)
(* What it implies.                                                        *)
(***************************************************************************)

LEMMA Invariance == Spec => []IInv
  BY InitInv, NextInv, PTL DEF Spec

\* nss_dtls_register_if(), nss_register_l2tpv2_if() and the others keep the
\* state well typed, and the table of statistics has one entry of each registered
\* session that it was not full for, and of nobody else, but for
\* nss_unregister_pptp_if() and the registrations nss_dtls_register_if() refuses.
THEOREM SlotsKept == Spec => []WellFormed
<1>1. IInv => WellFormed
  <2> SUFFICES ASSUME IInv PROVE KeepsSlot
      BY DEF IInv, WellFormed
  <2> QED  BY DEF IInv, TableInv, TableAt, Kept, Without, KeepsSlot
<1> QED  BY <1>1, Invariance, PTL

\* The handlers called by nss_core_handle_nss_status_pkt(), and
\* nss_core_handle_buffer_pkt(), hand what comes for a registered session, that
\* no other session has disturbed, on with its own context: to its own callback,
\* or to that of another registered session which has replaced the file's.
THEOREM CallsBack == Spec => []Heard
<1>1. IInv => Heard
  <2> SUFFICES ASSUME IInv, poll.stage = "done", poll.steady
               PROVE  /\ poll.call = poll.session
                      /\ poll.own => poll.by = poll.session
                      /\ poll.by # Nobody /\ phase[poll.by] \in {"registering", "in"}
      BY DEF Heard
  <2>1. DoneInv /\ Settled(poll.session) /\ poll.session \in Sessions
      BY DEF IInv, PollInv
  <2>2. poll.by \in Sessions /\ phase[poll.by] \in {"registering", "in"}
      BY <2>1 DEF DoneInv, MayAnswer, Stored, Settled
  <2> QED  BY <2>1, <2>2, NobodyAssumption DEF DoneInv
<1> QED  BY <1>1, Invariance, PTL

\* They call nobody for a session that has unregistered before, nor do they
\* give its packets to the network stack, but for late answers in nss_oam.c,
\* nss_ipsec.c and nss_crypto.c.
THEOREM CallsNoMore == Spec => []SilentWhenGone
<1>1. IInv => SilentWhenGone
    BY DEF IInv, PollInv, DoneInv, SilentWhenGone
<1> QED  BY <1>1, Invariance, PTL
=============================================================================
