----------------------------- MODULE StatsFiles -----------------------------
(***************************************************************************)
(* Reading the statistics in debugfs (nss_stats.c) while the poll adds to  *)
(* them.                                                                   *)
(*                                                                         *)
(* The files of module StatsText are made anew by each read: section after *)
(* section is copied to a shadow buffer under the lock of the counters,    *)
(* and printed from there with no lock held.  The first and the last       *)
(* counter stand for all of a section; a counter is represented by the     *)
(* number of updates it has seen, a string by its place in the text.       *)
(* Several readers read the same file (bound): two files share no counters *)
(* and no buffers.                                                         *)
(*                                                                         *)
(* The files of interfaces (capwap, gre_redir, wifi_if, virt_if,           *)
(* tx_rx_virt_if) are written line by line to the caller's buffer until it *)
(* is full; the open file keeps the number of the interface to go on with. *)
(* The two kinds share nothing: they are not read at the same time, and    *)
(* there are no interfaces while a file in one piece is read (bound).      *)
(*                                                                         *)
(* The specification's own names begin with Stats: PollSharing_proofs      *)
(* extends this module together with ShaperBounce.                         *)
(***************************************************************************)
EXTENDS StatsText, Integers, FiniteSets

CONSTANTS
    Readers,     \* processes that have a file open
    MaxSync,     \* bound: updates of a file's counters while it is read
    MaxIf,       \* bound: interfaces are numbered 1 .. MaxIf
    Room,        \* lines that fit into the buffer of one read()
    Null

ASSUME SyncAssumption == MaxSync \in Nat
ASSUME IfAssumption == MaxIf \in Nat
ASSUME NullAssumption == Null \notin Readers
\* An interface with its 7 counters, first and last line, fits.
ASSUME RoomAssumption == Room \in Nat /\ Room >= 9

VARIABLES
    now,       \* updates of the file that is read, so far
    holder,    \* who holds the lock of its counters
    text,      \* what each reader is at, in a file made in one piece
    shadow,    \* stats_shadow_pppoe_except[]
    inst,      \* the interfaces of the file of interfaces that is read
    page       \* the reader of a file of interfaces

statsVars == << now, holder, text, shadow, inst, page >>
texts == << now, holder, text, shadow >>
pages == << inst, page >>

Version == 0 .. MaxSync

\* A row of the files of interfaces: the counters of an interface, whether a
\* last line follows them, and whether they are read one by one.
PagedFiles ==
    [capwap_encap |-> [lines |-> 11, trailer |-> FALSE, live |-> FALSE],
     capwap_decap |-> [lines |-> 13, trailer |-> FALSE, live |-> FALSE],
     gre_redir |-> [lines |-> 6, trailer |-> FALSE, live |-> FALSE],
     wifi_if |-> [lines |-> 7, trailer |-> TRUE, live |-> TRUE],
     virt_if |-> [lines |-> 7, trailer |-> TRUE, live |-> TRUE],
     tx_rx_virt_if |-> [lines |-> 7, trailer |-> TRUE, live |-> TRUE]]

StatsTypeOK ==
    /\ now \in Version
    /\ holder \in Readers \cup {Null}
    /\ \A r \in Readers : text[r] # Null =>
        /\ text[r].file \in DOMAIN TextFiles
        /\ text[r].sec \in DOMAIN TextFiles[text[r].file].sections
        /\ text[r].sh \in Version \X Version /\ text[r].out \in Version \X Version
    /\ shadow \in Version \X Version
    /\ inst \in [1 .. MaxIf -> {"none", "typed", "live"}]
    /\ page # Null => page.pos \in 1 .. MaxIf + 1 /\ page.used \in 0 .. Room

StatsInit ==
    /\ now = 0
    /\ holder = Null
    /\ text = [r \in Readers |-> Null]
    /\ shadow = << 0, 0 >>
    /\ inst = [i \in 1 .. MaxIf |-> "none"]
    /\ page = Null

(***************************************************************************)
(* Files made in one piece.                                                *)
(***************************************************************************)

Row(r) == TextFiles[text[r].file]
Sec(r) == Row(r).sections[text[r].sec]

\* open() and the start of a read(): buffers, and the first string.
nss_stats_open(r, f) ==
    /\ text[r] = Null
    /\ page = Null /\ \A i \in 1 .. MaxIf : inst[i] = "none"
    /\ \A q \in Readers : text[q] # Null => text[q].file = f
    /\ text' = [text EXCEPT ![r] = [file |-> f, sec |-> 1, at |-> "copy",
                                    sh |-> << 0, 0 >>, out |-> << 0, 0 >>,
                                    items |-> 1, pieces |-> 1]]
    /\ UNCHANGED << now, holder, shadow, pages >>

\* The counters are as good as new when nobody reads them.
Rebased(r) == IF \A q \in Readers \ {r} : text[q] = Null THEN 0 ELSE now

\* No memory for the buffers: the file seems to be empty.
NoMemory(r) ==
    /\ text[r] # Null
    /\ text[r].sec = 1 /\ text[r].at = "copy"
    /\ text' = [text EXCEPT ![r] = Null]
    /\ now' = Rebased(r)
    /\ UNCHANGED << holder, shadow, pages >>

\* Half k of a copy goes to the reader's own shadow, or to the global one.
CopyHalf(r, k) ==
    shadow' = IF Sec(r).global THEN [shadow EXCEPT ![k] = now]
              ELSE shadow

OwnHalf(r, k) ==
    IF Sec(r).global THEN text[r].sh
    ELSE [text[r].sh EXCEPT ![k] = now]

\* Mutant of Locked: the lock is given up between the halves.
Locked_Briefly(r) == UNCHANGED holder

Locked(r) ==
    IF Row(r).lock = "none" THEN UNCHANGED holder
    ELSE holder = Null /\ holder' = r

\* spin_lock_bh(), and the first half.  The number of valid sessions is found
\* with their counters.
CopyFirst(r) ==
    /\ text[r] # Null
    /\ text[r].at = "copy"
    /\ Locked(r)
    /\ CopyHalf(r, 1)
    /\ \E n \in IF Row(r).items = 1 THEN {1} ELSE {0, Row(r).items} :
        text' = [text EXCEPT ![r].at = "copying", ![r].items = n,
                             ![r].sh = OwnHalf(r, 1)]
    /\ UNCHANGED << now, pages >>

\* The second half, and spin_unlock_bh().
CopyLast(r) ==
    /\ text[r] # Null
    /\ text[r].at = "copying"
    /\ CopyHalf(r, 2)
    /\ text' = [text EXCEPT ![r].at = "print", ![r].sh = OwnHalf(r, 2)]
    /\ holder' = IF holder = r THEN Null ELSE holder
    /\ UNCHANGED << now, pages >>

Source(r) == IF Sec(r).global THEN shadow ELSE text[r].sh

PrintFirst(r) ==
    /\ text[r] # Null
    /\ text[r].at = "print"
    /\ text' = [text EXCEPT ![r].at = "printing", ![r].out[1] = Source(r)[1]]
    /\ UNCHANGED << now, holder, shadow, pages >>

PrintLast(r) ==
    /\ text[r] # Null
    /\ text[r].at = "printing"
    /\ text' = [text EXCEPT ![r].at = "printed", ![r].out[2] = Source(r)[2],
                            ![r].sh = << 0, 0 >>,
                            ![r].pieces = @ + text[r].items * (Sec(r).heads + Sec(r).n)]
    /\ UNCHANGED << now, holder, shadow, pages >>

LastSection(r) == text[r].sec = Len(Row(r).sections)

\* The next section, or the last string; nss_stats_release().
NextSection(r) ==
    /\ text[r] # Null
    /\ text[r].at = "printed"
    /\ IF ~ LastSection(r)
       THEN /\ text' = [text EXCEPT ![r].sec = @ + 1, ![r].at = "copy",
                                    ![r].out = << 0, 0 >>]
            /\ UNCHANGED now
       ELSE /\ text' = [text EXCEPT ![r] = Null]
            /\ now' = Rebased(r)
    /\ UNCHANGED << holder, shadow, pages >>

\* A message from the NSS adds to counters of a file, under their lock.
Sync(f) ==
    /\ \E r \in Readers : text[r] # Null /\ text[r].file = f
    /\ holder = Null
    /\ now < MaxSync
    /\ now' = now + 1
    /\ UNCHANGED << holder, text, shadow, pages >>

nss_ipv4_driver_conn_sync_update == Sync("ipv4")
nss_ipv4_driver_node_sync_update == Sync("ipv4")
nss_ipv6_driver_conn_sync_update == Sync("ipv6")
nss_ipv6_driver_node_sync_update == Sync("ipv6")
nss_ipv4_reasm_stats_sync == Sync("ipv4_reasm")
nss_ipv6_reasm_stats_sync == Sync("ipv6_reasm")
nss_eth_rx_metadata_stats_sync == Sync("eth_rx")
nss_n2h_stats_sync == Sync("n2h")
nss_rx_lso_rx_stats_sync == Sync("lso_rx")
nss_pkt_stats_increment == Sync("drv")
nss_pppoe_node_stats_sync == Sync("pppoe")
nss_pppoe_exception_stats_sync == Sync("pppoe")
nss_pppoe_session_reset == Sync("pppoe")
nss_phys_if_update_driver_stats == Sync("gmac")
nss_wifi_stats_sync == Sync("wifi")
nss_dtls_session_stats_sync == Sync("dtls")
nss_l2tpv2_session_debug_stats_sync == Sync("l2tpv2")
nss_map_t_instance_debug_stats_sync == Sync("map_t")
nss_pptp_session_debug_stats_sync == Sync("pptp")
nss_sjack_node_sync_update == Sync("sjack")
nss_portid_sync_update == Sync("portid")

(***************************************************************************)
(* Files of interfaces.  Those whose handle is gone are "typed" only: their*)
(* number still has the type that the file looks for.                      *)
(***************************************************************************)

Paged == PagedFiles[page.file]

Live == {i \in 1 .. MaxIf : inst[i] = "live"}

\* open(): private data with the first number.  `due` and `partial` are the
\* interfaces there ever since that have not been shown, or not wholly.
nss_stats_open_page(f) ==
    /\ page = Null
    /\ \A r \in Readers : text[r] = Null
    /\ page' = [file |-> f, pos |-> 1, at |-> "next", line |-> 0, used |-> 0,
                due |-> Live, partial |-> Live]
    /\ UNCHANGED << texts, inst >>

PageAt(at) == page # Null /\ page.at = at

\* What the file shows: nss_dynamic_interface_get_type() for the files that
\* read counters one by one, a tunnel's counters for the others.
Shown(i) == inst[i] = "live" \/ (Paged.live /\ inst[i] = "typed")

HasRoom == page.used < Room

\* Mutant of FirstLineFull: the interface is passed over.
FirstLineFull_Skips ==
    /\ PageAt("next") /\ page.pos <= MaxIf /\ Shown(page.pos)
    /\ ~ HasRoom
    /\ page' = [page EXCEPT !.at = "end", !.pos = @ + 1]
    /\ UNCHANGED << texts, inst >>

FirstLineFull ==
    /\ PageAt("next") /\ page.pos <= MaxIf /\ Shown(page.pos)
    /\ ~ HasRoom
    /\ page' = [page EXCEPT !.at = "end"]
    /\ UNCHANGED << texts, inst >>

FirstLine ==
    /\ PageAt("next") /\ page.pos <= MaxIf /\ Shown(page.pos)
    /\ HasRoom
    /\ page' = [page EXCEPT !.at = "lines", !.line = 0, !.used = @ + 1,
                            !.due = @ \ {page.pos}]
    /\ UNCHANGED << texts, inst >>

NotShown ==
    /\ PageAt("next") /\ page.pos <= MaxIf /\ ~ Shown(page.pos)
    /\ page' = [page EXCEPT !.pos = @ + 1]
    /\ UNCHANGED << texts, inst >>

\* nss_*_copy_stats() finds no handle, and no line is left for it.
MoreLines ==
    /\ page.line < Paged.lines
    /\ Paged.live => inst[page.pos] = "live"

CounterLine ==
    /\ PageAt("lines") /\ MoreLines /\ HasRoom
    /\ page' = [page EXCEPT !.line = @ + 1, !.used = @ + 1]
    /\ UNCHANGED << texts, inst >>

Unfinished ==
    IF page.line = Paged.lines THEN page.partial \ {page.pos} ELSE page.partial

\* No last line: on to the next interface, wherever this one's lines ended.
nss_stats_capwap_read ==
    /\ PageAt("lines") /\ ~ (MoreLines /\ HasRoom) /\ ~ Paged.trailer
    /\ page' = [page EXCEPT !.at = "next", !.pos = @ + 1, !.partial = Unfinished]
    /\ UNCHANGED << texts, inst >>

\* Mutant of TrailerFits: one line too many is asked for.
TrailerFits_Strict == page.used + 1 < Room

TrailerFits == page.used + 1 <= Room

\* With the last line the interface is done; without room for it, it will be
\* repeated from its first line.
nss_stats_wifi_if_read ==
    /\ PageAt("lines") /\ ~ (MoreLines /\ HasRoom) /\ Paged.trailer
    /\ page' = IF TrailerFits
               THEN [page EXCEPT !.at = "next", !.pos = @ + 1, !.used = @ + 1,
                                 !.partial = Unfinished]
               ELSE [page EXCEPT !.at = "end"]
    /\ UNCHANGED << texts, inst >>

\* read() returns; a reader who got nothing takes it for the end.
ReadReturns ==
    /\ PageAt("end") \/ (PageAt("next") /\ page.pos > MaxIf)
    /\ page' = [page EXCEPT !.at = IF page.used = 0 THEN "eof" ELSE "next",
                            !.used = 0]
    /\ UNCHANGED << texts, inst >>

\* copy_to_user() fails: the reader gives up.  nss_stats_release().
ReadFails ==
    /\ PageAt("next") \/ PageAt("lines")
    /\ page' = Null
    /\ UNCHANGED << texts, inst >>

nss_stats_release ==
    /\ PageAt("eof")
    /\ page' = Null
    /\ UNCHANGED << texts, inst >>

\* Interfaces come and go while the file is read.
InterfaceChanges(i, s) ==
    /\ \A r \in Readers : text[r] = Null
    /\ s # inst[i]
    /\ inst' = [inst EXCEPT ![i] = s]
    /\ page' = IF page = Null THEN Null ELSE [page EXCEPT !.due = @ \ {i}, !.partial = @ \ {i}]
    /\ UNCHANGED texts

TextStep(r) ==
    NoMemory(r) \/ CopyFirst(r) \/ CopyLast(r) \/ PrintFirst(r) \/ PrintLast(r)
    \/ NextSection(r)

PageStep ==
    FirstLineFull \/ FirstLine \/ NotShown \/ CounterLine
    \/ nss_stats_capwap_read \/ nss_stats_wifi_if_read \/ ReadReturns
    \/ ReadFails \/ nss_stats_release

Syncs ==
    \/ nss_ipv4_driver_conn_sync_update \/ nss_ipv4_driver_node_sync_update
    \/ nss_ipv6_driver_conn_sync_update \/ nss_ipv6_driver_node_sync_update
    \/ nss_ipv4_reasm_stats_sync \/ nss_ipv6_reasm_stats_sync
    \/ nss_eth_rx_metadata_stats_sync \/ nss_n2h_stats_sync
    \/ nss_rx_lso_rx_stats_sync \/ nss_pkt_stats_increment
    \/ nss_pppoe_node_stats_sync \/ nss_pppoe_exception_stats_sync
    \/ nss_pppoe_session_reset \/ nss_phys_if_update_driver_stats
    \/ nss_wifi_stats_sync \/ nss_dtls_session_stats_sync
    \/ nss_l2tpv2_session_debug_stats_sync
    \/ nss_map_t_instance_debug_stats_sync
    \/ nss_pptp_session_debug_stats_sync \/ nss_sjack_node_sync_update
    \/ nss_portid_sync_update

StatsNext ==
    \/ \E r \in Readers : (\E f \in DOMAIN TextFiles : nss_stats_open(r, f)) \/ TextStep(r)
    \/ Syncs
    \/ \E f \in DOMAIN PagedFiles : nss_stats_open_page(f)
    \/ PageStep
    \/ \E i \in 1 .. MaxIf, s \in {"none", "typed", "live"} : InterfaceChanges(i, s)

StatsSpec == StatsInit /\ [][StatsNext]_statsVars

\* A process that reads goes on reading.
StatsFairSpec == StatsSpec /\ WF_statsVars(PageStep)

(***************************************************************************)
(* Properties.                                                             *)
(***************************************************************************)

\* The counters that a reader prints under one heading belong to one moment,
\* although they are printed with no lock held, and whatever else is read.
\* Not so the driver's own (no lock), nor the exceptions of PPPoE: two
\* readers copy them to the same global array.
OneMoment ==
    \A r \in Readers :
        text[r] # Null /\ text[r].at = "printed" =>
            \/ text[r].out[1] = text[r].out[2]
            \/ Row(r).lock = "none"
            \/ Sec(r).global

\* kmalloc() gives a cache line at least: 64 bytes, 8 counters.
KMALLOC_MIN_COUNTERS == 8

ShadowSize(r) ==
    IF Sec(r).global
    THEN NSS_PPPOE_NUM_SESSION_PER_INTERFACE * NSS_PPPOE_EXCEPTION_EVENT_MAX
    ELSE IF Row(r).shadow < KMALLOC_MIN_COUNTERS THEN KMALLOC_MIN_COUNTERS
    ELSE Row(r).shadow

\* "WARNING: There is a 1:1 mapping between values below and corresponding
\* stats string array": every counter printed has a name; no section is
\* longer than the memory it is copied to; the text that has been printed,
\* with the last string, is not cut off.
TextFits ==
    \A r \in Readers :
        text[r] # Null /\ text[r].at = "printed" =>
            /\ Sec(r).each = Sec(r).names
            /\ Sec(r).from + Sec(r).n <= ShadowSize(r)
            /\ text[r].pieces + 1 <= Row(r).lines

\* The state is well typed, and what is printed fits where it is put.
StatsWellFormed == StatsTypeOK /\ TextFits

\* Who reads a file of interfaces until nothing is returned has seen each
\* interface that was there all the time, and all its counters in the files
\* that repeat an interface whose last line did not fit.
NoneMissed ==
    PageAt("eof") =>
        /\ page.due = {}
        /\ Paged.trailer => page.partial = {}

\* Reading comes to an end, also while interfaces come and go: each read()
\* gets past one interface at least.
ReadingEnds == page # Null ~> page = Null
=============================================================================
