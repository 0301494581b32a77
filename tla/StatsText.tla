----------------------------- MODULE StatsText -----------------------------
(***************************************************************************)
(* The layout of the debugfs files of nss_stats.c that are made in one     *)
(* piece: how many counters there are (the enumerations), how many have a  *)
(* name (the tables), and for each file the sections it prints, the shadow *)
(* buffer that a section is copied to, and the text buffer.                *)
(*                                                                         *)
(* The text buffer has room for a number of strings of 96 bytes; no name   *)
(* is longer than 43, so that the room is counted in printed strings.      *)
(***************************************************************************)
EXTENDS Naturals, Sequences

NSS_MAX_PHYSICAL_INTERFACES == 4
NSS_MAX_WIFI_RADIO_INTERFACES == 3
NSS_PPPOE_NUM_SESSION_PER_INTERFACE == 4
NSS_MAX_DTLS_SESSIONS == 8
NSS_MAX_L2TPV2_DYNAMIC_INTERFACES == 4
NSS_MAX_MAP_T_DYNAMIC_INTERFACES == 4
NSS_MAX_PPTP_DYNAMIC_INTERFACES == 4

(***************************************************************************)
(* Counters.                                                               *)
(***************************************************************************)
NSS_STATS_NODE_MAX == 5
NSS_STATS_IPV4_MAX == 20
NSS_STATS_IPV4_REASM_MAX == 3
NSS_STATS_IPV6_MAX == 21
NSS_STATS_IPV6_REASM_MAX == 3
NSS_STATS_DRV_MAX == 24
NSS_STATS_PPPOE_MAX == 4
NSS_STATS_GMAC_MAX == 3
NSS_STATS_ETH_RX_MAX == 3
NSS_STATS_N2H_MAX == NSS_STATS_NODE_MAX + 22
NSS_STATS_LSO_RX_MAX == 4
NSS_STATS_WIFI_MAX == 16 + 5 * 8 + 5
NSS_STATS_L2TPV2_SESSION_MAX == 4
NSS_STATS_PORTID_MAX == 1
NSS_STATS_PPTP_SESSION_MAX == 21
NSS_STATS_MAP_T_MAX == 13
NSS_STATS_DTLS_SESSION_MAX == 33
NSS_EXCEPTION_EVENT_IPV4_MAX == 78
NSS_EXCEPTION_EVENT_IPV6_MAX == 50
NSS_EXCEPTION_EVENT_ETH_RX_MAX == 3
NSS_PPPOE_EXCEPTION_EVENT_MAX == 5

(***************************************************************************)
(* Names of counters.                                                      *)
(***************************************************************************)
nss_stats_str_node == 5
nss_stats_str_ipv4 == 20
nss_stats_str_ipv4_reasm == 3

\* Mutant of nss_stats_str_ipv6: a counter has no name.
nss_stats_str_ipv6_Short == 20

nss_stats_str_ipv6 == 21
nss_stats_str_ipv6_reasm == 3
nss_stats_str_n2h == 22
nss_stats_str_lso_rx == 4
nss_stats_str_drv == 24
nss_stats_str_pppoe == 4
nss_stats_str_gmac == 3
nss_stats_str_eth_rx == 3
nss_stats_str_if_exception_eth_rx == 3
nss_stats_str_if_exception_ipv4 == 78
nss_stats_str_if_exception_ipv6 == 50
nss_stats_str_if_exception_pppoe == 5
nss_stats_str_wifi == 61
nss_stats_str_portid == 1
nss_stats_str_dtls_session_debug_stats == 33
nss_stats_str_l2tpv2_session_debug_stats == 4
nss_stats_str_map_t_instance_debug_stats == 13
nss_stats_str_pptp_session_debug_stats == 21

(***************************************************************************)
(* Sections.  `n` counters (of `each` item) are copied to the shadow, from *)
(* index `from` on; they are printed under `heads` other strings.          *)
(***************************************************************************)
Section(n, names, heads) ==
    [n |-> n, each |-> n, names |-> names, from |-> 0, heads |-> heads,
     global |-> FALSE]

NodeSection == Section(NSS_STATS_NODE_MAX, nss_stats_str_node, 1)

\* The sections of n items are all alike.
Times(n, section) == [k \in 1 .. n |-> section]

\* A file that copies its sections under stats_lock.
File(sections, shadow, lines) ==
    [lock |-> "stats_lock", sections |-> sections, shadow |-> shadow,
     lines |-> lines, items |-> 1]

\* A file of sessions: its own lock, all copied at once.
SessionFile(lock, n, names, sessions) ==
    [lock |-> lock, sections |-> << Section(n, names, 2) >>, shadow |-> n,
     lines |-> 2 + sessions * (n + 2) + 2, items |-> sessions]

nss_stats_ipv4_read ==
    File(<< NodeSection,
            Section(NSS_STATS_IPV4_MAX, nss_stats_str_ipv4, 1),
            Section(NSS_EXCEPTION_EVENT_IPV4_MAX, nss_stats_str_if_exception_ipv4, 1) >>,
         NSS_EXCEPTION_EVENT_IPV4_MAX,
         (NSS_STATS_NODE_MAX + 2) + (NSS_STATS_IPV4_MAX + 3)
            + (NSS_EXCEPTION_EVENT_IPV4_MAX + 3) + 5)

nss_stats_ipv4_reasm_read ==
    File(<< NodeSection,
            Section(NSS_STATS_IPV4_REASM_MAX, nss_stats_str_ipv4_reasm, 1) >>,
         NSS_STATS_IPV4_REASM_MAX,
         (NSS_STATS_NODE_MAX + 2) + (NSS_STATS_IPV4_REASM_MAX + 3) + 5)

nss_stats_ipv6_read ==
    File(<< NodeSection,
            Section(NSS_STATS_IPV6_MAX, nss_stats_str_ipv6, 1),
            Section(NSS_EXCEPTION_EVENT_IPV6_MAX, nss_stats_str_if_exception_ipv6, 1) >>,
         NSS_EXCEPTION_EVENT_IPV6_MAX,
         (NSS_STATS_NODE_MAX + 2) + (NSS_STATS_IPV6_MAX + 3)
            + (NSS_EXCEPTION_EVENT_IPV6_MAX + 3) + 5)

nss_stats_ipv6_reasm_read ==
    File(<< NodeSection,
            Section(NSS_STATS_IPV6_REASM_MAX, nss_stats_str_ipv6_reasm, 1) >>,
         NSS_STATS_IPV6_REASM_MAX,
         (NSS_STATS_NODE_MAX + 2) + (NSS_STATS_IPV6_REASM_MAX + 3) + 5)

nss_stats_eth_rx_read ==
    File(<< NodeSection,
            Section(NSS_STATS_ETH_RX_MAX, nss_stats_str_eth_rx, 1),
            Section(NSS_EXCEPTION_EVENT_ETH_RX_MAX, nss_stats_str_if_exception_eth_rx, 1) >>,
         64,
         (NSS_STATS_NODE_MAX + 2) + (NSS_STATS_ETH_RX_MAX + 3)
            + (NSS_EXCEPTION_EVENT_ETH_RX_MAX + 3) + 5)

\* The second section is copied to its own place in the shadow.
nss_stats_n2h_read ==
    File(<< NodeSection,
            [Section(NSS_STATS_N2H_MAX - NSS_STATS_NODE_MAX, nss_stats_str_n2h, 1)
                EXCEPT !.from = NSS_STATS_NODE_MAX] >>,
         NSS_STATS_N2H_MAX,
         (NSS_STATS_NODE_MAX + 2) + (NSS_STATS_N2H_MAX + 3) + 5)

nss_stats_lso_rx_read ==
    File(<< NodeSection, Section(NSS_STATS_LSO_RX_MAX, nss_stats_str_lso_rx, 1) >>,
         NSS_STATS_LSO_RX_MAX,
         (NSS_STATS_NODE_MAX + 2) + (NSS_STATS_LSO_RX_MAX + 3) + 5)

\* The driver's own counters are atomic, and copied without a lock.
nss_stats_drv_read ==
    [File(<< Section(NSS_STATS_DRV_MAX, nss_stats_str_drv, 0) >>,
          NSS_STATS_DRV_MAX, NSS_STATS_DRV_MAX + 5) EXCEPT !.lock = "none"]

\* The exceptions of an interface are copied to stats_shadow_pppoe_except[],
\* which all readers share; each session has a heading.
PppoeExceptions ==
    LET n == NSS_PPPOE_NUM_SESSION_PER_INTERFACE * NSS_PPPOE_EXCEPTION_EVENT_MAX
    IN  [n |-> n, each |-> NSS_PPPOE_EXCEPTION_EVENT_MAX,
         names |-> nss_stats_str_if_exception_pppoe, from |-> 0,
         heads |-> 1 + NSS_PPPOE_NUM_SESSION_PER_INTERFACE, global |-> TRUE]

nss_stats_pppoe_read ==
    File(<< NodeSection, Section(NSS_STATS_PPPOE_MAX, nss_stats_str_pppoe, 2) >>
            \o Times(NSS_MAX_PHYSICAL_INTERFACES, PppoeExceptions),
         64,
         (NSS_STATS_NODE_MAX + 2) + (NSS_STATS_PPPOE_MAX + 3)
            + (NSS_MAX_PHYSICAL_INTERFACES * NSS_PPPOE_NUM_SESSION_PER_INTERFACE
                * (NSS_PPPOE_EXCEPTION_EVENT_MAX + 5) + 3) + 5)

nss_stats_gmac_read ==
    File(Times(NSS_MAX_PHYSICAL_INTERFACES,
               Section(NSS_STATS_GMAC_MAX, nss_stats_str_gmac, 2)),
         NSS_STATS_GMAC_MAX,
         (NSS_STATS_GMAC_MAX + 2) * NSS_MAX_PHYSICAL_INTERFACES + 5)

nss_stats_wifi_read ==
    File(Times(NSS_MAX_WIFI_RADIO_INTERFACES,
               Section(NSS_STATS_WIFI_MAX, nss_stats_str_wifi, 2)),
         NSS_STATS_WIFI_MAX,
         (NSS_STATS_WIFI_MAX + 2) * NSS_MAX_WIFI_RADIO_INTERFACES + 5)

nss_stats_dtls_read ==
    SessionFile("dtls", NSS_STATS_DTLS_SESSION_MAX,
                nss_stats_str_dtls_session_debug_stats, NSS_MAX_DTLS_SESSIONS)

nss_stats_l2tpv2_read ==
    SessionFile("l2tpv2", NSS_STATS_L2TPV2_SESSION_MAX,
                nss_stats_str_l2tpv2_session_debug_stats,
                NSS_MAX_L2TPV2_DYNAMIC_INTERFACES)

nss_stats_map_t_read ==
    SessionFile("map_t", NSS_STATS_MAP_T_MAX,
                nss_stats_str_map_t_instance_debug_stats,
                NSS_MAX_MAP_T_DYNAMIC_INTERFACES)

nss_stats_pptp_read ==
    SessionFile("pptp", NSS_STATS_PPTP_SESSION_MAX,
                nss_stats_str_pptp_session_debug_stats,
                NSS_MAX_PPTP_DYNAMIC_INTERFACES)

nss_stats_sjack_read ==
    File(<< NodeSection >>, NSS_STATS_NODE_MAX, NSS_STATS_NODE_MAX + 5)

nss_stats_portid_read ==
    File(<< NodeSection, Section(NSS_STATS_PORTID_MAX, nss_stats_str_portid, 1) >>,
         NSS_STATS_NODE_MAX, NSS_STATS_NODE_MAX + NSS_STATS_PORTID_MAX + 5)

\* The files of the directory, but for those of module StatsFiles.
TextFiles ==
    [ipv4 |-> nss_stats_ipv4_read, ipv4_reasm |-> nss_stats_ipv4_reasm_read,
     ipv6 |-> nss_stats_ipv6_read, ipv6_reasm |-> nss_stats_ipv6_reasm_read,
     eth_rx |-> nss_stats_eth_rx_read, n2h |-> nss_stats_n2h_read,
     lso_rx |-> nss_stats_lso_rx_read, drv |-> nss_stats_drv_read,
     pppoe |-> nss_stats_pppoe_read, gmac |-> nss_stats_gmac_read,
     wifi |-> nss_stats_wifi_read, dtls |-> nss_stats_dtls_read,
     l2tpv2 |-> nss_stats_l2tpv2_read, map_t |-> nss_stats_map_t_read,
     pptp |-> nss_stats_pptp_read, sjack |-> nss_stats_sjack_read,
     portid |-> nss_stats_portid_read]
=============================================================================
