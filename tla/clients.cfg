CONSTANTS
    Sessions = {s1, s2}
    Nobody = Nobody
    TableSize <- MCTableSize
    Used = {"profiler", "tun6rd", "tunipip6", "sjack", "lag", "oam", "ipsec_notify", "ipsec_data", "dtls", "crypto", "l2tpv2", "gre_redir", "pptp", "map_t", "wifi", "wifi_vdev"}
SPECIFICATION Spec
SYMMETRY Symmetry
VIEW MCView
INVARIANT WellFormed
INVARIANT Heard
INVARIANT SilentWhenGone
