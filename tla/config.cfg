CONSTANTS
    Callers = {c1, c2}
    Nobody = Nobody
    ConnValues = {7}
    OtherValues = {0, 1}
    UsedSets = {{"ipv4_conn"}, {"ipv6_conn"}, {"empty_pool_buf", "water_mark"}, {"wifi_payloads"}, {"rps"}, {"mitigation"}, {"ipv4_conn", "ipv6_conn"}}
    MaxTotal = 8
    MaxIpv4 = 1
    MaxIpv6 = 4
    RingMax = 1
    TimeOuts = TRUE
SPECIFICATION Spec
SYMMETRY Symmetry
INVARIANT WellFormed
INVARIANT InForce
INVARIANT SoleUseWithinLimit
