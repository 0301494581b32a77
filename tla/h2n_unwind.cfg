CONSTANTS
    Senders = {s1, s2}
    Packets <- TwoFragPackets
    Size = 4
    DmaMayFail = TRUE
    NoBuf = NoBuf
    Nobody = Nobody
SPECIFICATION Spec
INVARIANT HostBuffersUnmapped
