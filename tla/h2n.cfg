CONSTANTS
    Senders = {s1, s2}
    Packets <- ShortPackets
    Size = 4
    DmaMayFail = TRUE
    NoBuf = NoBuf
    Nobody = Nobody
SPECIFICATION FairSpec
INVARIANT TypeOK
INVARIANT OpaqueOnce
INVARIANT MappingsFollowOwner
PROPERTY NeverOverwritten
PROPERTY ImplementsDescFifo
PROPERTY SendReturns
PROPERTY PacketComesBack
