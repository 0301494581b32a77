CONSTANTS
    Pollers = {p1}
    BounceMax = 2
SPECIFICATION FairSpec
CHECK_DEADLOCK FALSE
INVARIANT WellFormed
INVARIANT BridgeKeepsOwner
PROPERTY InterfaceCallsReturn
