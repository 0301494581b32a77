CONSTANTS
    Pollers = {p1}
    BounceMax = 2
SPECIFICATION FairSpec
PROPERTY UnregisterReturns
CHECK_DEADLOCK FALSE
