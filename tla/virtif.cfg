CONSTANTS
    Callers = {c1, c2}
    Handles = {h1, h2, h3}
    IfNums = {i1}
    RingMax = 1
    UsedSets = {{"virt_if"}, {"tx_rx", "wifi"}}
    Null = Null
SYMMETRY Symmetry
VIEW MCView
SPECIFICATION Spec
CHECK_DEADLOCK FALSE
INVARIANT WellFormed
INVARIANT NoUseAfterFree
INVARIANT KnownEverywhere
INVARIANT DevicesReferenced
