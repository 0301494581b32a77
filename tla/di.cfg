CONSTANTS
    Callers = {c1, c2}
    IfNums = {i1, i2}
    Types = {t1}
    RingMax = 1
    NONE = NONE
    NoIf = NoIf
    Nobody = Nobody
SPECIFICATION FairSpec
INVARIANT WellFormed
INVARIANT TypeTableMirrorsNss
PROPERTY CallReturns
