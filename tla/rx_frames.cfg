CONSTANTS
    Linear = {l1, l2, l3, c1}
    Paged = {p1, p2, p3}
    Chained = {c1}
    ChainedMayInterrupt = FALSE
    FrameMax = 4
    Foreign = Foreign
    Null = Null
SPECIFICATION Spec
SYMMETRY SkbSymmetry
INVARIANT WellFormed
INVARIANT NoDanglingFrame
INVARIANT NothingLeaked
PROPERTY ImplementsFrameAssembly
