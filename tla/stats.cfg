CONSTANTS
    Readers = {r1, r2}
    MaxSync = 1
    MaxIf = 3
    Room = 9
    Null = Null
SPECIFICATION StatsFairSpec
INVARIANT StatsWellFormed
INVARIANT OneMoment
INVARIANT NoneMissed
PROPERTY ReadingEnds
