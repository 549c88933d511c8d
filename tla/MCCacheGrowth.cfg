SPECIFICATION FairSpec
CONSTANTS
    s1 = s1
    s2 = s2
    c1 = c1
    Sessions = {s1, s2}
    Commands = {c1}
    InitialDigits = 1
    GrowthSetups <- GuardedSetups
CHECK_DEADLOCK FALSE
INVARIANTS
    GrowthInvariant
PROPERTIES
    CountingEpochEnds
