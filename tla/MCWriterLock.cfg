SPECIFICATION LockSpec
CONSTANTS
    tA = tA
    tB1 = tB1
    tB2 = tB2
    tC = tC
    PA = PA
    PB = PB
    PC = PC
    Sessions = {}
    Commands = {}
    InitialDigits = 0
    GrowthSetups <- Nobody
    Threads <- MCThreads
    Processes = {PA, PB, PC}
    Owner <- MCOwner
    Inodes = {i1, i2, i3, i4}
    None = None
    Empty = Empty
    Patience = 1
    MaxCalls = 1
    MaxCrashes = 2
    MaxFaults = 1
INVARIANTS
    MutualExclusion
    OwnerKeepsLock
PROPERTIES
    LiveLockRespected
CHECK_DEADLOCK FALSE
SYMMETRY InodeSymmetry
