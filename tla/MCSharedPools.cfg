SPECIFICATION MCSpec
CONSTANTS
    Callers = {c1, c2, c3}
    QueueLimit = 1
    MemoryLimit = 10
    CpuMax = 2
    ChunkBytes = {3, 6}
    ReaderBytes = {5}
    CpuRequests = {1, 2}
    FixedBytes = 1
    WindowLen = 1
    PendingLeads = {1, 4}
    t1 = t1
    t2 = t2
    s1 = s1
    s2 = s2
    Threads = {t1, t2}
    Slots = {s1, s2}
    ReaderSetups <- MCSetups
    BufferBytes = 2
    DecimalPrefix = TRUE
    FileSetups <- MCFileSetups
    Earlier <- MCEarlier
    None = None
INVARIANTS
    BudgetInvariant
    WithinLimits
    NoLostWakeup
    PoolInvariant
PROPERTIES
    WaitersMoveOn
CHECK_DEADLOCK FALSE
