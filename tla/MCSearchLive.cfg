SPECIFICATION MCSpec
CONSTANTS
    Percent = 50
    WindowMs = 1000
    Dispatches <- MCShort
    Gaps <- MCGaps
    MaxTime = 3000
    None = None
    Depth = 3
    HardwareLimits = {2, 3}
    BufferWindows = 2
    MaxWindows = 9
    MaxChunks = 2
    MayFail = TRUE
    WindowLen = 2
    TopN = 2
    NoBound = NoBound
    MaxDigits = 6
    PerfectScore = 4
INVARIANTS
    SteadyRatioIsBounded
    RingInvariant
PROPERTIES
    WaitIsBounded
    ScoresEveryWindowInOrder
    SearchComesToItsEnd
CHECK_DEADLOCK FALSE
