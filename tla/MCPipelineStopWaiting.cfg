CONSTANTS
    WindowLen = 2
    TopN = 2
    NoBound = NoBound
    MaxDigits = 6
    PerfectScore = 4
    Setups <- EndlessSetups
SPECIFICATION Spec
INVARIANTS
    StopLeavesResumableRun
CHECK_DEADLOCK FALSE
