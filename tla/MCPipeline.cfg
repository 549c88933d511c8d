CONSTANTS
    WindowLen = 2
    TopN = 2
    NoBound = NoBound
    MaxDigits = 6
    PerfectScore = 4
    Setups <- SafetySetups
SPECIFICATION Spec
INVARIANTS
    PipelineInvariant
    ResultsAreSound
    EndsForItsReason
PROPERTIES
    ScansSequentially
CHECK_DEADLOCK FALSE
