CONSTANTS
    Callers = {q1, q2}
    Targets = {3, 5}
    InitialDigits = 1
    WindowLen = 1
    AvailableLeads = {0, 2, 9}
    PrefixLimit = 8
    MayFail = TRUE
    StartsPaused = TRUE
    MaxCancels = 1
    MaxRequests = 2
    None = None
    Requests <- MCRequests
    FirstFiles <- MCFirstFiles
    FirstDigits = {0, 1}
    MaxReplacements = 1
    MaxForeign = 1
SPECIFICATION MCSpec
INVARIANTS
    ProducerInvariant
    CommandInvariant
PROPERTIES
    ProducerServes
CHECK_DEADLOCK FALSE
