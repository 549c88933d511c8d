SPECIFICATION MCSpec
CONSTANTS
    p1 = p1
    p2 = p2
    i1 = i1
    i2 = i2
    n1 = n1
    s1 = s1
    s2 = s2
    dark = dark
    r1 = r1
    r2 = r2
    None = None
    Runs <- MCRuns
    SessionSetups <- MCSessionSetups
    MaxSearches = 2
    Processes = {p1, p2}
    Ids = {i1, i2}
    Names = {n1}
    MaxOffset = 2
    Score <- MCScore
    StoreSetups <- MCStoreSetups
    Sessions = {s1, s2}
    Themes = {dark}
    DefaultTheme = dark
    MaxThreshold = 1
    Typeable = {2}
    Inodes = {1, 2, 3}
    MaxSaves = 2
    MaxCrashes = 1
    Policies <- MCPolicies
    Lifetime <- MCLifetime
    MaxVisible = 2
    IdleRedraw = 3
    Cores = {3}
    Given = {"eco", "custom"}
    StartOptions <- MCStartOptions
    ResumeOptions <- MCResumeOptions
    StoredObjects <- MCStoredObjects
    MaxPresses = 2
    MaxRows = 1
    MaxInt = 511
    MaxLen = 3
    WizardSetups <- MCWizardSetups
INVARIANTS
    SessionInvariant
    RowsShownAreTrue
    StoreInvariant
    ConfigInvariant
    InputInvariant
    FrameInvariant
    LimitsInvariant
PROPERTIES
    SessionServes
    StatementsAreSafe
    InterruptedSavesLeaveAFile
    InputStaysWhereItGoes
    KeysAct
CHECK_DEADLOCK FALSE
