SPECIFICATION MCSpec
CONSTANTS
    Shape = 3
    Background = 2
    Candidates = 3
    Score <- MCScore
    Windows <- MCWindows
    None = None
    AutoMin = 4
    SettingsSetups <- MCSettings
    Digits = 3
    Searches <- MCSearches
INVARIANTS
    BackendsAgree
    ScoreIsSound
    RunsResume
    ChoicesAreHonoured
CHECK_DEADLOCK FALSE
