SPECIFICATION Spec
CONSTANTS
    None = None
    AutoMin = 4
    SettingsSetups <- OnlyKeys
INVARIANTS EveryRunResumes
