SPECIFICATION Spec
CONSTANTS
    Broken = Broken
    Files <- MCFiles
    Partial <- MCPartial
    None = None
    MaxEdits = 3
    MaxParallel = 2
    MaxFaults = 1
INVARIANTS
    ServesFile
    OneCoreOpen
    NoNodeLeftBehind
    CrashHasCause
CHECK_DEADLOCK FALSE
