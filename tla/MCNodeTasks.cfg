SPECIFICATION TasksSpec
CONSTANTS
    Procs = {main, w1, r1, r2}
    Main = main
    Workers = {w1}
    Reporters = {r1, r2}
    Timers = {t1, t2}
    NoProc = NoProc
    NoTimer = NoTimer
    Pulls = {1}
    Pushes = {1, 2}
    MaxChanges = 2
INVARIANTS
    AtMostOneLateRun
    PanicNeedsCause
PROPERTIES
    MonitorKeepsRunning
    CloseReturns
CHECK_DEADLOCK FALSE
