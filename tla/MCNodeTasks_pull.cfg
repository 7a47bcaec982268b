SPECIFICATION TasksSpec
CONSTANTS
    Procs = {main, w1, r1}
    Main = main
    Workers = {w1}
    Reporters = {r1}
    Timers = {t1, t2}
    NoProc = NoProc
    NoTimer = NoTimer
    Pulls = {1, 2}
    Pushes = {1}
    MaxChanges = 1
PROPERTIES
    MonitorKeepsRunning
CHECK_DEADLOCK FALSE
