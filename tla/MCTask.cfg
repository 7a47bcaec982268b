SPECIFICATION MCSpec
CONSTANTS
    Procs = {p1, p2, p3}
    Timers = {t1, t2, t3}
    NoProc = NoProc
    NoTimer = NoTimer
INVARIANTS
    ExecuteExclusive
    ChainAlive
PROPERTIES
    RunsPeriodically
    ComesToRest
