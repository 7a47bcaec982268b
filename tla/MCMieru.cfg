SPECIFICATION Spec
CONSTANTS
    u1 = u1
    u2 = u2
    c1 = c1
    c2 = c2
    None = None
    Users = {u1, u2}
    Conns = {c1, c2}
    UserOf <- MCUserOf
    Udp = {c2}
    MaxOps = 4
INVARIANTS
    StartedIsServed
    OpenForItsUsers
    BridgesCanBeCut
    TrafficKept
CHECK_DEADLOCK FALSE
