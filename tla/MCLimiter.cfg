SPECIFICATION Spec
CONSTANTS
    u1 = u1
    i1 = i1
    i2 = i2
    c1 = c1
    c2 = c2
    c3 = c3
    None = None
    Users = {u1}
    Ips = {i1, i2}
    Conns = {c1, c2, c3}
    UserOf <- OneUser
    IpOf <- Devices2
    NoSSUDP = {c1, c2, c3}
    NodeLimit = 0
    Speeds = {0, 1}
    Devices = {1}
    Alives = {0, 1}
    MaxOps = 2
SYMMETRY Twins
INVARIANTS
    OnlineWasAdmitted
    SharedBucket
    SpeedLimitCurrent
    DeviceLimitEnforced
CHECK_DEADLOCK FALSE
