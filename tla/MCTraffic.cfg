SPECIFICATION FairSpec
CONSTANTS
    a = a
    b = b
    u1 = u1
    u2 = u2
    c1 = c1
    c2 = c2
    c3 = c3
    p1 = p1
    p2 = p2
    p3 = p3
    None = None
    Tags = {a, b}
    Users = {u1, u2}
    Conns = {c1, c2, c3}
    Packets = {p1, p2, p3}
    TagOf <- MCTagOf
    UserOf <- TwoUsers
    ConnOf <- ThreePackets
    KeyByTag = TRUE
    CloseLinks = TRUE
    MinTraffic <- MCMinTraffic
    \* A POST is lost, or repeated as often as the client does.
    Deliveries = {0, 4}
    MaxUserOps = 2
INVARIANTS
    NeverReportedTwice
    BilledToOwner
    ServedNotDiscarded
PROPERTIES
    LeftoverIsReported
    KeepsLedger
CHECK_DEADLOCK FALSE
