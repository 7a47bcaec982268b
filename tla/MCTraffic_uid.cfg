SPECIFICATION Spec
CONSTANTS
    a = a
    b = b
    u1 = u1
    u2 = u2
    c1 = c1
    c2 = c2
    c3 = c3
    p1 = p1
    p2 = p2
    p3 = p3
    None = None
    Tags = {a, b}
    Users = {u1}
    Conns = {c1, c2, c3}
    Packets = {p1, p2, p3}
    TagOf <- MCTagOf
    UserOf <- OneUser
    ConnOf <- ThreePackets
    KeyByTag = FALSE
    CloseLinks = FALSE
    MinTraffic <- NoMinTraffic
    Deliveries = {1}
    MaxUserOps = 2
INVARIANTS
    ServedNotDiscarded
CHECK_DEADLOCK FALSE
