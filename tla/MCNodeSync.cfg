SPECIFICATION Spec
CONSTANTS
    Nodes = {n1, n2}
    Uuids = {u1, u2}
    Speeds = {0, 1}
    Devices = {0}
    None = None
    Failed = Failed
    Named = FALSE
    Faults = {"node", "body", "users", "delNode", "rule", "cert", "addNode", "delUsers", "addUsers"}
    MaxFaults = 2
    MaxChanges = 2
INVARIANTS
    AppliedInSync
    ServedAreLimited
    PanicNeedsFatalFault
PROPERTIES
    UsersConverge
    NodeConverges
    ReloadOnlyWhenChanged
CHECK_DEADLOCK FALSE
