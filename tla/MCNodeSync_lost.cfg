SPECIFICATION Spec
CONSTANTS
    Nodes = {n1, n2}
    Uuids = {u1}
    Speeds = {0}
    Devices = {0}
    None = None
    Failed = Failed
    Named = FALSE
    Faults = {"users"}
    MaxFaults = 1
    MaxChanges = 1
PROPERTIES
    NodeAlwaysConverges
CHECK_DEADLOCK FALSE
