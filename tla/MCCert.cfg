\* One certificate comes due, one crash or failure may hit any step.
SPECIFICATION FairSpec
\* With modes file and self a node that is up has nothing left to do.
CHECK_DEADLOCK FALSE
CONSTANTS
    N = 2
    Modes = {"file", "self", "http"}
    MaxAges = 1
    MaxTroubles = 1
INVARIANTS
    DamageHasCause
    OrdersBounded
PROPERTIES
    RenewedAndServed
