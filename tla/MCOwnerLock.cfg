SPECIFICATION FairSpec
CONSTANTS
    a = a
    b = b
    a1 = a1
    a2 = a2
    b1 = b1
    Instances = {a, b}
    Slots = {a1, a2, b1}
    InstanceOf <- MCInstanceOf
    StaleAfter = 2
    None = None
    Orphan = Orphan
INVARIANTS
    TypeOK
    HolderIsOnFile
PROPERTIES
    NoHeartbeatAfterRelease
    RunningSlotReclaimsFile
    ImplementsLease
