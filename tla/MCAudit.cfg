\* The log and its restarts: a month of three ticks and the first tick of the
\* next, a retention that is shorter than the month, a ring of two.
SPECIFICATION Spec
CONSTANTS
    k1 = k1
    k2 = k2
    Kinds = {k1, k2}
    RingCap = 2
    DefaultLimit = 1
    MonthLen = 3
    Retention = 1
    MaxId = 3
    MaxTime = 3
    MaxWriters = 2
    MaxBoots = 1
    All = All
CONSTRAINTS
    OneTorn
    FewWhilePaging
INVARIANTS
    TypeOK
    IdsUnique
    RingIsRecent
PROPERTIES
    PagesComplete
    GcKeepsYoung
\* Ids and time are bounded.
CHECK_DEADLOCK FALSE
