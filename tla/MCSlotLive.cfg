\* A startup timeout of the first mount and two Stop or Restart calls, and
\* everything that must happen.
SPECIFICATION FairSpec
CONSTANTS
    m1 = m1
    m2 = m2
    Mounts = {m1, m2}
    Slow = {m1}
    c1 = c1
    c2 = c2
    Stops = {c1, c2}
    None = None
CONSTRAINTS
    InOrder
    TwoOfOne
    RestartInTime
INVARIANT TypeOK
PROPERTIES
    ExitFreesLock
    StopEndsJvm
\* All calls may have been made.
CHECK_DEADLOCK FALSE
