\* Every race of two Start calls with a Stop, Restart or AbortStop call when
\* servers become healthy in time, before the eyes of one client.
SPECIFICATION EventsSpec
CONSTANTS
    Mounts = {m1, m2}
    Slow = {}
    Stops = {c1}
    SubBuffer = 1
    None = None
SYMMETRY Symmetry
CONSTRAINT Watchable
INVARIANTS
    TerminalIsQuiet
    LockCoversJvm
    ClientSeesState
\* All calls may have been made.
CHECK_DEADLOCK FALSE
