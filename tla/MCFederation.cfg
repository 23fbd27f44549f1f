\* Both instances mount the directory; scans of both may be overtaken.
SPECIFICATION FairSpec
CONSTANTS
    a = a
    b = b
    Self = a
    Peers = {b}
    Claimants = {a, b}
    Overtaken = {a, b}
    Skew <- MCSkew
    StaleAfter = 0
    MaxTime = 2
    None = None
    Asked = Asked
CONSTRAINT OneSlowScan
INVARIANTS
    FreshestWins
PROPERTY ViewsConverge
