SPECIFICATION FairSpec
CONSTANTS
    c1 = c1
    Clients = {c1}
    Buf = 2
    HistoryN = 2
    MaxInodes = 2
    MaxLines = 2
    MaxEmitted = 3
    BackfillN = 2
INVARIANTS
    TypeOK
    NoSendOnClosed
    CompleteUnlessFull
    NothingUnnoticed
PROPERTIES
    TailCatchesUp
    ClientsReleased
CHECK_DEADLOCK FALSE
