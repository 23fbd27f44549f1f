SPECIFICATION FairSpec
CONSTANTS
    b1 = b1
    b2 = b2
    b3 = b3
    i1 = i1
    i2 = i2
    k1 = k1
    Jobs = {b1, b2, b3}
    Calls = {k1}
    Ids = {i1, i2}
    IdOf <- MCIdOf
    MaxId = 5
    None = None
CONSTRAINTS
    InOrder
    CommandsOrFiles
INVARIANTS
    TypeOK
    CopyIsQuiesced
    ListMatchesArchives
    AutosaveIsOwed
PROPERTIES
    AnswerIsOwn
    AutosaveReturns
CHECK_DEADLOCK FALSE
