\* Two mounts in a row, both with a Discord bot, that end on their own.
SPECIFICATION FairSession
CONSTANTS
    m1 = m1
    m2 = m2
    Mounts = {m1, m2}
    Slow = {}
    Stops = {}
    Bots = {m1, m2}
    None = None
CONSTRAINT InOrder
INVARIANTS
    AttachmentsAreOfMounted
    NothingLeaks
PROPERTIES
    SessionsEnd
\* All mounts may have been made.
CHECK_DEADLOCK FALSE
