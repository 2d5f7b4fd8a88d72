CONSTANTS
    Socks = {4, 5}
    States = {p, q}
    Levels <- MCLevels
    None = None
SPECIFICATION FairSpec
INVARIANTS
    RequestOwned
    TreeAgrees
    NoMissedEvent
PROPERTIES
    EpollSpec
    EventReported
    DeletedFreed
CHECK_DEADLOCK FALSE
