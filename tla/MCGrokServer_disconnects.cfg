CONSTANTS
    Fds = {3, 4, 5, 6}
    Main = 3
    BadFd = BadFd
    Listener = Listener
    None = None
    Tunnels = {t1}
    Visitors = {v1, v2}
    Conns = {t1, v1, v2}
    Kinds = {"CREATE", "DISCONNECT", "DATA"}
    Endings = {"fin", "rst"}
    MaxRx = 1
    MaxQueue = 2
    IdSpace = 4
SPECIFICATION Spec
INVARIANTS
    IdsExclusive
    MapsAgree
    StreamAgrees
    BracketedStream
    SessionOwned
    NoStaleDescriptor
PROPERTIES
    AllocatorSpec
SYMMETRY Symmetry
CHECK_DEADLOCK FALSE
