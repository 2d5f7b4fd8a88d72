CONSTANTS
    Fds = {3, 4, 5, 6, 7}
    Main = 3
    BadFd = BadFd
    Listener = Listener
    None = None
    Tunnels = {t1}
    Visitors = {v1, v2}
    Conns = {t1, v1, v2}
    Kinds = {"PING", "CREATE", "CREATE_PORT", "PACKET_SHORT", "DISCONNECT_SIZE", "AUTH", "AUTH_BAD", "STAT", "UNKNOWN", "GARBLED", "OVERSIZE"}
    Endings = {"fin"}
    MaxRx = 1
    MaxQueue = 1
    IdSpace = 3
SPECIFICATION FairSpec
INVARIANTS
    TypeOK
PROPERTIES
    HungUpReleased
    LifecycleSpec
CHECK_DEADLOCK FALSE
