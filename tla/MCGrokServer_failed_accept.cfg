CONSTANTS
    Fds = {3, 4, 5, 6}
    Main = 3
    BadFd = BadFd
    Listener = Listener
    None = None
    Tunnels = {t1}
    Visitors = {v1, v2, v3}
    Conns = {t1, v1, v2, v3}
    Kinds = {"CREATE"}
    Endings = {"fin"}
    MaxRx = 1
    MaxQueue = 2
    IdSpace = 4
SPECIFICATION Spec
INVARIANTS
    PoolComplete
SYMMETRY Symmetry
CHECK_DEADLOCK FALSE
