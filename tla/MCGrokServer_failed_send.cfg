CONSTANTS
    Fds = {3, 4, 5, 6}
    Main = 3
    BadFd = BadFd
    Listener = Listener
    None = None
    Tunnels = {t1}
    Visitors = {v1}
    Conns = {t1, v1}
    Kinds = {"CREATE"}
    Endings = {"rst"}
    MaxRx = 1
    MaxQueue = 1
    IdSpace = 3
SPECIFICATION Spec
INVARIANTS
    FailedSendWaits
SYMMETRY Symmetry
CHECK_DEADLOCK FALSE
