CONSTANTS
    Fds = {3, 4}
    Main = 3
    BadFd = BadFd
    Listener = Listener
    None = None
    Tunnels = {t1}
    Visitors = {v1}
    Conns = {t1, v1}
    Kinds = {"CREATE"}
    Endings = {"fin"}
    MaxRx = 1
    MaxQueue = 1
    IdSpace = 3
SPECIFICATION Spec
INVARIANTS
    CreateIsAnswered
SYMMETRY Symmetry
CHECK_DEADLOCK FALSE
