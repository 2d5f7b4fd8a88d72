CONSTANTS
    Fds = {3, 4, 5, 6, 7}
    Main = 3
    BadFd = BadFd
    Listener = Listener
    None = None
    Tunnels = {t1}
    Visitors = {v1, v2}
    Conns = {t1, v1, v2}
    Kinds = {"CREATE", "DISCONNECT"}
    Endings = {"fin"}
    MaxRx = 1
    MaxQueue = 1
    IdSpace = 4
SPECIFICATION Spec
PROPERTIES
    DisconnectsTheNamed
SYMMETRY Symmetry
CHECK_DEADLOCK FALSE
