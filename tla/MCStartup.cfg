SPECIFICATION Spec
CONSTANTS
    None = None
    Files <- MCFiles
    NoFile = NoFile
    Draws = {0, 1023}
    Ephemeral = {49152, 49153}
    Foreign = {80, 6567}
INVARIANT HttpPortChecked
CHECK_DEADLOCK FALSE
