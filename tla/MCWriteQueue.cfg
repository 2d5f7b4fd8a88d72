CONSTANTS
    Byte = {b1, b2}
    MaxGiven = 6
SPECIFICATION Spec
INVARIANTS
    TypeOK
    Fifo
    Waiting
CHECK_DEADLOCK FALSE
