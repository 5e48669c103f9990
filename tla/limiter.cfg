SPECIFICATION Spec
CONSTANTS
    Buses = {b1, b2, b3}
    MinInterval = 3
    MaxKeys = 2
    MaxTime = 6
    None = None
CHECK_DEADLOCK FALSE
INVARIANTS TypeOK PaceKept
