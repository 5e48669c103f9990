SPECIFICATION Spec
CONSTANTS
    Workers = {w1, w2}
    MaxTokens = 4
    MaxCrashes = 1
    None = None
SYMMETRY Symmetry
CHECK_DEADLOCK FALSE
INVARIANTS TypeOK RotationKept OneLivePerSession ReplayEndsSessions
PROPERTY SessionsKept
