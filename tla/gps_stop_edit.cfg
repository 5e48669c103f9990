SPECIFICATION Spec
CONSTANTS
    Workers = {w1, w2}
    Buses = {b1}
    Assignments = {a1}
    MaxTrips = 1
    MaxStops = 2
    MaxPings = 2
    Place <- InSteps
    MaxUpsets = 1
    None = None
SYMMETRY Symmetry
CHECK_DEADLOCK FALSE
INVARIANT AckedIsStored
