SPECIFICATION Spec
CONSTANTS
    Workers = {w1, w2}
    Buses = {b1, b2}
    Assignments = {a1}
    MaxTrips = 1
    MaxStops = 3
    MaxPings = 2
    Place <- InSteps
    MaxUpsets = 1
    None = None
SYMMETRY Symmetry
CHECK_DEADLOCK FALSE
INVARIANTS TypeOK ShownIsStored ArrivalAnnounced OfflineMeansOld NotifiedOnce NoWaitCycle
