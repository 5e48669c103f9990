SPECIFICATION Spec
CONSTANTS
    Workers = {w1, w2}
    Buses = {b1}
    Drivers = {d1, d2}
    Routes = {r1}
    Patches <- OneField
    MaxAssignments = 2
    MaxTrips = 2
    None = None
SYMMETRY Symmetry
INVARIANTS ResolveUnambiguous
PROPERTIES StartsOnlyFreeDriver
