SPECIFICATION Spec
CONSTANTS
    Workers = {w1, w2}
    Buses = {b1, b2}
    Drivers = {d1, d2}
    Routes = {r1}
    Patches <- OneField
    MaxAssignments = 2
    MaxTrips = 1
    None = None
SYMMETRY Symmetry
INVARIANTS TypeOK OneActivePerBus TripKept
PROPERTIES OneActivePerDriver DeletedBusIsFree
