SPECIFICATION FairSpec
CONSTANTS
    Workers = {w1, w2}
    PoolMax = 2
    MaxRequests = 3
    Emails = {e1}
    Roles = {"admin", "parent"}
    Routes = {r1, r2}
    SeedEmail = e1
    SeedRole = "admin"
    SeedRoute = r1
    NoRoute = NoRoute
    e1 = e1
    r1 = r1
CHECK_DEADLOCK FALSE
INVARIANTS TypeOK RolesKept DoublesOnlyInRace
PROPERTY Answered
