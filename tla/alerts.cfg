SPECIFICATION FairSpec
CONSTANTS
    Workers = {w1}
    Managers = {m1, m2}
    Callers = {d1}
    Trips = {t1}
    Children = {c1}
    ParentOf <- MCParentOf
    MaxAlerts = 2
    MaxSos = 1
    MaxCrashes = 1
    None = None
    p1 = p1
    c1 = c1
CHECK_DEADLOCK FALSE
INVARIANTS TypeOK BoardedParentsTold
PROPERTIES LifecyclesKept StoredIsAnnounced
