SPECIFICATION FairSpec
CONSTANTS
    t1 = t1
    t2 = t2
    r1 = r1
    r2 = r2
    h1 = h1
    NoTrip = NoTrip
    Trips <- MCTrips
    Rows <- MCOneRow
    Parent <- MCParent
    ChildTables <- MCChildTables
    TableOf <- MCTableOf
    HealthTable = "pi_health_log"
    SyncBatchSize = 1
    MaxBatches = 3
    MaxLate = 1
    MaxCuts = 0
    Faults = {}
INVARIANTS
    ParentsFirst
    CompletePass
PROPERTIES
    Delivered
