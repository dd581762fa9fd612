SPECIFICATION Spec
CONSTANTS
    t1 = t1
    t2 = t2
    r1 = r1
    r2 = r2
    h1 = h1
    NoTrip = NoTrip
    Trips <- MCOneTrip
    Rows <- MCOneTripRows
    Parent <- MCParent
    ChildTables <- MCChildTables
    TableOf <- MCTableOf
    HealthTable = "pi_health_log"
    SyncBatchSize = 2
    MaxBatches = 3
    MaxLate = 1
    MaxCuts = 2
    Faults = {"open", "select"}
INVARIANTS
    NoLoss
PROPERTIES
    ClosesAreMonotone
    ClosesLostOnlyByMark
    ReplicaSpec
