SPECIFICATION FairSpec
CONSTANTS
    t1 = t1
    t2 = t2
    r1 = r1
    r2 = r2
    NoTrip = NoTrip
    Trips <- MCTrips
    Readings <- MCReadings
    Parent <- MCParent
    QueueSize = 2
    COMMIT_BATCH_SIZE = 2
    MAX_CONSECUTIVE_FLUSH_FAILURES = 2
    MaxBoots = 2
CHECK_DEADLOCK FALSE
INVARIANTS
    TypeOK
    DrainedOnStop
    OrphansOnlyAfterLoss
    OpenTripsKnown
PROPERTIES
    Settles
