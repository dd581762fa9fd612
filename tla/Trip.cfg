SPECIFICATION TablesFairSpec
CONSTANTS
    VOLTAGE_DROP_DURATION_S = 1
    RPM_ZERO_DURATION_S = 2
    TRIP_WATCHDOG_TIMEOUT_S = 4
    TRIP_WATCHDOG_POLL_S = 2
    Drops = TRUE
    Glitches = TRUE
    Columns = {c1, c2}
    interval_s = 2
INVARIANTS
    TablesTypeOK
    BoundedIdle
    TimersHonest
    DecodersSound
PROPERTIES
    NoEarlyEnd
    TripsEnd
    RowsOwn
    RowsApart
