SPECIFICATION MCSpec
CONSTANTS
    Latest = 2
    MaxDeaths = 1
    MaxDeploys = 2
    KEEP_DAILY = 2
    FORCE_AFTER_DAYS = 1
    TICKS = 2
    MaxRows = 1
    MaxEdits = 1
    MaxOnce = 1
    MaxFaults = 1
INVARIANTS
    RecordMatches
    RowsSaved
    EditsSaved
PROPERTIES
    ComesUp
