SPECIFICATION FairSpec
CONSTANTS
    SLOW_POLLS = 2
    MaxErrors = 2
    Worlds <- MCWorlds
INVARIANTS
    ShowsTheWorld
    FastSignalsFresh
PROPERTIES
    Settles
