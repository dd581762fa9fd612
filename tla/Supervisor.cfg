\* One unit is 15 s: RestartSec=15, StartLimitIntervalSec=60, 120 s, 300 s.
SPECIFICATION FairSpec
CONSTANTS
    RestartSec = 1
    StartLimitIntervalSec = 4
    StartLimitBurst = 5
    USB_MOUNT_TIMEOUT_S = 8
    TimeoutStartSec = 20
    MaxCuts = 2
INVARIANTS
    TypeOK
    NeverGivesUp
    SoundWhenUsed
PROPERTIES
    ZombieExits
    BackToWork
