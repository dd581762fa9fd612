SPECIFICATION Spec
CONSTANTS
    c1 = c1
    c2 = c2
    c3 = c3
    s1 = s1
    s2 = s2
    None = None
    Conns <- MCConns
    Scans <- MCScans
    MaxDrops = 2
    MaxHung = 1
CHECK_DEADLOCK FALSE
INVARIANTS
    StoppedQuiet
