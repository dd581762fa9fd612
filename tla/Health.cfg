SPECIFICATION Spec
CONSTANTS
    Pids = {p1, p2}
    MaxCount = 2
    MaxFaults = 1
INVARIANTS
    NeverTorn
    WritersIndependent
    CountKept
    Reported
