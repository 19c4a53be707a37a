SPECIFICATION Spec
CONSTANTS
    Tasks = {t1}
    Requests = {r1, r2}
    None = None
    MaxApprovals = 2
    MaxFaults = 0
SYMMETRY Threads
INVARIANTS
    RunsOnce
CHECK_DEADLOCK FALSE
