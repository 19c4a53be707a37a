SPECIFICATION Spec
CONSTANTS
    Tasks = {t1}
    Requests = {r1, r2, r3}
    None = None
    MaxApprovals = 4
    MaxFaults = 1
SYMMETRY Threads
INVARIANTS
    RunIsOnRecord
    FinalIsEarned
    InProgressIsRunning
CHECK_DEADLOCK FALSE
