SPECIFICATION FairSpec
CONSTANTS
    d1 = d1
    Devices = {d1}
    Local = Local
    MaxPlan = 2
    MaxTasks = 2
    MaxFaults = 1
INVARIANTS
    ShownIsStored
    BadgeIsTrue
PROPERTIES
    Unlocks
CHECK_DEADLOCK FALSE
