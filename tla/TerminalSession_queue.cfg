SPECIFICATION Spec
CONSTANTS
    d1 = d1
    Devices = {d1}
    Local = Local
    MaxPlan = 2
    MaxTasks = 3
    MaxFaults = 0
INVARIANTS
    ResumeIsEarned
    PlanIsFinished
CHECK_DEADLOCK FALSE
