SPECIFICATION FairSpec
CONSTANTS
    MAX_SELF_HEAL_RETRIES = 5
    MAX_SAFE_COMMAND_RETRIES = 5
    MaxPlan = 2
    MaxSteps = 3
    MaxFaults = 1
INVARIANTS
    QueueIsRest
    ProposalIsCurrent
    OnlySafeRun
    BoundedTries
PROPERTIES
    InvocationEnds
CHECK_DEADLOCK FALSE
