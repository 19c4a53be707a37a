SPECIFICATION FairSpec
CONSTANTS
    t1 = t1
    t2 = t2
    d1 = d1
    d2 = d2
    r1 = r1
    r2 = r2
    h1 = h1
    h2 = h2
    h3 = h3
    n1 = n1
    n2 = n2
    x1 = x1
    None = None
    Tasks = {t1}
    Devices = {d1}
    Target <- OnDevice1
    Requests = {r1}
    Handlers = {h1, h2, h3}
    Nodes = {n1, x1}
    DeviceOf <- AllOnDevice1
    Doctors = {x1}
    MaxCommands = 1
    MaxFaults = 1
PROPERTIES
    QueuedIsClaimed
    ClaimIsSettledOrDropped
