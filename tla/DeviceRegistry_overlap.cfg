SPECIFICATION Spec
CONSTANTS
    o1 = o1
    o2 = o2
    t1 = t1
    t2 = t2
    m1 = m1
    m2 = m2
    r1 = r1
    r2 = r2
    Owners = {o1, o2}
    Nobody = Nobody
    Tokens = {t1, t2}
    OwnerOf <- OwnerOf1
    Machines = {m1, m2}
    Names = {"n1"}
    Hostname <- OwnHosts
    NameOf <- SameName
    Requests = {r1, r2}
    Ids = {1, 2}
    MaxKeys = 3
SYMMETRY Symmetric
INVARIANTS
    OwnersAreKept
    DuplicateNeedsOverlap
PROPERTIES
    OldKeyNeedsOverlap
    ImplementsDeviceKeys
