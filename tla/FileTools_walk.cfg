SPECIFICATION Spec
CONSTANTS
    Entries = {1, 2, 3, 4, 5, 6, 7, 8, 9, 10, 11, 12}
    Parent <- Parent1
    Folders = {1, 2, 3, 6, 9}
    Links = {8}
    RestrictedRoots = {9}
    SecretNames = {6, 11}
    Matching = {2, 4, 5, 7, 8, 10, 11, 12}
    MaxWalkEntries = 4
    ResultLimit = 3
    DepthLimit = 1
    ReadLimit = 2
    MaxChanges = 1
INVARIANTS
    TypeOK
    SearchIsComplete
    UsageIsExact
    NothingBarredIsFound
    UncutIsWhole
PROPERTY CallReturns
CHECK_DEADLOCK FALSE
