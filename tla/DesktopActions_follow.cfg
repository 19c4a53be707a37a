SPECIFICATION Spec
CONSTANTS
    MaxCoordinate = 8
    Systems = {TRUE, FALSE}
    Screens <- Screens1
    Nameless = {3}
    Hidden = 9
    ScreenWidth = 2
    ImageWidth = 2
    Asked <- Asked1
    Repaired <- Repaired1
    Keep = 2
    MaxAttempts = 1
    MaxAsks = 2
    MaxChanges = 2
    MaxShots = 3
    MaxCommands = 2
INVARIANTS
    NewestSnapshotWins
    ClickLands
    VerifiedAfterItRan
    FoundContextStays
    HighIsShownHigh
CHECK_DEADLOCK FALSE
