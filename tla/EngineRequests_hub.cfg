SPECIFICATION Spec
CONSTANTS
    MaxEdition = 3
    Tables <- Tables3
    NoConfig = NoConfig
    SdkInstalled = TRUE
    MaxServerFaults = 1
    Requests <- Requests1
    Commands <- Commands1
    MaxRestarts = 1
INVARIANTS
    ConfigIsRecent
    PolicyIsKept
    ToolServerIsHidden
PROPERTY RequestIsAnswered
