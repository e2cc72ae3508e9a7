SPECIFICATION Spec
CONSTANTS
    Clients = {"post", "get"}
    Method <- MCMethod
    Path <- MCPath
    Body <- MCBody
    Silent = {"get"}
    Missing = Missing
    OldFile <- MCOldFile
    Backlog = 1
    BufferSize = 2
    MaxForks = 2
    MaxFaults = 1
CHECK_DEADLOCK FALSE
INVARIANT
    ReadYourPost
PROPERTIES
    Served
    ListenerReleased
