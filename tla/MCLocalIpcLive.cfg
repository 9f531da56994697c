SPECIFICATION FairSpec
CONSTANTS
    Clients = {a, b}
    Ids = {i}
    Methods = {"control", "pull", "chat", "cancel"}
    MaxRequests = 2
    MaxEvents = 1
    MaxConnections = 2
    MaxInFlight = 1
    OutputLimit = 1
PROPERTIES
    CancelledByOwner
    DispatchedIsAnswered
CHECK_DEADLOCK FALSE
