SPECIFICATION Spec
CONSTANTS
    Clients = {a}
    Ids = {i, j}
    Methods = {"bad", "local", "control", "pull", "chat", "cancel"}
    MaxRequests = 3
    MaxEvents = 2
    MaxConnections = 1
    MaxInFlight = 2
    OutputLimit = 2
SYMMETRY Symmetry
INVARIANTS
    AnswersInOrder
    InFlightIsKnown
CHECK_DEADLOCK FALSE
